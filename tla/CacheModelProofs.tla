-------------------------- MODULE CacheModelProofs ---------------------------
(***************************************************************************)
(* CacheModel, for every geometry in which the two names of an aliased     *)
(* line fall in the same set: to the CPU alone the write-back cache is     *)
(* invisible, and with devices and uncached accesses around it a clean     *)
(* line differs from DRAM only where one of them wrote behind its back.    *)
(***************************************************************************)
EXTENDS CacheModel, TLAPS

\* With no access around the cache, a clean line equals DRAM.
CleanExact ==
  \A s \in Sets : l1[s].valid /\ ~l1[s].dirty => l1[s].data = dram[Alias[l1[s].line]]

CpuInv == TypeOK /\ Placed /\ CleanExact

-----------------------------------------------------------------------------
\* The geometry, and the fields of a cache line.
LEMMA Geometry ==
  /\ \A l \in Lines : Alias[l] \in Dram /\ SetOf[l] \in Sets /\ SetOf[Alias[l]] = SetOf[l]
  /\ \A a \in Dram : a \in Lines /\ SetOf[a] \in Sets
  BY GeometryAssumption DEF Dram

\* The fields of the line a set holds.
LEMMA LineFields ==
  ASSUME TypeOK, NEW s \in Sets
  PROVE  /\ l1[s] \in CLine /\ l1[s].line \in Lines /\ l1[s].data \in Data
         /\ Alias[l1[s].line] \in Dram
  BY Geometry DEF TypeOK, CLine

\* Writing a set's line back makes DRAM what the CPU sees, in that set.
LEMMA WrittenBackView ==
  ASSUME CpuInv, NEW s \in Sets
  PROVE  /\ WrittenBack(s) \in [Dram -> Data]
         /\ \A a \in Dram : WrittenBack(s)[a] = IF SetOf[a] = s THEN CpuView(a) ELSE dram[a]
  <1> DEFINE x == l1[s]
  <1>1. x.line \in Lines /\ x.data \in Data /\ Alias[x.line] \in Dram
    BY LineFields DEF CpuInv
  <1>2. dram \in [Dram -> Data]
    BY DEF CpuInv, TypeOK
  <1>3. x.valid => SetOf[Alias[x.line]] = s
    BY <1>1, Geometry DEF CpuInv, Placed
  <1>4. x.valid /\ ~x.dirty => x.data = dram[Alias[x.line]]
    BY DEF CpuInv, CleanExact
  <1>5. \A a \in Dram : SetOf[a] = s =>
          CpuView(a) = IF x.valid /\ Alias[x.line] = a THEN x.data ELSE dram[a]
    BY DEF CpuView
  <1>6. WrittenBack(s) = IF x.valid /\ x.dirty THEN [dram EXCEPT ![Alias[x.line]] = x.data]
                         ELSE dram
    BY DEF WrittenBack
  <1> HIDE DEF x
  <1> QED BY <1>1, <1>2, <1>3, <1>4, <1>5, <1>6

\* What the CPU sees after the line of a set is written back and replaced.
LEMMA ViewAfter ==
  ASSUME CpuInv, NEW s \in Sets, NEW n \in CLine,
         l1' = [l1 EXCEPT ![s] = n], dram' = WrittenBack(s)
  PROVE  \A a \in Dram :
           CpuView(a)' = IF SetOf[a] = s /\ n.valid /\ Alias[n.line] = a THEN n.data
                         ELSE CpuView(a)
  <1> SUFFICES ASSUME NEW a \in Dram
               PROVE  CpuView(a)' = IF SetOf[a] = s /\ n.valid /\ Alias[n.line] = a THEN n.data
                                    ELSE CpuView(a)
    OBVIOUS
  <1>1. dram'[a] = IF SetOf[a] = s THEN CpuView(a) ELSE dram[a]
    BY WrittenBackView
  <1>2. SetOf[a] \in Sets /\ l1 \in [Sets -> CLine]
    BY Geometry DEF CpuInv, TypeOK
  <1>3. CASE SetOf[a] = s
    BY <1>1, <1>2, <1>3 DEF CpuView
  <1>4. CASE SetOf[a] # s
    BY <1>1, <1>2, <1>4 DEF CpuView
  <1> QED BY <1>3, <1>4

\* Replacing the line of a set after a write-back keeps the invariant.
LEMMA ReplaceInv ==
  ASSUME CpuInv, NEW s \in Sets, NEW n \in CLine,
         l1' = [l1 EXCEPT ![s] = n], dram' = WrittenBack(s),
         out' \in Val, behind' \subseteq Dram \X Offsets,
         n.valid => SetOf[n.line] = s,
         n.valid /\ ~n.dirty => n.data = CpuView(Alias[n.line])
  PROVE  CpuInv'
  <1>1. TypeOK'
    BY WrittenBackView DEF CpuInv, TypeOK
  <1>2. l1 \in [Sets -> CLine]
    BY DEF CpuInv, TypeOK
  <1>3. Placed'
    BY <1>2 DEF CpuInv, Placed
  <1>4. CleanExact'
    <2> SUFFICES ASSUME NEW t \in Sets, l1'[t].valid, ~l1'[t].dirty
                 PROVE  l1'[t].data = dram'[Alias[l1'[t].line]]
      BY DEF CleanExact
    <2>1. l1'[t].line \in Lines /\ SetOf[l1'[t].line] = t
      BY <1>1, <1>3 DEF TypeOK, CLine, Placed
    <2>2. Alias[l1'[t].line] \in Dram /\ SetOf[Alias[l1'[t].line]] = t
      BY <2>1, Geometry
    <2>3. CASE t = s
      BY <1>2, <2>2, <2>3, WrittenBackView
    <2>4. CASE t # s
      BY <1>2, <2>2, <2>4, WrittenBackView DEF CpuInv, CleanExact
    <2> QED BY <2>3, <2>4
  <1> QED BY <1>1, <1>3, <1>4 DEF CpuInv

\* What a fill brings in is what the CPU saw of the line before.
LEMMA FillView ==
  ASSUME CpuInv, NEW l \in Lines
  PROVE  /\ fill(l) \in CLine /\ fill(l).valid /\ fill(l).line = l
         /\ fill(l).data = CpuView(Alias[l])
         /\ FillBehind(l) \subseteq Dram \X Offsets
  <1>1. SetOf[l] \in Sets /\ Alias[l] \in Dram /\ SetOf[Alias[l]] = SetOf[l]
    BY Geometry
  <1>2. FillBehind(l) \subseteq Dram \X Offsets
    BY DEF FillBehind, CpuInv, TypeOK
  <1>3. CASE resident(l)
    BY <1>1, <1>2, <1>3, LineFields DEF resident, fill, CpuView, CpuInv
  <1>4. CASE ~resident(l)
    <2> DEFINE d == WrittenBack(SetOf[l])[Alias[l]]
    <2>1. d = CpuView(Alias[l]) /\ d \in Data
      BY <1>1, WrittenBackView
    <2>2. fill(l) = [valid |-> TRUE, dirty |-> FALSE, line |-> l, data |-> d]
      BY <1>4 DEF fill, FillDram
    <2> HIDE DEF d
    <2> QED BY <1>2, <2>1, <2>2 DEF CLine
  <1> QED BY <1>3, <1>4

\* The contents the CPU sees, as the abstract memory's.
view == [a \in Dram |-> CpuView(a)]

\* A cached load returns what the CPU last saw there and changes nothing it sees.
LEMMA LoadStep ==
  ASSUME CpuInv, NEW l \in Lines, NEW o \in Offsets, cload(l, o)
  PROVE  CpuInv' /\ view' = view /\ out' = view[Alias[l]][o]
  <1>1. SetOf[l] \in Sets /\ Alias[l] \in Dram /\ SetOf[Alias[l]] = SetOf[l]
    BY Geometry
  <1>2. out' = view[Alias[l]][o]
    BY <1>1, FillView DEF cload, view
  <1>3. out' \in Val /\ behind' \subseteq Dram \X Offsets
    BY FillView DEF cload, CLine, Data
  <1>4. CASE resident(l)
    <2>1. l1' = l1 /\ dram' = dram
      <3>1. l1 \in [Sets -> CLine] /\ fill(l) = l1[SetOf[l]] /\ dram' = dram
        BY <1>4 DEF cload, fill, FillDram, CpuInv, TypeOK
      <3>2. l1' = [l1 EXCEPT ![SetOf[l]] = l1[SetOf[l]]]
        BY <3>1 DEF cload
      <3> QED BY <1>1, <3>1, <3>2
    <2>2. CpuInv'
      BY <1>3, <2>1 DEF CpuInv, TypeOK, Placed, CleanExact
    <2>3. \A a \in Dram : CpuView(a)' = CpuView(a)
      BY <2>1 DEF CpuView
    <2> QED BY <1>2, <2>2, <2>3 DEF view
  <1>5. CASE ~resident(l)
    <2>1. l1' = [l1 EXCEPT ![SetOf[l]] = fill(l)] /\ dram' = WrittenBack(SetOf[l])
      BY <1>5 DEF cload, FillDram
    <2>2. CpuInv'
      BY <1>1, <1>3, <2>1, FillView, ReplaceInv
    <2>3. \A a \in Dram : CpuView(a)' = CpuView(a)
      <3>1. PICK n : n = fill(l)
        OBVIOUS
      <3>2. n \in CLine /\ n.line = l /\ n.data = CpuView(Alias[l])
        BY <3>1, FillView
      <3>3. \A a \in Dram :
              CpuView(a)' = IF SetOf[a] = SetOf[l] /\ n.valid /\ Alias[n.line] = a THEN n.data
                            ELSE CpuView(a)
        BY <1>1, <2>1, <3>1, <3>2, ViewAfter
      <3> QED BY <3>2, <3>3
    <2> QED BY <1>2, <2>2, <2>3 DEF view
  <1> QED BY <1>4, <1>5

\* A cached store changes what the CPU sees of that byte only.
LEMMA StoreStep ==
  ASSUME CpuInv, NEW l \in Lines, NEW o \in Offsets, NEW v \in Val, cstore(l, o, v)
  PROVE  CpuInv' /\ view' = [view EXCEPT ![Alias[l]][o] = v] /\ out' = out
  <1> DEFINE n == [fill(l) EXCEPT !.data[o] = v, !.dirty = TRUE]
             d == [CpuView(Alias[l]) EXCEPT ![o] = v]
  <1>1. SetOf[l] \in Sets /\ Alias[l] \in Dram /\ SetOf[Alias[l]] = SetOf[l]
    BY Geometry
  <1>2. n \in CLine /\ n.valid /\ n.dirty /\ n.line = l /\ n.data = d
    BY FillView DEF CLine, Data
  <1>3. out' = out /\ out' \in Val /\ behind' \subseteq Dram \X Offsets
    BY FillView DEF cstore, CpuInv, TypeOK
  <1>4. l1' = [l1 EXCEPT ![SetOf[l]] = n]
    BY DEF cstore
  <1> HIDE DEF n
  <1>5. ASSUME \A a \in Dram : CpuView(a)' = IF a = Alias[l] THEN d ELSE CpuView(a)
        PROVE  view' = [view EXCEPT ![Alias[l]][o] = v]
    <2>1. view[Alias[l]] = CpuView(Alias[l])
      BY <1>1 DEF view
    <2>2. [view EXCEPT ![Alias[l]][o] = v] = [view EXCEPT ![Alias[l]] = d]
      BY <2>1
    <2> HIDE DEF d
    <2> QED BY <1>5, <2>2 DEF view
  <1>6. CASE resident(l)
    <2>1. dram' = dram /\ l1 \in [Sets -> CLine] /\ l1[SetOf[l]].line = l
      BY <1>6 DEF cstore, FillDram, CpuInv, TypeOK, resident
    <2>2. CpuInv'
      BY <1>1, <1>2, <1>3, <1>4, <2>1 DEF CpuInv, TypeOK, Placed, CleanExact
    <2>3. ASSUME NEW a \in Dram PROVE CpuView(a)' = IF a = Alias[l] THEN d ELSE CpuView(a)
      <3>1. SetOf[a] \in Sets
        BY Geometry
      <3> HIDE DEF d
      <3>2. CASE SetOf[a] = SetOf[l]
        BY <1>1, <1>2, <1>4, <2>1, <3>1, <3>2 DEF CpuView
      <3>3. CASE SetOf[a] # SetOf[l]
        BY <1>1, <1>2, <1>4, <2>1, <3>1, <3>3 DEF CpuView
      <3> QED BY <3>2, <3>3
    <2> QED BY <1>3, <1>5, <2>2, <2>3
  <1>7. CASE ~resident(l)
    <2>1. dram' = WrittenBack(SetOf[l])
      BY <1>7 DEF cstore, FillDram
    <2>2. CpuInv'
      BY <1>1, <1>2, <1>3, <1>4, <2>1, ReplaceInv
    <2> HIDE DEF d
    <2>3. ASSUME NEW a \in Dram PROVE CpuView(a)' = IF a = Alias[l] THEN d ELSE CpuView(a)
      BY <1>1, <1>2, <1>4, <2>1, ViewAfter
    <2> QED BY <1>3, <1>5, <2>2, <2>3
  <1> QED BY <1>6, <1>7

\* The CACHE operations with write-back.
LEMMA WriteBackStep ==
  ASSUME CpuInv, NEW s \in Sets, l1[s].valid, dram' = WrittenBack(s),
         UNCHANGED <<out, behind>>,
         \/ l1' = Cleaned(s)
         \/ l1' = [l1 EXCEPT ![s].valid = FALSE, ![s].dirty = FALSE]
  PROVE  CpuInv' /\ view' = view
  <1>1. PICK b \in BOOLEAN : l1' = [l1 EXCEPT ![s] = [l1[s] EXCEPT !.valid = b, !.dirty = FALSE]]
    <2>1. l1 \in [Sets -> CLine]
      BY DEF CpuInv, TypeOK
    <2>2. l1[s] = [l1[s] EXCEPT !.valid = TRUE]
      BY <2>1 DEF CLine
    <2>3. CASE l1' = Cleaned(s)
      BY <2>1, <2>2, <2>3 DEF Cleaned, CLine
    <2>4. CASE l1' = [l1 EXCEPT ![s].valid = FALSE, ![s].dirty = FALSE]
      BY <2>1, <2>4 DEF CLine
    <2> QED BY <2>3, <2>4
  <1> DEFINE n == [l1[s] EXCEPT !.valid = b, !.dirty = FALSE]
  <1>2. n \in CLine /\ n.line = l1[s].line /\ n.data = l1[s].data
    <2>1. l1[s] \in CLine
      BY LineFields DEF CpuInv
    <2> QED BY <2>1 DEF CLine
  <1>3. SetOf[l1[s].line] = s /\ l1[s].line \in Lines
    BY LineFields DEF CpuInv, Placed
  <1>4. n.data = CpuView(Alias[n.line])
    BY <1>2, <1>3, Geometry DEF CpuView
  <1>5. out' \in Val /\ behind' \subseteq Dram \X Offsets
    BY DEF CpuInv, TypeOK
  <1>6. l1' = [l1 EXCEPT ![s] = n]
    BY <1>1
  <1> HIDE DEF n
  <1>7. CpuInv'
    BY <1>2, <1>3, <1>4, <1>5, <1>6, ReplaceInv
  <1>8. \A a \in Dram : CpuView(a)' = CpuView(a)
    <2>1. PICK m : m = n
      OBVIOUS
    <2>2. m \in CLine /\ l1' = [l1 EXCEPT ![s] = m] /\ m.data = CpuView(Alias[m.line])
      BY <1>2, <1>4, <1>6, <2>1
    <2>3. \A a \in Dram :
            CpuView(a)' = IF SetOf[a] = s /\ m.valid /\ Alias[m.line] = a THEN m.data
                          ELSE CpuView(a)
      BY <2>2, ViewAfter
    <2> QED BY <2>2, <2>3
  <1> QED BY <1>7, <1>8 DEF view

-----------------------------------------------------------------------------
\* The invariant holds at start-up.
LEMMA InitCpu == Init => CpuInv
  <1> SUFFICES ASSUME Init PROVE CpuInv
    OBVIOUS
  <1>1. PICK l \in Lines, d \in Data :
          l1 = [s \in Sets |-> [valid |-> FALSE, dirty |-> FALSE, line |-> l, data |-> d]]
    BY DEF Init
  <1>2. l1 \in [Sets -> CLine] /\ \A s \in Sets : ~l1[s].valid
    BY <1>1 DEF CLine
  <1> QED BY <1>2 DEF Init, CpuInv, TypeOK, Placed, CleanExact

\* Every step of the CPU is a load or a store of the abstract memory, or changes
\* nothing the CPU can see.
LEMMA CpuStep ==
  ASSUME CpuInv, [CpuNext]_vars
  PROVE  CpuInv' /\ (Flat!Next \/ UNCHANGED <<view, out>>)
  <1>1. CASE \E l \in Lines, o \in Offsets : cload(l, o)
    <2>1. PICK l \in Lines, o \in Offsets : cload(l, o)
      BY <1>1
    <2>2. CpuInv' /\ view' = view /\ out' = view[Alias[l]][o] /\ Alias[l] \in Dram
      BY <2>1, LoadStep, Geometry
    <2>3. Flat!Load(Alias[l], o)
      BY <2>2 DEF Flat!Load, view
    <2> QED BY <2>2, <2>3 DEF Flat!Next
  <1>2. CASE \E l \in Lines, o \in Offsets, v \in Val : cstore(l, o, v)
    <2>1. PICK l \in Lines, o \in Offsets, v \in Val : cstore(l, o, v)
      BY <1>2
    <2>2. /\ CpuInv' /\ view' = [view EXCEPT ![Alias[l]][o] = v] /\ out' = out
          /\ Alias[l] \in Dram
      BY <2>1, StoreStep, Geometry
    <2>3. Flat!Store(Alias[l], o, v)
      BY <2>2 DEF Flat!Store, view
    <2> QED BY <2>2, <2>3 DEF Flat!Next
  <1>3. CASE \E l \in Lines : hit_wb(l) \/ hit_wb_inval(l)
    <2>1. PICK l \in Lines : hit_wb(l) \/ hit_wb_inval(l)
      BY <1>3
    <2>2. SetOf[l] \in Sets
      BY Geometry
    <2>3. CpuInv' /\ view' = view
      BY <2>1, <2>2, WriteBackStep DEF hit_wb, hit_wb_inval, WbInval, resident
    <2>4. out' = out
      BY <2>1 DEF hit_wb, hit_wb_inval, WbInval
    <2> QED BY <2>3, <2>4
  <1>4. CASE \E s \in Sets : index_wb_inval(s)
    <2>1. PICK s \in Sets : index_wb_inval(s)
      BY <1>4
    <2>2. CpuInv' /\ view' = view
      BY <2>1, WriteBackStep DEF index_wb_inval, WbInval
    <2>3. out' = out
      BY <2>1 DEF index_wb_inval, WbInval
    <2> QED BY <2>2, <2>3
  <1>5. CASE UNCHANGED vars
    <2>1. l1' = l1 /\ dram' = dram /\ out' = out /\ behind' = behind
      BY <1>5 DEF vars
    <2>2. \A a \in Dram : CpuView(a)' = CpuView(a)
      BY <2>1 DEF CpuView
    <2> QED BY <2>1, <2>2 DEF CpuInv, TypeOK, Placed, CleanExact, view
  <1> QED BY <1>1, <1>2, <1>3, <1>4, <1>5 DEF CpuNext

\* Cached loads and stores and the write-back CACHE operations implement a flat
\* memory, through both names of an aliased line.
THEOREM CacheInvisible == CpuSpec => SelfCoherent
  <1>1. Init => Flat!Init
    <2> SUFFICES ASSUME Init PROVE Flat!Init
      OBVIOUS
    <2>1. CpuInv
      BY InitCpu
    <2>2. \A a \in Dram : CpuView(a) \in Data
      BY <2>1, Geometry, LineFields DEF CpuView, CpuInv, TypeOK
    <2> QED BY <2>2 DEF Init, Flat!Init, Data
  <1>2. CpuInv /\ [CpuNext]_vars => CpuInv'
    BY CpuStep
  <1>3. CpuInv /\ [CpuNext]_vars => [Flat!Next]_<<[a \in Dram |-> CpuView(a)], out>>
    BY CpuStep DEF view
  <1> QED BY <1>1, <1>2, <1>3, InitCpu, PTL DEF CpuSpec, SelfCoherent, Flat!Spec

-----------------------------------------------------------------------------
\* TypeOK, Placed and CleanMatches of a cache c, a DRAM d and a history b, so
\* that the three parts of a DMA write can be taken one after the other.
OK(c, d, b) ==
  /\ c \in [Sets -> CLine] /\ d \in [Dram -> Data] /\ b \subseteq Dram \X Offsets
  /\ \A s \in Sets : c[s].valid => SetOf[c[s].line] = s
  /\ \A s \in Sets : c[s].valid /\ ~c[s].dirty =>
       \A o \in Offsets : c[s].data[o] # d[Alias[c[s].line]][o] =>
                            <<Alias[c[s].line], o>> \in b

\* OK is the invariant, as a predicate of the values it is about.
LEMMA OKIsInv ==
  (TypeOK /\ Placed /\ CleanMatches) <=> (OK(l1, dram, behind) /\ out \in Val)
  BY DEF OK, TypeOK, Placed, CleanMatches

\* A write that does not go through the cache is recorded.
LEMMA WriteOK ==
  ASSUME NEW c, NEW d, NEW b, OK(c, d, b),
         NEW a \in Dram, NEW o \in Offsets, NEW v \in Val
  PROVE  OK(c, [d EXCEPT ![a][o] = v], b \cup {<<a, o>>})
  <1> DEFINE x == [d[a] EXCEPT ![o] = v]
             e == [d EXCEPT ![a] = x]
  <1>1. d \in [Dram -> Data] /\ d[a] \in Data
    BY DEF OK
  <1>2. x \in Data /\ \A p \in Offsets : p # o => x[p] = d[a][p]
    BY <1>1 DEF Data
  <1>3. [d EXCEPT ![a][o] = v] = e
    BY <1>1
  <1> HIDE DEF x
  <1>4. e \in [Dram -> Data] /\ \A k \in Dram : e[k] = IF k = a THEN x ELSE d[k]
    BY <1>1, <1>2
  <1> HIDE DEF e
  <1>5. \A s \in Sets : c[s] \in CLine /\ Alias[c[s].line] \in Dram
    BY Geometry DEF OK, CLine
  <1>6. ASSUME NEW s \in Sets, c[s].valid, ~c[s].dirty, NEW p \in Offsets,
               c[s].data[p] # e[Alias[c[s].line]][p]
        PROVE  <<Alias[c[s].line], p>> \in b \cup {<<a, o>>}
    <2>1. CASE Alias[c[s].line] = a /\ p = o
      BY <2>1
    <2>2. CASE ~(Alias[c[s].line] = a /\ p = o)
      <3>1. e[Alias[c[s].line]][p] = d[Alias[c[s].line]][p]
        BY <1>2, <1>4, <1>5, <2>2
      <3> QED BY <1>6, <3>1 DEF OK
    <2> QED BY <2>1, <2>2
  <1>7. b \cup {<<a, o>>} \subseteq Dram \X Offsets
    BY DEF OK
  <1>8. OK(c, e, b \cup {<<a, o>>})
    BY <1>4, <1>6, <1>7 DEF OK
  <1> QED BY <1>3, <1>8

\* An invalidated line promises nothing.
LEMMA DropOK ==
  ASSUME NEW c, NEW d, NEW b, OK(c, d, b), NEW s \in Sets
  PROVE  OK([c EXCEPT ![s].valid = FALSE], d, b)
  <1> DEFINE n == [c EXCEPT ![s].valid = FALSE]
  <1>1. n \in [Sets -> CLine] /\ ~n[s].valid
    BY DEF OK, CLine
  <1>2. \A t \in Sets : t # s => n[t] = c[t]
    BY DEF OK
  <1> HIDE DEF n
  <1>3. OK(n, d, b)
    BY <1>1, <1>2 DEF OK
  <1> QED BY <1>3 DEF n

\* Writing a set's line back changes DRAM in that line only, to its data.
LEMMA WriteBackFacts ==
  ASSUME OK(l1, dram, behind), NEW s \in Sets
  PROVE  /\ WrittenBack(s) \in [Dram -> Data]
         /\ \A a \in Dram : SetOf[a] # s => WrittenBack(s)[a] = dram[a]
         /\ l1[s].valid /\ l1[s].dirty => WrittenBack(s)[Alias[l1[s].line]] = l1[s].data
         /\ ~(l1[s].valid /\ l1[s].dirty) => WrittenBack(s) = dram
  <1> DEFINE x == l1[s]
  <1>1. x.line \in Lines /\ x.data \in Data /\ Alias[x.line] \in Dram
    BY Geometry DEF OK, CLine
  <1>2. x.valid => SetOf[Alias[x.line]] = s
    BY <1>1, Geometry DEF OK
  <1>3. dram \in [Dram -> Data]
    BY DEF OK
  <1>4. WrittenBack(s) = IF x.valid /\ x.dirty THEN [dram EXCEPT ![Alias[x.line]] = x.data]
                         ELSE dram
    BY DEF WrittenBack
  <1> HIDE DEF x
  <1>5. CASE x.valid /\ x.dirty
    BY <1>1, <1>2, <1>3, <1>4, <1>5 DEF x
  <1>6. CASE ~(x.valid /\ x.dirty)
    BY <1>3, <1>4, <1>6 DEF x
  <1> QED BY <1>5, <1>6

\* A set's line written back and replaced, by one equal to DRAM if it is clean.
LEMMA ReplaceOK ==
  ASSUME OK(l1, dram, behind), NEW s \in Sets, NEW n \in CLine,
         NEW b, b \subseteq Dram \X Offsets,
         \A a \in Dram, o \in Offsets : SetOf[a] # s /\ <<a, o>> \in behind => <<a, o>> \in b,
         n.valid => SetOf[n.line] = s,
         n.valid /\ ~n.dirty => n.data = WrittenBack(s)[Alias[n.line]]
  PROVE  OK([l1 EXCEPT ![s] = n], WrittenBack(s), b)
  <1> DEFINE c == [l1 EXCEPT ![s] = n]
  <1>1. l1 \in [Sets -> CLine]
    BY DEF OK
  <1>2. c \in [Sets -> CLine] /\ c[s] = n /\ \A t \in Sets : t # s => c[t] = l1[t]
    BY <1>1
  <1> HIDE DEF c
  <1>3. \A t \in Sets : c[t].valid => SetOf[c[t].line] = t
    BY <1>2 DEF OK
  <1>4. ASSUME NEW t \in Sets, c[t].valid, ~c[t].dirty, NEW o \in Offsets,
               c[t].data[o] # WrittenBack(s)[Alias[c[t].line]][o]
        PROVE  <<Alias[c[t].line], o>> \in b
    <2>1. t # s
      BY <1>2, <1>4
    <2>2. c[t] = l1[t] /\ c[t].line \in Lines
      BY <1>2, <2>1 DEF CLine
    <2>3. Alias[c[t].line] \in Dram /\ SetOf[Alias[c[t].line]] = t
      BY <1>3, <1>4, <2>2, Geometry
    <2>4. WrittenBack(s)[Alias[c[t].line]] = dram[Alias[c[t].line]]
      BY <2>1, <2>3, WriteBackFacts
    <2>5. <<Alias[c[t].line], o>> \in behind
      BY <1>4, <2>2, <2>4 DEF OK
    <2> QED BY <2>1, <2>3, <2>5
  <1>5. OK(c, WrittenBack(s), b)
    BY <1>2, <1>3, <1>4, WriteBackFacts DEF OK
  <1> QED BY <1>5 DEF c

\* A fill, whether or not the line was resident.
LEMMA FillOK ==
  ASSUME OK(l1, dram, behind), NEW l \in Lines
  PROVE  /\ fill(l) \in CLine /\ fill(l).valid /\ fill(l).line = l
         /\ OK([l1 EXCEPT ![SetOf[l]] = fill(l)], FillDram(l), FillBehind(l))
  <1> DEFINE s == SetOf[l]
  <1>1. s \in Sets /\ Alias[l] \in Dram /\ SetOf[Alias[l]] = s
    BY Geometry
  <1>2. CASE resident(l)
    <2>1. fill(l) = l1[s] /\ FillDram(l) = dram /\ FillBehind(l) = behind
      BY <1>2 DEF fill, FillDram, FillBehind
    <2>2. l1 \in [Sets -> CLine]
      BY DEF OK
    <2>3. [l1 EXCEPT ![s] = l1[s]] = l1
      BY <1>1, <2>2
    <2> QED BY <1>1, <1>2, <2>1, <2>2, <2>3 DEF resident
  <1>3. CASE ~resident(l)
    <2> DEFINE d == WrittenBack(s)[Alias[l]]
               n == [valid |-> TRUE, dirty |-> FALSE, line |-> l, data |-> d]
    <2>1. d \in Data
      BY <1>1, WriteBackFacts
    <2>2. n \in CLine /\ n.valid /\ ~n.dirty /\ n.line = l /\ n.data = d
      BY <2>1 DEF CLine
    <2>3. fill(l) = n /\ FillDram(l) = WrittenBack(s)
      BY <1>3 DEF fill, FillDram
    <2>4. FillBehind(l) = {b \in behind : b[1] # Alias[l]}
      BY <1>3 DEF FillBehind
    <2>5. FillBehind(l) \subseteq Dram \X Offsets
      BY <2>4 DEF OK
    <2>6. \A a \in Dram, o \in Offsets :
            SetOf[a] # s /\ <<a, o>> \in behind => <<a, o>> \in FillBehind(l)
      BY <1>1, <2>4
    <2> HIDE DEF n
    <2>7. OK([l1 EXCEPT ![s] = n], WrittenBack(s), FillBehind(l))
      BY <1>1, <2>2, <2>5, <2>6, ReplaceOK
    <2> QED BY <2>2, <2>3, <2>7
  <1> QED BY <1>2, <1>3

\* A dirty line promises nothing about DRAM, so a store into a line is safe.
LEMMA DirtyOK ==
  ASSUME NEW c, NEW d, NEW b, OK(c, d, b), NEW s \in Sets, NEW n \in CLine, n.dirty,
         n.valid => SetOf[n.line] = s
  PROVE  OK([c EXCEPT ![s] = n], d, b)
  <1> DEFINE m == [c EXCEPT ![s] = n]
  <1>1. m \in [Sets -> CLine] /\ m[s] = n /\ \A t \in Sets : t # s => m[t] = c[t]
    BY DEF OK
  <1> HIDE DEF m
  <1>2. OK(m, d, b)
    BY <1>1 DEF OK
  <1> QED BY <1>2 DEF m

SpecInv == OK(l1, dram, behind) /\ out \in Val

\* Cached accesses.
LEMMA CachedStep ==
  ASSUME SpecInv, NEW l \in Lines, NEW o \in Offsets,
         cload(l, o) \/ \E v \in Val : cstore(l, o, v)
  PROVE  SpecInv'
  <1>1. SetOf[l] \in Sets
    BY Geometry
  <1>2. /\ fill(l) \in CLine /\ fill(l).valid /\ fill(l).line = l /\ fill(l).data \in Data
        /\ OK([l1 EXCEPT ![SetOf[l]] = fill(l)], FillDram(l), FillBehind(l))
    BY FillOK DEF SpecInv, CLine
  <1>3. CASE cload(l, o)
    <2>1. OK(l1', dram', behind')
      BY <1>2, <1>3 DEF cload
    <2>2. out' \in Val
      BY <1>2, <1>3 DEF cload, Data
    <2> QED BY <2>1, <2>2 DEF SpecInv
  <1>4. CASE \E v \in Val : cstore(l, o, v)
    <2>1. PICK v \in Val : cstore(l, o, v)
      BY <1>4
    <2> DEFINE c == [l1 EXCEPT ![SetOf[l]] = fill(l)]
               n == [fill(l) EXCEPT !.data[o] = v, !.dirty = TRUE]
    <2>2. n \in CLine /\ n.dirty /\ n.line = l
      BY <1>2 DEF CLine, Data
    <2>3. [c EXCEPT ![SetOf[l]] = n] = [l1 EXCEPT ![SetOf[l]] = n]
      <3> HIDE DEF n
      <3>1. l1 \in [Sets -> CLine]
        BY DEF SpecInv, OK
      <3> QED BY <1>1, <3>1
    <2>4. l1' = [l1 EXCEPT ![SetOf[l]] = n] /\ dram' = FillDram(l) /\ behind' = FillBehind(l)
          /\ out' = out
      BY <2>1 DEF cstore
    <2> HIDE DEF n, c
    <2>5. OK([c EXCEPT ![SetOf[l]] = n], FillDram(l), FillBehind(l))
      BY <1>1, <1>2, <2>2, DirtyOK DEF c
    <2> QED BY <2>3, <2>4, <2>5 DEF SpecInv
  <1> QED BY <1>3, <1>4

\* CACHE operations: write-back, write-back and invalidate, invalidate.
LEMMA CacheOpStep ==
  ASSUME SpecInv, NEW s \in Sets, l1[s].valid, UNCHANGED <<out, behind>>,
         \/ dram' = WrittenBack(s) /\ l1' = Cleaned(s)
         \/ dram' = WrittenBack(s) /\ l1' = [l1 EXCEPT ![s].valid = FALSE, ![s].dirty = FALSE]
         \/ dram' = dram /\ l1' = Dropped(s)
  PROVE  SpecInv'
  <1>1. l1 \in [Sets -> CLine] /\ l1[s] \in CLine /\ SetOf[l1[s].line] = s
        /\ behind \subseteq Dram \X Offsets
    BY DEF SpecInv, OK
  <1>2. CASE dram' = WrittenBack(s) /\ l1' = Cleaned(s) /\ l1[s].dirty
    <2> DEFINE n == [l1[s] EXCEPT !.dirty = FALSE]
    <2>1. n \in CLine /\ n.line = l1[s].line /\ n.data = l1[s].data /\ l1' = [l1 EXCEPT ![s] = n]
      BY <1>1, <1>2 DEF CLine, Cleaned
    <2>2. n.data = WrittenBack(s)[Alias[n.line]]
      BY <1>2, <2>1, WriteBackFacts DEF SpecInv
    <2> HIDE DEF n
    <2>3. OK([l1 EXCEPT ![s] = n], WrittenBack(s), behind)
      BY <1>1, <2>1, <2>2, ReplaceOK DEF SpecInv
    <2> QED BY <1>2, <2>1, <2>3 DEF SpecInv
  <1>3. CASE dram' = WrittenBack(s) /\ l1' = Cleaned(s) /\ ~l1[s].dirty
    <2>1. l1' = l1
      <3>1. l1[s].dirty = FALSE
        BY <1>1, <1>3 DEF CLine
      <3>2. [l1[s] EXCEPT !.dirty = FALSE] = l1[s]
        BY <1>1, <3>1 DEF CLine
      <3> QED BY <1>1, <1>3, <3>2 DEF Cleaned
    <2>2. dram' = dram
      BY <1>3, WriteBackFacts DEF SpecInv
    <2> QED BY <2>1, <2>2 DEF SpecInv
  <1>4. CASE dram' = WrittenBack(s) /\ l1' = [l1 EXCEPT ![s].valid = FALSE, ![s].dirty = FALSE]
    <2> DEFINE n == [l1[s] EXCEPT !.valid = FALSE, !.dirty = FALSE]
    <2>1. n \in CLine /\ ~n.valid /\ l1' = [l1 EXCEPT ![s] = n]
      BY <1>1, <1>4 DEF CLine
    <2> HIDE DEF n
    <2>2. OK([l1 EXCEPT ![s] = n], WrittenBack(s), behind)
      BY <1>1, <2>1, ReplaceOK DEF SpecInv
    <2> QED BY <1>4, <2>1, <2>2 DEF SpecInv
  <1>5. CASE dram' = dram /\ l1' = Dropped(s)
    BY <1>5, DropOK DEF SpecInv, Dropped
  <1> QED BY <1>2, <1>3, <1>4, <1>5

\* Uncached accesses and DMA.
LEMMA OutsideStep ==
  ASSUME SpecInv, NEW l \in Lines, NEW o \in Offsets,
         UncachedLoad(l, o) \/ \E v \in Val : UncachedStore(l, o, v) \/ DmaWrite(l, o, v)
  PROVE  SpecInv'
  <1>1. SetOf[l] \in Sets /\ Alias[l] \in Dram
    BY Geometry
  <1>2. CASE UncachedLoad(l, o)
    <2>1. /\ l1' = l1 /\ dram' = dram /\ behind' = behind
          /\ out' = dram[Alias[l]][o]
      BY <1>2 DEF UncachedLoad
    <2>2. dram \in [Dram -> [Offsets -> Val]]
      BY DEF SpecInv, OK, Data
    <2>3. out' \in Val
      BY <1>1, <2>1, <2>2
    <2>4. OK(l1, dram, behind)' <=> OK(l1, dram, behind)
      BY <2>1 DEF OK
    <2> QED BY <2>1, <2>3, <2>4 DEF SpecInv
  <1>3. ASSUME NEW v \in Val, UncachedStore(l, o, v) PROVE SpecInv'
    <2> DEFINE e == [dram EXCEPT ![Alias[l]][o] = v]
               h == behind \cup {<<Alias[l], o>>}
    <2>1. dram' = e /\ behind' = h /\ l1' = l1 /\ out' = out
      BY <1>3 DEF UncachedStore
    <2>2. OK(l1, e, h)
      BY <1>1, WriteOK DEF SpecInv
    <2> HIDE DEF e, h
    <2> QED BY <2>1, <2>2 DEF SpecInv
  <1>4. ASSUME NEW v \in Val, DmaWrite(l, o, v) PROVE SpecInv'
    <2> DEFINE c == IF SpecDma THEN [l1 EXCEPT ![SetOf[l]] = fill(l)] ELSE l1
               d == IF SpecDma THEN FillDram(l) ELSE dram
               b == IF SpecDma THEN FillBehind(l) ELSE behind
               hit == c[SetOf[l]].valid /\ c[SetOf[l]].line = l
               e == [d EXCEPT ![Alias[l]][o] = v]
               h == b \cup {<<Alias[l], o>>}
    <2>1. OK(c, d, b)
      BY FillOK DEF SpecInv
    <2>2. /\ dram' = e /\ behind' = h /\ out' = out
          /\ l1' = IF CoherentDma /\ hit THEN [c EXCEPT ![SetOf[l]].valid = FALSE] ELSE c
      BY <1>4 DEF DmaWrite
    <2> HIDE DEF c, d, b
    <2>3. OK(c, e, h)
      BY <1>1, <2>1, WriteOK
    <2> HIDE DEF e, h, hit
    <2>4. OK([c EXCEPT ![SetOf[l]].valid = FALSE], e, h)
      BY <1>1, <2>3, DropOK
    <2> QED BY <2>2, <2>3, <2>4 DEF SpecInv
  <1> QED BY <1>2, <1>3, <1>4

\* Every step keeps the invariant.
LEMMA SpecStep == SpecInv /\ [Next]_vars => SpecInv'
  <1> SUFFICES ASSUME SpecInv, [Next]_vars PROVE SpecInv'
    OBVIOUS
  <1>1. CASE \E l \in Lines, o \in Offsets : cload(l, o) \/ \E v \in Val : cstore(l, o, v)
    BY <1>1, CachedStep
  <1>2. CASE \E l \in Lines : hit_wb(l) \/ hit_wb_inval(l) \/ hit_inval(l)
    <2>1. PICK l \in Lines : hit_wb(l) \/ hit_wb_inval(l) \/ hit_inval(l)
      BY <1>2
    <2>2. SetOf[l] \in Sets /\ l1[SetOf[l]].valid
      BY <2>1, Geometry DEF hit_wb, hit_wb_inval, hit_inval, resident
    <2> QED BY <2>1, <2>2, CacheOpStep DEF hit_wb, hit_wb_inval, hit_inval, WbInval
  <1>3. CASE \E s \in Sets : index_wb_inval(s)
    BY <1>3, CacheOpStep DEF index_wb_inval, WbInval
  <1>4. CASE \E l \in Lines, o \in Offsets :
               UncachedLoad(l, o) \/ \E v \in Val : UncachedStore(l, o, v) \/ DmaWrite(l, o, v)
    BY <1>4, OutsideStep
  <1>5. CASE UNCHANGED vars
    BY <1>5 DEF vars, SpecInv, OK
  <1> QED BY <1>1, <1>2, <1>3, <1>4, <1>5 DEF Next, CpuNext, OtherNext

\* The inductive invariant.
THEOREM Inductive == Spec => []SpecInv
  <1>1. Init => SpecInv
    <2> SUFFICES ASSUME Init PROVE SpecInv
      OBVIOUS
    <2>1. CpuInv
      BY InitCpu
    <2>2. \A s \in Sets : ~l1[s].valid
      BY DEF Init
    <2> QED BY <2>1, <2>2 DEF Init, SpecInv, OK, CpuInv, TypeOK
  <1> QED BY <1>1, SpecStep, PTL DEF Spec

\* Whatever devices and uncached accesses do, a clean line differs from DRAM only
\* where one of them wrote since it was filled: the stale-read detector has no
\* false alarm.
THEOREM DetectorSound == Spec => [](TypeOK /\ Placed /\ CleanMatches)
  <1>1. SpecInv => TypeOK /\ Placed /\ CleanMatches
    BY OKIsInv DEF SpecInv
  <1> QED BY <1>1, Inductive, PTL

-----------------------------------------------------------------------------
(* The steps, with the cache around them *)

\* What a set holds, and where.
LEMMA SetFacts ==
  ASSUME SpecInv, NEW s \in Sets
  PROVE  /\ l1[s] \in CLine /\ l1[s].line \in Lines /\ l1[s].data \in Data
         /\ l1[s].valid \in BOOLEAN /\ l1[s].dirty \in BOOLEAN
         /\ Alias[l1[s].line] \in Dram
         /\ l1[s].valid => SetOf[l1[s].line] = s
  BY Geometry DEF SpecInv, OK, CLine

\* Writing a set back gives DRAM what the CPU sees, but for what was written
\* behind the cache's back.
LEMMA WrittenBackSeen ==
  ASSUME SpecInv, NEW a \in Dram, NEW o \in Offsets
  PROVE  WrittenBack(SetOf[a])[a][o] = CpuView(a)[o] \/ <<a, o>> \in behind
  <1> DEFINE s == SetOf[a]
             x == l1[s]
  <1>1. s \in Sets
    BY Geometry
  <1>2. x \in CLine /\ (x.valid => SetOf[x.line] = s) /\ Alias[x.line] \in Dram
    BY <1>1, SetFacts
  <1>3. dram \in [Dram -> Data]
    BY DEF SpecInv, OK
  <1>4. CASE x.valid /\ x.dirty
    BY <1>2, <1>3, <1>4 DEF WrittenBack, CpuView
  <1>5. CASE x.valid /\ ~x.dirty /\ Alias[x.line] = a
    <2>1. x.data[o] # dram[a][o] => <<a, o>> \in behind
      BY <1>1, <1>5 DEF SpecInv, OK
    <2> QED BY <1>5, <2>1 DEF WrittenBack, CpuView
  <1>6. CASE ~x.valid \/ (~x.dirty /\ Alias[x.line] # a)
    BY <1>6 DEF WrittenBack, CpuView
  <1> QED BY <1>4, <1>5, <1>6

\* A set other than the one a step works on is left as it is, in the cache and
\* in DRAM.
LEMMA OtherSets ==
  ASSUME SpecInv, NEW s \in Sets, NEW n, l1' = [l1 EXCEPT ![s] = n],
         dram' = WrittenBack(s) \/ dram' = dram
  PROVE  /\ \A t \in Sets : t # s => l1'[t] = l1[t]
         /\ l1'[s] = n
         /\ \A a \in Dram : SetOf[a] # s => dram'[a] = dram[a] /\ CpuView(a)' = CpuView(a)
  <1>1. \A t \in Sets : t # s => l1'[t] = l1[t]
    BY DEF SpecInv, OK
  <1>2. \A a \in Dram : SetOf[a] # s => dram'[a] = dram[a]
    BY WriteBackFacts DEF SpecInv
  <1>3. l1'[s] = n
    BY DEF SpecInv, OK
  <1> QED BY <1>1, <1>2, <1>3, Geometry DEF CpuView

\* fill() leaves a resident line alone, and otherwise replaces the set's line
\* by a clean copy of DRAM, written back before.
LEMMA FillCases ==
  ASSUME SpecInv, NEW l \in Lines
  PROVE  \/ /\ resident(l) /\ fill(l) = l1[SetOf[l]] /\ FillDram(l) = dram
         \/ /\ ~resident(l) /\ FillDram(l) = WrittenBack(SetOf[l])
            /\ fill(l) = [valid |-> TRUE, dirty |-> FALSE, line |-> l,
                          data |-> WrittenBack(SetOf[l])[Alias[l]]]
  BY DEF fill, FillDram

-----------------------------------------------------------------------------
(* Stored bytes are kept *)

KeptAt(s, o) ==
  LET old == l1[s] IN old.valid /\ old.dirty =>
    \/ l1'[s].valid /\ l1'[s].dirty /\ l1'[s].line = old.line
    \/ dram'[Alias[old.line]][o] = old.data[o]
    \/ hit_inval(old.line)
    \/ \E l \in Lines, v \in Val : Alias[l] = Alias[old.line] /\ DmaWrite(l, o, v)
    \/ CoherentDma /\ \E p \in Offsets, v \in Val : DmaWrite(old.line, p, v)

\* The dirty line of a set that is written back is in DRAM.
LEMMA BackInDram ==
  ASSUME SpecInv, NEW s \in Sets, l1[s].valid, l1[s].dirty
  PROVE  WrittenBack(s)[Alias[l1[s].line]] = l1[s].data
  BY WriteBackFacts DEF SpecInv

\* A step that works on another set.
LEMMA KeptElsewhere ==
  ASSUME SpecInv, NEW s \in Sets, NEW o \in Offsets, l1'[s] = l1[s]
  PROVE  KeptAt(s, o)
  BY DEF KeptAt

\* Cached accesses.
LEMMA CachedKeeps ==
  ASSUME SpecInv, NEW s \in Sets, NEW o \in Offsets, NEW l \in Lines, NEW p \in Offsets,
         cload(l, p) \/ \E v \in Val : cstore(l, p, v)
  PROVE  KeptAt(s, o)
  <1>1. SetOf[l] \in Sets /\ fill(l) \in CLine
    BY Geometry, FillOK DEF SpecInv
  <1>2. PICK n : /\ l1' = [l1 EXCEPT ![SetOf[l]] = n] /\ dram' = FillDram(l) /\ n.line = fill(l).line
                 /\ n.valid = fill(l).valid
                 /\ fill(l).dirty => n.dirty
    <2>1. CASE cload(l, p)
      BY <2>1 DEF cload
    <2>2. CASE \E v \in Val : cstore(l, p, v)
      <3>1. PICK v \in Val : cstore(l, p, v)
        BY <2>2
      <3> DEFINE m == [fill(l) EXCEPT !.data[p] = v, !.dirty = TRUE]
      <3>2. m.line = fill(l).line /\ m.valid = fill(l).valid /\ m.dirty
        BY <1>1 DEF CLine
      <3> QED BY <3>1, <3>2 DEF cstore
    <2> QED BY <2>1, <2>2
  <1>3. CASE s # SetOf[l]
    BY <1>1, <1>2, <1>3, KeptElsewhere DEF SpecInv, OK
  <1>4. CASE s = SetOf[l] /\ resident(l)
    <2>1. l1'[s] = n
      BY <1>1, <1>2, <1>4 DEF SpecInv, OK
    <2> QED BY <1>2, <1>4, <2>1, FillCases DEF KeptAt
  <1>5. CASE s = SetOf[l] /\ ~resident(l)
    <2>1. dram' = WrittenBack(s)
      BY <1>2, <1>5, FillCases
    <2> QED BY <2>1, BackInDram DEF KeptAt
  <1> QED BY <1>3, <1>4, <1>5

\* CACHE operations.
LEMMA CacheOpKeeps ==
  ASSUME SpecInv, NEW s \in Sets, NEW o \in Offsets, NEW t \in Sets,
         \/ dram' = WrittenBack(t) /\ l1' = Cleaned(t)
         \/ WbInval(t)
         \/ \E l \in Lines : hit_inval(l) /\ SetOf[l] = t
  PROVE  KeptAt(s, o)
  <1>1. CASE dram' = WrittenBack(t) /\ s = t
    BY <1>1, BackInDram DEF KeptAt
  <1>2. CASE s # t
    <2>1. l1'[s] = l1[s]
      BY <1>2 DEF SpecInv, OK, Cleaned, Dropped, WbInval, hit_inval
    <2> QED BY <2>1, KeptElsewhere
  <1>3. CASE s = t /\ \E l \in Lines : hit_inval(l) /\ SetOf[l] = t
    <2>1. hit_inval(l1[s].line)
      BY <1>3 DEF hit_inval, resident
    <2> QED BY <2>1 DEF KeptAt
  <1> QED BY <1>1, <1>2, <1>3 DEF WbInval

\* Device DMA.
LEMMA DmaKeeps ==
  ASSUME SpecInv, NEW s \in Sets, NEW o \in Offsets, NEW l \in Lines, NEW p \in Offsets,
         NEW v \in Val, DmaWrite(l, p, v)
  PROVE  KeptAt(s, o)
  <1> DEFINE t == SetOf[l]
             c == IF SpecDma THEN [l1 EXCEPT ![t] = fill(l)] ELSE l1
             d == IF SpecDma THEN FillDram(l) ELSE dram
             hit == c[t].valid /\ c[t].line = l
  <1>1. t \in Sets /\ Alias[l] \in Dram
    BY Geometry
  <1>2. /\ dram' = [d EXCEPT ![Alias[l]][p] = v]
        /\ l1' = IF CoherentDma /\ hit THEN [c EXCEPT ![t].valid = FALSE] ELSE c
    BY DEF DmaWrite
  <1>3. c \in [Sets -> CLine] /\ d \in [Dram -> Data]
    BY FillOK DEF SpecInv, OK
  <1>4. CASE s # t
    <2>1. c[s] = l1[s]
      BY <1>1, <1>4 DEF SpecInv, OK
    <2>2. l1'[s] = c[s]
      <3> HIDE DEF c
      <3> QED BY <1>1, <1>2, <1>3, <1>4
    <2> QED BY <2>1, <2>2, KeptElsewhere
  <1>5. CASE s = t /\ (~SpecDma \/ resident(l))
    <2>1. c = l1
      BY <1>5, FillCases DEF SpecInv, OK
    <2>2. CASE CoherentDma /\ hit
      <3>1. l1[s].line = l
        BY <1>5, <2>1, <2>2
      <3> QED BY <2>2, <3>1 DEF KeptAt
    <2>3. CASE ~(CoherentDma /\ hit)
      <3>1. l1' = l1
        <4> HIDE DEF c, hit
        <4> QED BY <1>2, <2>1, <2>3
      <3> QED BY <3>1, KeptElsewhere
    <2> QED BY <2>2, <2>3
  <1>6. CASE s = t /\ SpecDma /\ ~resident(l)
    <2>1. d = WrittenBack(s)
      BY <1>6, FillCases
    <2> SUFFICES ASSUME l1[s].valid, l1[s].dirty,
                        ~(Alias[l] = Alias[l1[s].line] /\ p = o)
                 PROVE  dram'[Alias[l1[s].line]][o] = l1[s].data[o]
      BY DEF KeptAt
    <2>2. d[Alias[l1[s].line]] = l1[s].data
      BY <2>1, BackInDram
    <2>3. Alias[l1[s].line] \in Dram /\ l1[s].data \in Data
      BY SetFacts
    <2> HIDE DEF d
    <2> QED BY <1>1, <1>2, <1>3, <2>2, <2>3 DEF Data
  <1> QED BY <1>4, <1>5, <1>6

\* A modified line leaves the cache only into DRAM, to an explicit invalidate,
\* or to a device that writes it.
THEOREM StoresAreKept == Spec => StoresKept
  <1> DEFINE P == \A s \in Sets, o \in Offsets : KeptAt(s, o)
  <1>1. SpecInv /\ [Next]_vars => [P]_vars
    <2> SUFFICES ASSUME SpecInv, Next, NEW s \in Sets, NEW o \in Offsets
                 PROVE  KeptAt(s, o)
      OBVIOUS
    <2>1. CASE \E l \in Lines, p \in Offsets : cload(l, p) \/ \E v \in Val : cstore(l, p, v)
      BY <2>1, CachedKeeps
    <2>2. CASE \E l \in Lines : hit_wb(l) \/ hit_wb_inval(l) \/ hit_inval(l)
      BY <2>2, CacheOpKeeps, Geometry DEF hit_wb, hit_wb_inval
    <2>3. CASE \E t \in Sets : index_wb_inval(t)
      BY <2>3, CacheOpKeeps DEF index_wb_inval
    <2>4. CASE \E l \in Lines, p \in Offsets : \E v \in Val : DmaWrite(l, p, v)
      BY <2>4, DmaKeeps
    <2>5. CASE \E l \in Lines, p \in Offsets : UncachedLoad(l, p) \/ \E v \in Val : UncachedStore(l, p, v)
      BY <2>5, KeptElsewhere DEF UncachedLoad, UncachedStore
    <2> QED BY <2>1, <2>2, <2>3, <2>4, <2>5 DEF Next, CpuNext, OtherNext
  <1> QED BY <1>1, Inductive, PTL DEF Spec, StoresKept, KeptAt

-----------------------------------------------------------------------------
(* The CPU sees its own stores *)

SeenAt(a, o) ==
  \/ CpuView(a)'[o] = CpuView(a)[o] \/ <<a, o>> \in behind
  \/ \E l \in Lines : Alias[l] = a /\ cstore(l, o, CpuView(a)'[o])

\* A cached access changes at most the byte it stores, and a load returns what
\* is there.
LEMMA CachedSeen ==
  ASSUME SpecInv, NEW l \in Lines, NEW p \in Offsets,
         cload(l, p) \/ \E v \in Val : cstore(l, p, v)
  PROVE  \A a \in Dram, o \in Offsets : SeenAt(a, o)
  <1> SUFFICES ASSUME NEW a \in Dram, NEW o \in Offsets
               PROVE  SeenAt(a, o)
    OBVIOUS
  <1> DEFINE s == SetOf[l]
             b == Alias[l]
  <1>1. s \in Sets /\ b \in Dram /\ SetOf[b] = s /\ fill(l) \in CLine /\ fill(l).valid /\ fill(l).line = l
    BY Geometry, FillOK DEF SpecInv
  <1>2. PICK n : /\ l1' = [l1 EXCEPT ![s] = n] /\ dram' = FillDram(l)
                 /\ n.valid /\ n.line = l
                 /\ \/ n.data[o] = fill(l).data[o]
                    \/ p = o /\ cstore(l, o, n.data[o])
    <2>1. CASE cload(l, p)
      BY <1>1, <2>1 DEF cload
    <2>2. CASE \E v \in Val : cstore(l, p, v)
      <3>1. PICK v \in Val : cstore(l, p, v)
        BY <2>2
      <3> DEFINE m == [fill(l) EXCEPT !.data[p] = v, !.dirty = TRUE]
      <3>2. m.line = l /\ m.valid /\ m.data = [fill(l).data EXCEPT ![p] = v]
        BY <1>1 DEF CLine
      <3>3. m.data[o] = IF p = o THEN v ELSE fill(l).data[o]
        BY <1>1, <3>2 DEF CLine, Data
      <3>4. l1' = [l1 EXCEPT ![s] = m] /\ dram' = FillDram(l)
        BY <3>1 DEF cstore
      <3> HIDE DEF m
      <3> QED BY <3>1, <3>2, <3>3, <3>4
    <2> QED BY <2>1, <2>2
  <1>3. dram' = WrittenBack(s) \/ dram' = dram
    BY <1>2, FillCases
  <1>4. l1'[s] = n /\ (SetOf[a] # s => CpuView(a)' = CpuView(a))
    BY <1>1, <1>2, <1>3, OtherSets
  <1>5. CASE SetOf[a] = s /\ a = b
    <2>1. CpuView(a)' = n.data
      BY <1>1, <1>2, <1>4, <1>5 DEF CpuView
    <2>2. fill(l).data[o] = CpuView(a)[o] \/ <<a, o>> \in behind
      <3>1. CASE resident(l)
        BY <1>1, <1>5, <3>1, FillCases DEF CpuView, resident
      <3>2. CASE ~resident(l)
        BY <1>1, <1>5, <3>2, FillCases, WrittenBackSeen
      <3> QED BY <3>1, <3>2
    <2> QED BY <1>2, <1>5, <2>1, <2>2 DEF SeenAt
  <1>6. CASE SetOf[a] = s /\ a # b
    <2>1. CpuView(a)' = dram'[a]
      BY <1>1, <1>2, <1>4, <1>6 DEF CpuView
    <2>2. CASE resident(l)
      <3>1. dram' = dram
        BY <1>2, <2>2, FillCases
      <3>2. CpuView(a) = dram[a]
        BY <1>6, <2>2 DEF CpuView, resident
      <3> QED BY <2>1, <3>1, <3>2 DEF SeenAt
    <2>3. CASE ~resident(l)
      <3>1. dram' = WrittenBack(s)
        BY <1>2, <2>3, FillCases
      <3> QED BY <1>6, <2>1, <3>1, WrittenBackSeen DEF SeenAt
    <2> QED BY <2>2, <2>3
  <1>7. CASE SetOf[a] # s
    BY <1>4, <1>7 DEF SeenAt
  <1> QED BY <1>5, <1>6, <1>7

\* The CACHE operations that write back change nothing the CPU sees.
LEMMA WriteBackSeen ==
  ASSUME SpecInv, NEW s \in Sets, l1[s].valid, dram' = WrittenBack(s),
         \/ l1' = Cleaned(s)
         \/ l1' = [l1 EXCEPT ![s].valid = FALSE, ![s].dirty = FALSE]
  PROVE  \A a \in Dram, o \in Offsets : SeenAt(a, o)
  <1> SUFFICES ASSUME NEW a \in Dram, NEW o \in Offsets
               PROVE  SeenAt(a, o)
    OBVIOUS
  <1>1. l1 \in [Sets -> CLine] /\ dram \in [Dram -> Data]
    BY DEF SpecInv, OK
  <1>2. PICK w \in BOOLEAN : l1' = [l1 EXCEPT ![s] = [l1[s] EXCEPT !.valid = w, !.dirty = FALSE]]
    <2>1. CASE l1' = Cleaned(s)
      <3>1. [l1[s] EXCEPT !.dirty = FALSE] = [l1[s] EXCEPT !.valid = TRUE, !.dirty = FALSE]
        <4>1. l1[s] \in CLine /\ l1[s].valid = TRUE
          BY <1>1 DEF CLine
        <4> QED BY <4>1 DEF CLine
      <3>2. l1' = [l1 EXCEPT ![s] = [l1[s] EXCEPT !.dirty = FALSE]]
        BY <2>1, <1>1 DEF Cleaned
      <3> QED BY <3>1, <3>2
    <2>2. CASE l1' = [l1 EXCEPT ![s].valid = FALSE, ![s].dirty = FALSE]
      BY <1>1, <2>2
    <2> QED BY <2>1, <2>2
  <1> DEFINE n == [l1[s] EXCEPT !.valid = w, !.dirty = FALSE]
  <1>3. n.valid = w /\ n.line = l1[s].line /\ n.data = l1[s].data
    BY <1>1 DEF CLine
  <1> HIDE DEF n
  <1>4. l1'[s] = n /\ (SetOf[a] # s => CpuView(a)' = CpuView(a))
    BY <1>2, OtherSets DEF n
  <1>5. CASE SetOf[a] # s
    BY <1>4, <1>5 DEF SeenAt
  <1>6. CASE SetOf[a] = s /\ w /\ Alias[l1[s].line] = a
    BY <1>3, <1>4, <1>6 DEF SeenAt, CpuView
  <1>7. CASE SetOf[a] = s /\ ~(w /\ Alias[l1[s].line] = a)
    <2>1. CpuView(a)' = WrittenBack(s)[a]
      BY <1>3, <1>4, <1>7 DEF CpuView
    <2> QED BY <1>7, <2>1, WrittenBackSeen DEF SeenAt
  <1> QED BY <1>5, <1>6, <1>7

\* A load returns what the CPU sees at its address.
LEMMA LoadSeen ==
  ASSUME SpecInv, NEW l \in Lines, NEW o \in Offsets, cload(l, o)
  PROVE  out' = CpuView(Alias[l])[o] \/ <<Alias[l], o>> \in behind
  <1>1. Alias[l] \in Dram /\ SetOf[Alias[l]] = SetOf[l] /\ out' = fill(l).data[o]
    BY Geometry DEF cload
  <1>2. CASE resident(l)
    BY <1>1, <1>2, FillCases DEF CpuView, resident
  <1>3. CASE ~resident(l)
    BY <1>1, <1>3, FillCases, WrittenBackSeen
  <1> QED BY <1>2, <1>3

\* With devices about, the CPU stays coherent with itself: its steps change only
\* the byte they store, and its loads return what is there.
THEOREM CpuIsCoherent == Spec => CpuCoherent
  <1> DEFINE P == /\ \A a \in Dram, o \in Offsets :
                       \/ CpuView(a)'[o] = CpuView(a)[o] \/ <<a, o>> \in behind \/ ~CpuNext
                       \/ \E l \in Lines : Alias[l] = a /\ cstore(l, o, CpuView(a)'[o])
                  /\ \A l \in Lines, o \in Offsets :
                       \/ out' = CpuView(Alias[l])[o] \/ <<Alias[l], o>> \in behind \/ ~cload(l, o)
  <1>1. SpecInv /\ [Next]_vars => [P]_vars
    <2> SUFFICES ASSUME SpecInv PROVE P
      OBVIOUS
    <2>1. ASSUME CpuNext, NEW a \in Dram, NEW o \in Offsets PROVE SeenAt(a, o)
      <3>1. CASE \E l \in Lines, p \in Offsets : cload(l, p) \/ \E v \in Val : cstore(l, p, v)
        BY <3>1, CachedSeen
      <3>2. CASE \E l \in Lines : hit_wb(l) \/ hit_wb_inval(l)
        <4>1. PICK l \in Lines : hit_wb(l) \/ hit_wb_inval(l)
          BY <3>2
        <4>2. SetOf[l] \in Sets /\ l1[SetOf[l]].valid
          BY <4>1, Geometry DEF hit_wb, hit_wb_inval, resident
        <4> QED BY <4>1, <4>2, WriteBackSeen DEF hit_wb, hit_wb_inval, WbInval
      <3>3. CASE \E s \in Sets : index_wb_inval(s)
        BY <3>3, WriteBackSeen DEF index_wb_inval, WbInval
      <3> QED BY <2>1, <3>1, <3>2, <3>3 DEF CpuNext
    <2> QED BY <2>1, LoadSeen DEF SeenAt
  <1> QED BY <1>1, Inductive, PTL DEF Spec, CpuCoherent

-----------------------------------------------------------------------------
\* After a coherent DMA write the CPU sees the byte the device wrote, unless the
\* line is cached under its other name.
THEOREM DmaIsSeen == Spec => DmaSeen
  <1> DEFINE P == \A l \in Lines, o \in Offsets :
                    LET c == l1[SetOf[l]] IN
                    \/ CpuView(Alias[l])'[o] = dram'[Alias[l]][o]
                    \/ ~CoherentDma \/ ~\E v \in Val : DmaWrite(l, o, v)
                    \/ ~SpecDma /\ c.valid /\ Alias[c.line] = Alias[l] /\ c.line # l
  <1>1. SpecInv /\ [Next]_vars => [P]_vars
    <2> SUFFICES ASSUME SpecInv, NEW l \in Lines, NEW o \in Offsets, NEW v \in Val,
                        CoherentDma, DmaWrite(l, o, v),
                        ~(/\ ~SpecDma /\ l1[SetOf[l]].valid
                          /\ Alias[l1[SetOf[l]].line] = Alias[l] /\ l1[SetOf[l]].line # l)
                 PROVE  CpuView(Alias[l])' = dram'[Alias[l]]
      OBVIOUS
    <2> DEFINE s == SetOf[l]
               c == IF SpecDma THEN [l1 EXCEPT ![s] = fill(l)] ELSE l1
               hit == c[s].valid /\ c[s].line = l
    <2>1. s \in Sets /\ Alias[l] \in Dram /\ SetOf[Alias[l]] = s
      BY Geometry
    <2>2. l1' = IF hit THEN [c EXCEPT ![s].valid = FALSE] ELSE c
      BY DEF DmaWrite
    <2>3. c \in [Sets -> CLine]
      BY FillOK DEF SpecInv, OK
    <2>4. SpecDma => hit
      BY <2>1, FillOK DEF SpecInv, OK
    <2>5. CASE hit
      <3> HIDE DEF c
      <3>1. ~l1'[s].valid
        BY <2>1, <2>2, <2>3, <2>5 DEF CLine
      <3> QED BY <2>1, <3>1 DEF CpuView
    <2>6. CASE ~hit
      <3>1. l1' = l1 /\ ~(l1[s].valid /\ Alias[l1[s].line] = Alias[l])
        BY <2>2, <2>4, <2>6
      <3> QED BY <2>1, <3>1 DEF CpuView
    <2> QED BY <2>5, <2>6
  <1> QED BY <1>1, Inductive, PTL DEF Spec, DmaSeen
=============================================================================
