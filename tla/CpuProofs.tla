------------------------------ MODULE CpuProofs ------------------------------
(***************************************************************************)
(* Proofs about Cpu: exceptions are precise and invisible to the program   *)
(* they interrupt, for every program and every placement of handlers that  *)
(* meets the assumptions of Cpu, and a load-linked reservation that        *)
(* survives to the program is unbroken.                                    *)
(***************************************************************************)
EXTENDS Cpu, TLAPS

\* Handlers run exactly while EXL is set, EPC names program code, and a delay
\* slot is the one of the branch recorded in br.
ModeInv ==
  /\ epc \in User
  /\ sr.exl <=> pc \notin User
  /\ sr.exl => ~sr.erl

SlotInv ==
  at = "slot" =>
    /\ Before(pc) \in Pc /\ After[Before(pc)] = pc
    /\ Code[Before(pc)].k \in Branches
    /\ Code[Before(pc)].k = "likely" => br.taken
    /\ br.target = Code[Before(pc)].t
    /\ br.exl = sr.exl

IInv == TypeOK /\ ModeInv /\ SlotInv /\ ReservationHolds

-----------------------------------------------------------------------------
\* The address before the address after p is p.
LEMMA BeforeAfter == ASSUME NEW p \in Pc PROVE Before(After[p]) = p /\ After[p] \in Pc
<1>1. After \in [Pc -> Pc] /\ \A u, v \in Pc : After[u] = After[v] => u = v
  BY CodeAssumption
<1>2. \E q \in Pc : After[q] = After[p]
  OBVIOUS
<1>3. Before(After[p]) \in Pc /\ After[Before(After[p])] = After[p]
  BY <1>2 DEF Before
<1> QED
  BY <1>1, <1>3

\* What the type invariant says of each variable.
LEMMA TypeFacts ==
  ASSUME TypeOK
  PROVE  /\ pc \in Pc /\ sr \in Sr /\ epc \in Pc /\ bd \in BOOLEAN
         /\ sr.exl \in BOOLEAN /\ sr.erl \in BOOLEAN
         /\ br \in [taken : BOOLEAN, target : Pc, exl : BOOLEAN]
         /\ Code[pc] \in Insn /\ After[pc] \in Pc /\ After[After[pc]] \in Pc
         /\ Excepted \in Sr /\ Excepted.exl = TRUE /\ Excepted.erl = FALSE
BY CodeAssumption DEF TypeOK, Sr, Excepted

\* Every vector is handler code.
LEMMA VectorFacts ==
  ASSUME TypeOK, NEW e
  PROVE  exc_vector(e) \in Pc \ User
<1>1. sr.bev \in BOOLEAN
  BY DEF TypeOK, Sr
<1>2. (IF e \in {"refill", "xtlb"} /\ ~sr.exl THEN e ELSE "general") \in {"refill", "xtlb", "general"}
  OBVIOUS
<1> QED
  BY <1>1, <1>2, VectorAssumption DEF exc_vector

\* The invariant holds at start-up.
LEMMA InitInv == Init => IInv
<1> SUFFICES ASSUME Init PROVE IInv
  OBVIOUS
<1>1. Entry \in User /\ User \subseteq Pc /\ Entry \in Pc
  BY VectorAssumption
<1>2. 0 \in 0 .. Modulus - 1 /\ 0 \in 0 .. INT_POLL - 1
  BY CountAssumption
<1>3. TypeOK
  BY <1>1, <1>2 DEF Init, TypeOK, Sr
<1> QED
  BY <1>1, <1>3 DEF Init, IInv, ModeInv, SlotInv, ReservationHolds

\* Raising an exception, in the instruction or in its delay slot.
LEMMA RaiseInv ==
  ASSUME IInv, NEW armed \in BOOLEAN, Raise(armed)
  PROVE  /\ sr' \in Sr /\ sr'.exl = TRUE /\ sr'.erl = FALSE
         /\ epc' \in User /\ epc' \in Pc /\ bd' \in BOOLEAN
         /\ epc' = NextInsn
         /\ ll_armed' \in BOOLEAN /\ raised' \in BOOLEAN /\ broken' \in BOOLEAN
<1>1. pc \in Pc /\ epc \in Pc /\ epc \in User /\ bd \in BOOLEAN
  BY TypeFacts DEF IInv, ModeInv
<1>2. sr' = Excepted /\ Excepted \in Sr /\ Excepted.exl = TRUE /\ Excepted.erl = FALSE
  BY TypeFacts DEF IInv, Raise
<1>3. CASE sr.exl
  BY <1>1, <1>2, <1>3 DEF Raise, set_exc_pc, excVars, NextInsn
<1>4. CASE ~sr.exl /\ at # "slot"
  BY <1>1, <1>2, <1>4 DEF Raise, set_exc_pc, NextInsn, IInv, ModeInv
<1>5. CASE ~sr.exl /\ at = "slot"
  <2>1. Before(pc) \in Pc /\ After[Before(pc)] = pc /\ pc \in User
    BY <1>5 DEF IInv, SlotInv, ModeInv
  <2>2. Code[Before(pc)].k # "eret"
    BY <1>5 DEF IInv, SlotInv, Branches
  <2>3. Before(pc) \in User
    BY <2>1, <2>2, FlowAssumption
  <2> QED
    BY <1>1, <1>2, <1>5, <2>1, <2>3 DEF Raise, set_exc_pc, NextInsn
<1> QED
  BY <1>3, <1>4, <1>5

-----------------------------------------------------------------------------
\* Where an instruction that neither faults nor returns leaves pc: in the code
\* it was in.
LEMMA LandInv ==
  ASSUME IInv, Runs, Insn0.k \notin Branches \cup {"eret"}, Land(After[pc]),
         sr'.exl = sr.exl
  PROVE  /\ pc' \in Pc /\ at' = "poll" /\ (pc' \in User <=> pc \in User)
         /\ at # "slot" => pc' = After[pc]
         /\ at = "slot" => pc' = IF br.taken THEN Code[Before(pc)].t ELSE After[pc]
<1>1. pc \in Pc /\ After[pc] \in Pc /\ sr.exl \in BOOLEAN
  BY TypeFacts DEF IInv
<1>2. at' = "poll"
  BY DEF Land
<1>3. After[pc] \in User <=> pc \in User
  BY <1>1, FlowAssumption DEF Insn0
<1>4. CASE at = "slot"
  <2>1. /\ Before(pc) \in Pc /\ After[Before(pc)] = pc
        /\ Code[Before(pc)].k \in Branches /\ Code[Before(pc)].k # "eret"
        /\ br.target = Code[Before(pc)].t /\ br.exl = sr.exl
    BY <1>4 DEF IInv, SlotInv, Branches
  <2>2. /\ Code[Before(pc)].t \in Pc
        /\ Code[Before(pc)].t \in User <=> Before(pc) \in User
        /\ Before(pc) \in User <=> pc \in User
    BY <2>1, FlowAssumption
  <2>3. pc' = IF br.taken THEN Code[Before(pc)].t ELSE After[pc]
    BY <1>4, <2>1 DEF Land, ds_faulted
  <2> QED
    BY <1>1, <1>2, <1>3, <1>4, <2>2, <2>3
<1>5. CASE at # "slot"
  BY <1>1, <1>2, <1>3, <1>5 DEF Land
<1> QED
  BY <1>4, <1>5

\* An instruction that neither faults, branches nor returns keeps the mode and,
\* outside handlers, is a step of the sequential program.
LEMMA OrdinaryInv ==
  ASSUME IInv, Runs, Insn0.k \notin Branches \cup {"eret"}, Land(After[pc]),
         sr' \in Sr, sr'.exl = sr.exl, sr'.exl => ~sr'.erl, epc' = epc
  PROVE  pc' \in Pc /\ at' \in {"poll", "exec", "slot"} /\ ModeInv' /\ SlotInv'
<1>1. pc' \in Pc /\ at' = "poll" /\ (pc' \in User <=> pc \in User)
  BY LandInv
<1>2. ModeInv
  BY DEF IInv
<1> QED
  BY <1>1, <1>2 DEF ModeInv, SlotInv

\* In a handler it is no step of the program; outside, it is that instruction.
LEMMA OrdinaryStep ==
  ASSUME IInv, Runs, Insn0.k \notin Branches \cup {"eret"}, Land(After[pc]),
         sr'.exl = sr.exl, epc' = epc,
         TakesEffect \/ (Insn0.k = "sc" /\ effect' = effect)
  PROVE  [Seq!Next]_<<NextInsn, effect>>
<1>1. /\ pc' \in Pc /\ at' = "poll" /\ (pc' \in User <=> pc \in User)
      /\ at # "slot" => pc' = After[pc]
      /\ at = "slot" => pc' = IF br.taken THEN Code[Before(pc)].t ELSE After[pc]
  BY LandInv
<1>2. sr.exl <=> pc \notin User
  BY DEF IInv, ModeInv
<1>3. CASE sr.exl
  <2>1. pc \notin Effects
    BY <1>2, <1>3, VectorAssumption
  <2>2. effect' = effect
    BY <2>1 DEF TakesEffect
  <2>3. NextInsn' = NextInsn
    BY <1>3 DEF NextInsn
  <2> QED
    BY <2>2, <2>3
<1>4. CASE ~sr.exl /\ at # "slot"
  <2>1. NextInsn = pc /\ NextInsn' = After[pc]
    BY <1>1, <1>4 DEF NextInsn
  <2>2. Seq!Plain
    BY <2>1 DEF Seq!Plain, Seq!Toggled, TakesEffect, Insn0, Branches
  <2> QED
    BY <2>2 DEF Seq!Next
<1>5. CASE ~sr.exl /\ at = "slot"
  <2>1. /\ After[Before(pc)] = pc /\ Code[Before(pc)].k \in Branches
        /\ Code[Before(pc)].k = "likely" => br.taken
    BY <1>5 DEF IInv, SlotInv
  <2>2. NextInsn = Before(pc) /\ NextInsn' = IF br.taken THEN Code[Before(pc)].t ELSE After[pc]
    BY <1>1, <1>5 DEF NextInsn
  <2>3. Seq!Branch
    BY <2>1, <2>2 DEF Seq!Branch, Seq!Toggled, TakesEffect, Insn0, Branches
  <2> QED
    BY <2>3 DEF Seq!Next
<1> QED
  BY <1>3, <1>4, <1>5

\* An instruction that raises an exception enters a handler (or stays in one) and
\* leaves the sequential program where it was.
LEMMA FaultInv ==
  ASSUME IInv, Runs, NEW e, NEW armed \in BOOLEAN, Raise(armed), Land(exc_vector(e)),
         br' = br
  PROVE  pc' \in Pc /\ at' \in {"poll", "exec", "slot"} /\ ModeInv' /\ SlotInv' /\ NextInsn' = NextInsn
<1>1. /\ sr' \in Sr /\ sr'.exl = TRUE /\ sr'.erl = FALSE
      /\ epc' \in User /\ epc' = NextInsn
  BY RaiseInv
<1>2. exc_vector(e) \in Pc \ User /\ sr.exl \in BOOLEAN
  BY VectorFacts, TypeFacts DEF IInv
<1>3. at' = "poll"
  BY DEF Land
<1>4. pc' \in Pc \ User
  <2>1. CASE at = "slot" /\ sr.exl
    <3>1. /\ Before(pc) \in Pc /\ After[Before(pc)] = pc
          /\ Code[Before(pc)].k \in Branches /\ Code[Before(pc)].k # "eret"
          /\ br.target = Code[Before(pc)].t /\ br.exl = sr.exl
      BY <2>1 DEF IInv, SlotInv, Branches
    <3>2. pc \notin User
      BY <2>1 DEF IInv, ModeInv
    <3>3. br.target \in Pc \ User
      BY <3>1, <3>2, FlowAssumption
    <3> QED
      BY <1>2, <3>3 DEF Land
  <2>2. CASE at = "slot" /\ ~sr.exl
    <3>1. br.exl = FALSE
      BY <1>2, <2>2 DEF IInv, SlotInv
    <3>2. ds_faulted
      BY <1>1, <3>1 DEF ds_faulted
    <3> QED
      BY <1>2, <3>2 DEF Land
  <2>3. CASE at # "slot"
    BY <1>2, <2>3 DEF Land
  <2> QED
    BY <2>1, <2>2, <2>3
<1>5. NextInsn' = NextInsn
  BY <1>1 DEF NextInsn
<1> QED
  BY <1>1, <1>3, <1>4, <1>5 DEF ModeInv, SlotInv

-----------------------------------------------------------------------------
\* The counters stay within their range.
LEMMA Ticks ==
  /\ \A n \in 0 .. Modulus - 1 : (n + 1) % Modulus \in 0 .. Modulus - 1
  /\ \A n \in 0 .. INT_POLL - 1 : (n + 1) % INT_POLL \in 0 .. INT_POLL - 1
BY CountAssumption

\* The rest of the type invariant is kept by every action.
OtherTypes ==
  /\ ip \subseteq Devices \cup {TIMER} /\ ll_armed \in BOOLEAN
  /\ count \in 0 .. Modulus - 1 /\ compare \in 0 .. Modulus - 1 /\ icnt \in 0 .. INT_POLL - 1
  /\ irq_poke \in BOOLEAN /\ lines \subseteq Devices
  /\ effect \in [Effects -> BOOLEAN] /\ raised \in BOOLEAN /\ broken \in BOOLEAN

\* The type invariant in two parts.
LEMMA TypeSplit ==
  TypeOK <=> /\ OtherTypes
             /\ pc \in Pc /\ sr \in Sr /\ epc \in Pc /\ bd \in BOOLEAN
             /\ at \in {"poll", "exec", "slot"}
             /\ br \in [taken : BOOLEAN, target : Pc, exl : BOOLEAN]
BY DEF TypeOK, OtherTypes

\* Taking effect keeps the effects well-typed.
LEMMA EffectType ==
  ASSUME effect \in [Effects -> BOOLEAN], TakesEffect
  PROVE  effect' \in [Effects -> BOOLEAN]
BY DEF TakesEffect

\* What a step must establish.
Kept == IInv' /\ [Seq!Next]_<<NextInsn, effect>>

\* A fault on the instruction fetch.
LEMMA FetchFaultStep == ASSUME IInv, NEW e \in Exc, FetchFault(e) PROVE Kept
<1>1. Runs /\ Raise(Reserved(e)) /\ Land(exc_vector(e)) /\ br' = br /\ effect' = effect
  BY DEF FetchFault
<1>2. OtherTypes /\ br \in [taken : BOOLEAN, target : Pc, exl : BOOLEAN]
  BY TypeSplit DEF IInv
<1>3. Reserved(e) \in BOOLEAN
  BY <1>2 DEF Reserved, OtherTypes
<1>4. pc' \in Pc /\ at' \in {"poll", "exec", "slot"} /\ ModeInv' /\ SlotInv' /\ NextInsn' = NextInsn
  BY <1>1, <1>3, FaultInv
<1>5. /\ sr' \in Sr /\ sr'.exl = TRUE /\ epc' \in Pc /\ bd' \in BOOLEAN
      /\ ll_armed' \in BOOLEAN /\ raised' \in BOOLEAN /\ broken' \in BOOLEAN
  BY <1>1, <1>3, RaiseInv
<1>6. OtherTypes'
  BY <1>2, <1>5 DEF OtherTypes, FetchFault, timerVars, envVars
<1>7. TypeOK'
  BY <1>1, <1>2, <1>4, <1>5, <1>6 DEF TypeOK, OtherTypes
<1> QED
  BY <1>1, <1>4, <1>5, <1>7 DEF Kept, IInv, ReservationHolds

\* A fault in the instruction.
LEMMA FaultStep == ASSUME IInv, NEW e \in Exc, Fault(e) PROVE Kept
<1> DEFINE armed == (Insn0.k = "ll" /\ e = "common") \/ (Insn0.k # "sc" /\ Reserved(e))
<1>1. Runs /\ Raise(armed) /\ Land(exc_vector(e)) /\ br' = br /\ effect' = effect
  BY DEF Fault
<1>2. OtherTypes /\ br \in [taken : BOOLEAN, target : Pc, exl : BOOLEAN]
  BY TypeSplit DEF IInv
<1>3. armed \in BOOLEAN
  BY DEF Reserved
<1> HIDE DEF armed
<1>4. pc' \in Pc /\ at' \in {"poll", "exec", "slot"} /\ ModeInv' /\ SlotInv' /\ NextInsn' = NextInsn
  BY <1>1, <1>3, FaultInv
<1>5. /\ sr' \in Sr /\ sr'.exl = TRUE /\ epc' \in Pc /\ bd' \in BOOLEAN
      /\ ll_armed' \in BOOLEAN /\ raised' \in BOOLEAN /\ broken' \in BOOLEAN
  BY <1>1, <1>3, RaiseInv
<1>6. icnt' \in 0 .. INT_POLL - 1
  BY <1>2, Ticks DEF OtherTypes, Fault, Retired
<1>7. OtherTypes'
  BY <1>2, <1>5, <1>6 DEF OtherTypes, Fault, timerVars, envVars
<1>8. TypeOK'
  BY <1>1, <1>2, <1>4, <1>5, <1>7 DEF TypeOK, OtherTypes
<1> QED
  BY <1>1, <1>4, <1>5, <1>8 DEF Kept, IInv, ReservationHolds

\* Op, LL and SC.
LEMMA MemoryStep == ASSUME IInv, Op \/ LL \/ SC PROVE Kept
<1>1. /\ Runs /\ Insn0.k \in {"op", "ll", "sc"} /\ Land(After[pc]) /\ Retired
      /\ UNCHANGED <<sr, epc, bd, br, count, compare, ip, irq_poke, lines>>
      /\ TakesEffect \/ (Insn0.k = "sc" /\ effect' = effect)
      /\ raised' = FALSE
      /\ ll_armed' \in {ll_armed, TRUE, FALSE} /\ broken' \in {broken, FALSE}
      /\ ll_armed' = FALSE \/ broken' = FALSE \/ (ll_armed' = ll_armed /\ broken' = broken)
  <2>1. CASE Op
    BY <2>1 DEF Op, excVars, timerVars, envVars
  <2>2. CASE LL
    BY <2>2 DEF LL, excVars, timerVars, envVars
  <2>3. CASE SC
    BY <2>3 DEF SC, excVars, timerVars, envVars
  <2> QED
    BY <2>1, <2>2, <2>3
<1>2. Insn0.k \notin Branches \cup {"eret"}
  BY <1>1 DEF Branches
<1>3. /\ OtherTypes /\ br \in [taken : BOOLEAN, target : Pc, exl : BOOLEAN]
      /\ sr \in Sr /\ epc \in Pc /\ bd \in BOOLEAN /\ (sr.exl => ~sr.erl)
  BY TypeSplit DEF IInv, ModeInv
<1>4. pc' \in Pc /\ at' \in {"poll", "exec", "slot"} /\ ModeInv' /\ SlotInv'
  BY <1>1, <1>2, <1>3, OrdinaryInv
<1>5. [Seq!Next]_<<NextInsn, effect>>
  BY <1>1, <1>2, OrdinaryStep
<1>6. icnt' \in 0 .. INT_POLL - 1
  BY <1>1, <1>3, Ticks DEF OtherTypes, Retired
<1>7. effect' \in [Effects -> BOOLEAN]
  BY <1>1, <1>3, EffectType DEF OtherTypes
<1>8. TypeOK'
  BY <1>1, <1>3, <1>4, <1>6, <1>7 DEF TypeOK, OtherTypes
<1>9. ReservationHolds'
  BY <1>1 DEF IInv, ReservationHolds
<1> QED
  BY <1>4, <1>5, <1>8, <1>9 DEF Kept, IInv

\* A write of Status keeps EXL, by the assumption on programs.
LEMMA MtSrStep == ASSUME IInv, MtSr PROVE Kept
<1>1. /\ Runs /\ Insn0.k = "mtsr" /\ Land(After[pc]) /\ Retired /\ sr' = Insn0.sr
      /\ UNCHANGED <<epc, bd, br, count, compare, ip, irq_poke, lines, ll_armed, broken>>
      /\ TakesEffect /\ raised' = FALSE
  BY DEF MtSr, excVars, timerVars, envVars
<1>2. Insn0.k \notin Branches \cup {"eret"}
  BY <1>1 DEF Branches
<1>3. /\ OtherTypes /\ br \in [taken : BOOLEAN, target : Pc, exl : BOOLEAN]
      /\ pc \in Pc /\ sr \in Sr /\ epc \in Pc /\ bd \in BOOLEAN
      /\ sr.exl \in BOOLEAN /\ (sr.exl <=> pc \notin User)
  BY TypeSplit, TypeFacts DEF IInv, ModeInv
<1>4. Insn0.sr \in Sr /\ Insn0.sr.exl \in BOOLEAN
  BY <1>3, CodeAssumption DEF Insn0, Insn, Sr
<1>5. sr' \in Sr /\ sr'.exl = sr.exl /\ (sr'.exl => ~sr'.erl)
  BY <1>1, <1>3, <1>4, ModeAssumption DEF Insn0
<1>6. pc' \in Pc /\ at' \in {"poll", "exec", "slot"} /\ ModeInv' /\ SlotInv'
  BY <1>1, <1>2, <1>5, OrdinaryInv
<1>7. [Seq!Next]_<<NextInsn, effect>>
  BY <1>1, <1>2, <1>5, OrdinaryStep
<1>8. icnt' \in 0 .. INT_POLL - 1
  BY <1>1, <1>3, Ticks DEF OtherTypes, Retired
<1>9. effect' \in [Effects -> BOOLEAN]
  BY <1>1, <1>3, EffectType DEF OtherTypes
<1>10. TypeOK'
  BY <1>1, <1>3, <1>5, <1>6, <1>8, <1>9 DEF TypeOK, OtherTypes
<1>11. ReservationHolds'
  BY <1>1, <1>5 DEF IInv, ReservationHolds
<1> QED
  BY <1>6, <1>7, <1>10, <1>11 DEF Kept, IInv

\* A write of Compare.
LEMMA MtCompareStep == ASSUME IInv, MtCompare PROVE Kept
<1>1. /\ Runs /\ Insn0.k = "mtcompare" /\ Land(After[pc]) /\ Retired
      /\ compare' = Insn0.t /\ ip' = ip \ {TIMER}
      /\ UNCHANGED <<sr, epc, bd, br, count, irq_poke, lines, ll_armed, broken>>
      /\ TakesEffect /\ raised' = FALSE
  BY DEF MtCompare, excVars, envVars
<1>2. Insn0.k \notin Branches \cup {"eret"}
  BY <1>1 DEF Branches
<1>3. /\ OtherTypes /\ br \in [taken : BOOLEAN, target : Pc, exl : BOOLEAN]
      /\ pc \in Pc /\ sr \in Sr /\ epc \in Pc /\ bd \in BOOLEAN /\ (sr.exl => ~sr.erl)
  BY TypeSplit DEF IInv, ModeInv
<1>4. Insn0.t \in Nat /\ Insn0.t < Modulus
  BY <1>1, <1>3, CodeAssumption, ModeAssumption DEF Insn0, Insn
<1>5. compare' \in 0 .. Modulus - 1
  BY <1>1, <1>4, CountAssumption
<1>6. pc' \in Pc /\ at' \in {"poll", "exec", "slot"} /\ ModeInv' /\ SlotInv'
  BY <1>1, <1>2, <1>3, OrdinaryInv
<1>7. [Seq!Next]_<<NextInsn, effect>>
  BY <1>1, <1>2, OrdinaryStep
<1>8. icnt' \in 0 .. INT_POLL - 1
  BY <1>1, <1>3, Ticks DEF OtherTypes, Retired
<1>9. effect' \in [Effects -> BOOLEAN]
  BY <1>1, <1>3, EffectType DEF OtherTypes
<1>10. TypeOK'
  BY <1>1, <1>3, <1>5, <1>6, <1>8, <1>9 DEF TypeOK, OtherTypes
<1>11. ReservationHolds'
  BY <1>1 DEF IInv, ReservationHolds
<1> QED
  BY <1>6, <1>7, <1>10, <1>11 DEF Kept, IInv

\* ERET resumes the program at EPC: it runs in a handler, so EXL is set and ERL
\* clear, and it is in no delay slot.
LEMMA EretStep == ASSUME IInv, ERET PROVE Kept
<1>1. /\ OtherTypes /\ br \in [taken : BOOLEAN, target : Pc, exl : BOOLEAN]
      /\ pc \in Pc /\ sr \in Sr /\ epc \in Pc /\ bd \in BOOLEAN
      /\ epc \in User /\ (sr.exl <=> pc \notin User) /\ (sr.exl => ~sr.erl)
  BY TypeSplit DEF IInv, ModeInv
<1>2. Insn0.k = "eret" /\ Runs /\ UNCHANGED <<epc, bd, br, effect>>
  BY DEF ERET, excVars
<1>3. sr.exl /\ ~sr.erl
  BY <1>1, <1>2, ModeAssumption DEF Insn0
<1>4. at # "slot"
  <2> SUFFICES ASSUME at = "slot" PROVE FALSE
    OBVIOUS
  <2>1. /\ Before(pc) \in Pc /\ After[Before(pc)] = pc /\ Code[Before(pc)].k \in Branches
    BY DEF IInv, SlotInv
  <2> QED
    BY <1>2, <2>1, FlowAssumption DEF Insn0
<1>5. pc' = epc /\ at' = "poll" /\ sr' = [sr EXCEPT !.exl = FALSE]
  BY <1>3, <1>4 DEF ERET, Land
<1>6. sr' \in Sr /\ sr'.exl = FALSE
  BY <1>1, <1>5 DEF Sr
<1>7. ModeInv' /\ SlotInv'
  BY <1>1, <1>2, <1>5, <1>6 DEF ModeInv, SlotInv
<1>8. NextInsn' = NextInsn
  BY <1>3, <1>5, <1>6 DEF NextInsn
<1>9. icnt' \in 0 .. INT_POLL - 1
  BY <1>1, Ticks DEF OtherTypes, Retired, ERET
<1>10. TypeOK'
  BY <1>1, <1>2, <1>5, <1>6, <1>9 DEF TypeOK, OtherTypes, ERET, timerVars, envVars
<1>11. ReservationHolds'
  BY DEF ReservationHolds, ERET
<1> QED
  BY <1>2, <1>7, <1>8, <1>10, <1>11 DEF Kept, IInv

\* A branch enters its delay slot, which the program does not see, or annuls it.
LEMMA BranchStep == ASSUME IInv, NEW taken \in BOOLEAN, branch(taken) PROVE Kept
<1>1. /\ OtherTypes /\ br \in [taken : BOOLEAN, target : Pc, exl : BOOLEAN]
      /\ pc \in Pc /\ sr \in Sr /\ sr.exl \in BOOLEAN /\ epc \in Pc /\ bd \in BOOLEAN
      /\ epc \in User /\ (sr.exl <=> pc \notin User) /\ (sr.exl => ~sr.erl)
      /\ After[pc] \in Pc /\ After[After[pc]] \in Pc
  BY TypeSplit, TypeFacts DEF IInv, ModeInv
<1>2. /\ at = "exec" /\ Insn0.k \in Branches /\ Insn0.k # "eret" /\ Retired /\ raised' = FALSE
      /\ UNCHANGED <<sr, epc, bd, ll_armed, count, compare, ip, irq_poke, lines, effect, broken>>
  BY DEF branch, excVars, timerVars, envVars, Branches
<1>3. /\ Insn0.t \in Pc /\ Code[After[pc]].k # "eret"
      /\ After[pc] \in User <=> pc \in User
      /\ After[After[pc]] \in User <=> pc \in User
  BY <1>1, <1>2, FlowAssumption DEF Insn0
<1>4. icnt' \in 0 .. INT_POLL - 1
  BY <1>1, <1>2, Ticks DEF OtherTypes, Retired
<1>5. ReservationHolds'
  BY <1>2 DEF ReservationHolds, IInv
<1>6. CASE /\ taken \/ Insn0.k = "branch"
           /\ br' = [taken |-> taken, target |-> Insn0.t, exl |-> sr.exl]
           /\ pc' = After[pc] /\ at' = "slot"
  <2>1. Before(pc') = pc
    BY <1>1, <1>6, BeforeAfter
  <2>2. br' \in [taken : BOOLEAN, target : Pc, exl : BOOLEAN]
    BY <1>1, <1>3, <1>6
  <2>3. /\ br'.taken = taken /\ br'.target = Insn0.t /\ br'.exl = sr.exl
    BY <1>6
  <2>4. TypeOK'
    BY <1>1, <1>2, <1>4, <1>6, <2>2 DEF TypeOK, OtherTypes
  <2>5. ModeInv'
    BY <1>1, <1>2, <1>3, <1>6 DEF ModeInv
  <2>6. Before(pc)' = pc
    BY <2>1 DEF Before
  <2>7. Insn0.k = "likely" => taken
    BY <1>6
  <2>8. SlotInv'
    BY <1>1, <1>2, <1>6, <2>3, <2>6, <2>7 DEF SlotInv, Insn0
  <2>9. NextInsn' = NextInsn
    BY <1>2, <1>6, <2>6 DEF NextInsn
  <2> QED
    BY <1>2, <1>5, <2>4, <2>5, <2>8, <2>9 DEF Kept, IInv
<1>7. CASE /\ ~taken /\ Insn0.k = "likely"
           /\ pc' = After[After[pc]] /\ at' = "poll" /\ br' = br
  <2>1. TypeOK'
    BY <1>1, <1>2, <1>4, <1>7 DEF TypeOK, OtherTypes
  <2>2. ModeInv' /\ SlotInv'
    BY <1>1, <1>2, <1>3, <1>7 DEF ModeInv, SlotInv
  <2>3. CASE sr.exl
    BY <1>2, <1>5, <2>1, <2>2, <2>3 DEF Kept, IInv, NextInsn
  <2>4. CASE ~sr.exl
    <3>1. NextInsn = pc /\ NextInsn' = After[After[pc]]
      BY <1>2, <1>7, <2>4 DEF NextInsn
    <3>2. Seq!Annul
      BY <1>2, <1>7, <3>1 DEF Seq!Annul, Insn0
    <3> QED
      BY <1>5, <2>1, <2>2, <3>2 DEF Kept, IInv, Seq!Next
  <2> QED
    BY <2>3, <2>4
<1> QED
  BY <1>6, <1>7 DEF branch

\* An interrupt is taken between instructions: EPC is the instruction not yet run.
LEMMA InterruptStep == ASSUME IInv, maybe_take_interrupt PROVE Kept
<1>1. /\ OtherTypes /\ br \in [taken : BOOLEAN, target : Pc, exl : BOOLEAN]
      /\ pc \in Pc /\ sr \in Sr /\ epc \in Pc /\ bd \in BOOLEAN
  BY TypeSplit DEF IInv
<1>2. at = "poll" /\ at' = "exec" /\ UNCHANGED <<br, compare, icnt, lines, effect>>
  BY DEF maybe_take_interrupt
<1>3. count' \in 0 .. Modulus - 1
  BY <1>1, Ticks DEF OtherTypes, maybe_take_interrupt
<1>4. ip' \subseteq Devices \cup {TIMER}
  BY <1>1 DEF OtherTypes, maybe_take_interrupt, Ticked, Match, Polled
<1>5. irq_poke' \in BOOLEAN
  BY DEF maybe_take_interrupt
<1>6. CASE Polls /\ Pending(Polled)
  <2>1. Raise(FALSE) /\ pc' = exc_vector("common")
    BY <1>6 DEF maybe_take_interrupt
  <2>2. /\ sr' \in Sr /\ sr'.exl = TRUE /\ sr'.erl = FALSE
        /\ epc' \in User /\ epc' \in Pc /\ bd' \in BOOLEAN /\ epc' = NextInsn
        /\ ll_armed' \in BOOLEAN /\ raised' \in BOOLEAN /\ broken' \in BOOLEAN
    BY <2>1, RaiseInv
  <2>3. pc' \in Pc \ User
    BY <2>1, VectorFacts DEF IInv
  <2>4. TypeOK'
    BY <1>1, <1>2, <1>3, <1>4, <1>5, <2>2, <2>3 DEF TypeOK, OtherTypes
  <2>5. ModeInv' /\ SlotInv' /\ ReservationHolds' /\ NextInsn' = NextInsn
    BY <1>2, <2>2, <2>3 DEF ModeInv, SlotInv, ReservationHolds, NextInsn
  <2> QED
    BY <1>2, <2>4, <2>5 DEF Kept, IInv
<1>7. CASE ~(Polls /\ Pending(Polled))
  <2>1. raised' = FALSE /\ UNCHANGED <<pc, sr, epc, bd, ll_armed, broken>>
    BY <1>7 DEF maybe_take_interrupt, excVars
  <2>2. TypeOK'
    BY <1>1, <1>2, <1>3, <1>4, <1>5, <2>1 DEF TypeOK, OtherTypes
  <2>3. ModeInv' /\ SlotInv' /\ ReservationHolds' /\ NextInsn' = NextInsn
    BY <1>2, <2>1 DEF IInv, ModeInv, SlotInv, ReservationHolds, NextInsn
  <2> QED
    BY <1>2, <2>2, <2>3 DEF Kept, IInv
<1> QED
  BY <1>6, <1>7

\* A device line changes.
LEMMA DeviceStep == ASSUME IInv, NEW l \in Devices, DeviceLine(l) PROVE Kept
<1>1. UNCHANGED <<pc, sr, epc, bd, ll_armed, at, br, count, compare, ip, icnt, effect, raised, broken>>
  BY DEF DeviceLine, excVars, timerVars
<1>2. lines' \subseteq Devices /\ irq_poke' \in BOOLEAN
  BY DEF DeviceLine, IInv, TypeOK
<1>3. TypeOK'
  BY <1>1, <1>2 DEF IInv, TypeOK
<1>4. ModeInv' /\ SlotInv' /\ ReservationHolds' /\ NextInsn' = NextInsn
  BY <1>1 DEF IInv, ModeInv, SlotInv, ReservationHolds, NextInsn, Before
<1> QED
  BY <1>1, <1>3, <1>4 DEF Kept, IInv

\* Every step keeps the invariant and is a step of the program or none.
LEMMA NextKeeps == IInv /\ [Next]_vars => Kept
<1> SUFFICES ASSUME IInv, [Next]_vars PROVE Kept
  OBVIOUS
<1>1. CASE UNCHANGED vars
  <2>1. UNCHANGED <<pc, sr, epc, bd, ll_armed, at, br, count, compare, ip, icnt, irq_poke, lines, effect, raised, broken>>
    BY <1>1 DEF vars, excVars, timerVars, envVars
  <2>2. TypeOK' /\ ModeInv' /\ SlotInv' /\ ReservationHolds' /\ NextInsn' = NextInsn
    BY <2>1 DEF IInv, TypeOK, ModeInv, SlotInv, ReservationHolds, NextInsn, Before
  <2> QED
    BY <2>1, <2>2 DEF Kept, IInv
<1>2. CASE maybe_take_interrupt
  BY <1>2, InterruptStep
<1>3. ASSUME NEW e \in Exc, FetchFault(e) \/ Fault(e) PROVE Kept
  BY <1>3, FetchFaultStep, FaultStep
<1>4. CASE Op \/ LL \/ SC
  BY <1>4, MemoryStep
<1>5. CASE MtSr
  BY <1>5, MtSrStep
<1>6. CASE MtCompare
  BY <1>6, MtCompareStep
<1>7. CASE ERET
  BY <1>7, EretStep
<1>8. ASSUME NEW taken \in BOOLEAN, branch(taken) PROVE Kept
  BY <1>8, BranchStep
<1>9. ASSUME NEW l \in Devices, DeviceLine(l) PROVE Kept
  BY <1>9, DeviceStep
<1> QED
  BY <1>1, <1>2, <1>3, <1>4, <1>5, <1>6, <1>7, <1>8, <1>9 DEF Next, Step, execMips

-----------------------------------------------------------------------------
\* The inductive invariant: the mode bit tells handler from program, and a delay
\* slot belongs to its branch.
THEOREM Inductive == Spec => []IInv
<1>1. IInv /\ [Next]_vars => IInv'
  BY NextKeeps DEF Kept
<1> QED
  BY <1>1, InitInv, PTL DEF Spec

\* Type correctness.
THEOREM TypeCorrect == Spec => []TypeOK
<1>1. IInv => TypeOK
  BY DEF IInv
<1> QED
  BY <1>1, Inductive, PTL

\* A store conditional of the program succeeds only if neither an exception nor
\* an ERET came between it and its load-linked.
THEOREM ReservationSound == Spec => []ReservationHolds
<1>1. IInv => ReservationHolds
  BY DEF IInv
<1> QED
  BY <1>1, Inductive, PTL

\* Precise exceptions, for every program and every placement of its handlers that
\* meets the assumptions: faults in delay slots, nested faults and interrupts
\* neither skip, repeat nor reorder an instruction of the program.
THEOREM PreciseExceptions == Spec => ImplementsSequential
<1>1. Init => Seq!Init
  <2> SUFFICES ASSUME Init PROVE Seq!Init
    OBVIOUS
  <2>1. Entry \in Pc
    BY VectorAssumption
  <2> QED
    BY <2>1 DEF Init, Seq!Init, NextInsn
<1>2. IInv /\ [Next]_vars => [Seq!Next]_<<NextInsn, effect>>
  BY NextKeeps DEF Kept
<1> QED
  BY <1>1, <1>2, Inductive, PTL DEF Spec, ImplementsSequential, Seq!Spec

=============================================================================
