--------------------------------- MODULE Cpu ---------------------------------
(***************************************************************************)
(* The instruction step of the interpreter (main.cc, interpret.cc): the    *)
(* Count/Compare timer and interrupt delivery, then one instruction, a     *)
(* branch with its delay slot; synchronous exceptions, nested ones         *)
(* included, ERET, and the load-linked reservation.                        *)
(*                                                                         *)
(* The guest is a program, Code, by instruction address.  What an          *)
(* instruction computes is left out: an ordinary one is "op", and may      *)
(* raise any of the exceptions its code lists.  User addresses hold what   *)
(* runs outside exception handlers (in whatever privilege mode), the       *)
(* others hold the handlers.                                               *)
(***************************************************************************)
EXTENDS Naturals

CONSTANTS
  Pc,        \* the instruction addresses
  After,     \* the address after each (pc + 4); the last of a stretch of code wraps
  Code,      \* [k: kind, t: branch target or Compare value, may: exceptions, sr]
  User,      \* the addresses of code that runs with EXL clear
  Effects,   \* the addresses whose effect is followed
  Vector,    \* exception vectors: BEV to "refill", "xtlb", "general" to address
  Entry,     \* where the program starts
  ErrorEPC,
  INT_POLL,  \* device poll interval, a power of two
  Modulus,   \* the range of Count and Compare: 2^32 in the code
  Devices,   \* interrupt lines polled from the devices: 2 and 3 in the code
  Pokes      \* those whose device sets irq_poke as it raises the line

TIMER == 7
TlbExc == {"refill", "xtlb", "tlb"}       \* no match; no match, 64-bit; invalid, modified
Exc == TlbExc \cup {"common"}             \* and everything raised by raise_common()
Branches == {"branch", "likely"}
Kinds == {"op", "ll", "sc", "mtsr", "mtcompare", "eret"} \cup Branches
Sr == [ie : BOOLEAN, exl : BOOLEAN, erl : BOOLEAN, bev : BOOLEAN, im : SUBSET (Devices \cup {TIMER})]
Insn == [k : Kinds, t : Nat, may : SUBSET Exc, sr : Sr]

\* pc - 4
Before(p) == CHOOSE q \in Pc : After[q] = p

ASSUME CodeAssumption ==
  /\ Code \in [Pc -> Insn]
  /\ After \in [Pc -> Pc] /\ \A p, q \in Pc : After[p] = After[q] => p = q
ASSUME VectorAssumption ==
  /\ Vector \in [BOOLEAN -> [{"refill", "xtlb", "general"} -> Pc \ User]]
  /\ Entry \in User /\ User \subseteq Pc /\ ErrorEPC \in Pc /\ Effects \subseteq User
ASSUME CountAssumption ==
  INT_POLL \in Nat \ {0} /\ Modulus \in Nat \ {0} /\ TIMER \notin Devices /\ Pokes \subseteq Devices
\* A delay slot holds no branch and no ERET, and control reaches other code only
\* through exceptions and ERET.
ASSUME FlowAssumption ==
  \A p \in Pc : LET i == Code[p] IN
    /\ i.k # "eret" => (After[p] \in User <=> p \in User)
    /\ i.k \in Branches =>
         /\ i.t \in Pc /\ (i.t \in User <=> p \in User)
         /\ Code[After[p]].k \notin Branches \cup {"eret"}
\* The program outside handlers does not set EXL and returns from no exception;
\* a handler keeps EXL set until its ERET.
ASSUME ModeAssumption ==
  \A p \in Pc : LET i == Code[p] IN
    /\ i.k = "mtsr" => (i.sr.exl <=> p \notin User) /\ (i.sr.exl => ~i.sr.erl)
    /\ i.k = "eret" => p \notin User
    /\ i.k = "mtcompare" => i.t < Modulus

VARIABLES
  pc, sr, epc, bd,
  ip,        \* Cause.IP
  ll_armed,
  at,        \* "poll": maybe_take_interrupt() is next; "exec"; "slot": run_delay_slot()
  br,        \* the branch being executed: taken, target, and EXL before its slot
  count, compare,
  icnt,      \* the instruction counter modulo INT_POLL, all that is looked at of it
  irq_poke, lines,   \* a device asks for a poll; the device levels
  effect,    \* parity of the times each followed instruction took effect
  raised,    \* the last step raised an exception
  broken     \* an exception or ERET has happened since the last load-linked

excVars == <<epc, bd>>
timerVars == <<count, compare, ip>>
envVars == <<irq_poke, lines>>
vars == <<pc, sr, excVars, ll_armed, at, br, timerVars, icnt, envVars, effect, raised, broken>>

-----------------------------------------------------------------------------
\* Exceptions.

\* Seeded fault: a nested exception overwrites EPC.
set_exc_pc_Nested ==
  epc' = (IF at = "slot" THEN Before(pc) ELSE pc) /\ bd' = (at = "slot")

\* EPC and BD are kept when EXL is already set.
set_exc_pc ==
  IF sr.exl THEN UNCHANGED excVars
  ELSE epc' = (IF at = "slot" THEN Before(pc) ELSE pc) /\ bd' = (at = "slot")

exc_vector(e) == Vector[sr.bev][IF e \in {"refill", "xtlb"} /\ ~sr.exl THEN e ELSE "general"]

Excepted == [sr EXCEPT !.exl = TRUE, !.erl = FALSE]

\* raise_common() ends the reservation, raise_tlb() does not.
Reserved(e) == e \in TlbExc /\ ll_armed

Raise(armed) ==
  /\ set_exc_pc
  /\ sr' = Excepted
  /\ ll_armed' = armed
  /\ raised' = TRUE /\ broken' = TRUE

\* run_delay_slot() reports an exception when EXL went from 0 to 1.
ds_faulted == ~br.exl /\ sr'.exl

\* Where an instruction leaves pc: v, or the target of the branch it is the
\* delay slot of.
Land(v) ==
  /\ at' = "poll"
  /\ pc' = IF at = "slot" /\ br.taken /\ ~ds_faulted THEN br.target ELSE v

-----------------------------------------------------------------------------
\* The timer and interrupt delivery before every instruction.

Pending(levels) == (levels \cap sr.im) # {} /\ sr.ie /\ ~sr.exl /\ ~sr.erl

Match == (count + 1) % Modulus = compare

\* Seeded fault: a match is dropped while the timer interrupt is masked.
Ticked_Masked == IF Match /\ TIMER \in sr.im THEN ip \cup {TIMER} ELSE ip

Ticked == IF Match THEN ip \cup {TIMER} ELSE ip

\* Seeded fault: only a poke makes the devices and the timer be looked at.
Polls_PokeOnly == irq_poke

Polls == irq_poke \/ icnt = 0

Polled == (Ticked \ Devices) \cup lines

maybe_take_interrupt ==
  /\ at = "poll"
  /\ at' = "exec"
  /\ count' = (count + 1) % Modulus
  /\ ip' = IF Polls THEN Polled ELSE Ticked
  /\ irq_poke' = (irq_poke /\ ~Polls)
  /\ IF Polls /\ Pending(Polled)
     THEN Raise(FALSE) /\ pc' = exc_vector("common")
     ELSE raised' = FALSE /\ UNCHANGED <<pc, sr, excVars, ll_armed, broken>>
  /\ UNCHANGED <<br, compare, icnt, lines, effect>>

-----------------------------------------------------------------------------
\* One instruction.

Runs == at \in {"exec", "slot"}
Insn0 == Code[pc]
Retired == icnt' = (icnt + 1) % INT_POLL

FetchFault(e) ==
  /\ Runs /\ e \in Insn0.may \cap TlbExc
  /\ Raise(Reserved(e)) /\ Land(exc_vector(e))
  /\ UNCHANGED <<br, timerVars, icnt, envVars, effect>>

\* A load-linked arms the reservation unless translation failed, even when it
\* has just raised an address error; a store conditional always ends it.
Fault(e) ==
  /\ Runs /\ e \in Insn0.may /\ Insn0.k \in {"op", "ll", "sc"}
  /\ Insn0.k = "sc" => e \in TlbExc
  /\ Raise((Insn0.k = "ll" /\ e = "common") \/ (Insn0.k # "sc" /\ Reserved(e)))
  /\ Land(exc_vector(e)) /\ Retired
  /\ UNCHANGED <<br, timerVars, envVars, effect>>

TakesEffect == effect' = IF pc \in Effects THEN [effect EXCEPT ![pc] = ~@] ELSE effect

Op ==
  /\ Runs /\ Insn0.k = "op"
  /\ TakesEffect /\ UNCHANGED <<sr, ll_armed, broken>>
  /\ Land(After[pc]) /\ Retired /\ raised' = FALSE
  /\ UNCHANGED <<excVars, br, timerVars, envVars>>

LL ==
  /\ Runs /\ Insn0.k = "ll"
  /\ TakesEffect /\ ll_armed' = TRUE /\ broken' = FALSE /\ UNCHANGED sr
  /\ Land(After[pc]) /\ Retired /\ raised' = FALSE
  /\ UNCHANGED <<excVars, br, timerVars, envVars>>

SC ==
  /\ Runs /\ Insn0.k = "sc"
  /\ IF ll_armed THEN TakesEffect ELSE UNCHANGED effect
  /\ ll_armed' = FALSE /\ UNCHANGED <<sr, broken>>
  /\ Land(After[pc]) /\ Retired /\ raised' = FALSE
  /\ UNCHANGED <<excVars, br, timerVars, envVars>>

\* mtc0 to Status and to Compare, which clears the timer interrupt.
MtSr ==
  /\ Runs /\ Insn0.k = "mtsr"
  /\ TakesEffect /\ sr' = Insn0.sr /\ UNCHANGED <<ll_armed, broken>>
  /\ Land(After[pc]) /\ Retired /\ raised' = FALSE
  /\ UNCHANGED <<excVars, br, timerVars, envVars>>

MtCompare ==
  /\ Runs /\ Insn0.k = "mtcompare"
  /\ TakesEffect /\ compare' = Insn0.t /\ ip' = ip \ {TIMER}
  /\ UNCHANGED <<sr, ll_armed, broken, count>>
  /\ Land(After[pc]) /\ Retired /\ raised' = FALSE
  /\ UNCHANGED <<excVars, br, envVars>>

\* Seeded fault: ERET keeps the load-linked reservation.
ERET_KeepLink ==
  /\ Runs /\ Insn0.k = "eret"
  /\ IF sr.erl THEN Land(ErrorEPC) /\ sr' = [sr EXCEPT !.erl = FALSE]
     ELSE Land(epc) /\ sr' = [sr EXCEPT !.exl = FALSE]
  /\ broken' = TRUE /\ Retired /\ raised' = FALSE
  /\ UNCHANGED <<ll_armed, excVars, br, timerVars, envVars, effect>>

ERET ==
  /\ Runs /\ Insn0.k = "eret"
  /\ IF sr.erl THEN Land(ErrorEPC) /\ sr' = [sr EXCEPT !.erl = FALSE]
     ELSE Land(epc) /\ sr' = [sr EXCEPT !.exl = FALSE]
  /\ ll_armed' = FALSE /\ broken' = TRUE /\ Retired /\ raised' = FALSE
  /\ UNCHANGED <<excVars, br, timerVars, envVars, effect>>

\* A branch or jump runs its delay slot within the same step, unless it is a
\* branch-likely that is not taken.
branch(taken) ==
  /\ at = "exec" /\ Insn0.k \in Branches
  /\ \/ /\ taken \/ Insn0.k = "branch"
        /\ br' = [taken |-> taken, target |-> Insn0.t, exl |-> sr.exl]
        /\ pc' = After[pc] /\ at' = "slot"
     \/ /\ ~taken /\ Insn0.k = "likely"
        /\ pc' = After[After[pc]] /\ at' = "poll" /\ UNCHANGED br
  /\ Retired /\ raised' = FALSE
  /\ UNCHANGED <<sr, excVars, ll_armed, timerVars, envVars, effect, broken>>

execMips ==
  \/ \E e \in Exc : FetchFault(e) \/ Fault(e)
  \/ Op \/ LL \/ SC \/ MtSr \/ MtCompare \/ ERET
  \/ \E taken \in BOOLEAN : branch(taken)

-----------------------------------------------------------------------------
\* A device changes its interrupt line between instructions.
DeviceLine(l) ==
  /\ at = "poll"
  /\ lines' = IF l \in lines THEN lines \ {l} ELSE lines \cup {l}
  /\ irq_poke' = (irq_poke \/ (l \in Pokes /\ l \notin lines))
  /\ UNCHANGED <<pc, sr, excVars, ll_armed, at, br, timerVars, icnt, effect, raised, broken>>

Init ==
  /\ pc = Entry /\ at = "poll"
  /\ sr = [ie |-> FALSE, exl |-> FALSE, erl |-> TRUE, bev |-> TRUE, im |-> {}]
  /\ epc = Entry /\ bd = FALSE /\ ip = {} /\ ll_armed = FALSE
  /\ br = [taken |-> FALSE, target |-> Entry, exl |-> FALSE]
  /\ count = 0 /\ compare = 0 /\ icnt = 0 /\ irq_poke = FALSE /\ lines = {}
  /\ effect = [p \in Effects |-> FALSE] /\ raised = FALSE /\ broken = TRUE

Step == maybe_take_interrupt \/ execMips

Next == Step \/ \E l \in Devices : DeviceLine(l)

\* The main loop goes on.
Spec == Init /\ [][Next]_vars /\ WF_vars(Step)

-----------------------------------------------------------------------------
\* pc, EPC and branch targets are instruction addresses, only the timer and the
\* devices set bits of Cause.IP, and the counters keep their range.
TypeOK ==
  /\ pc \in Pc /\ sr \in Sr /\ epc \in Pc /\ bd \in BOOLEAN
  /\ ip \subseteq Devices \cup {TIMER} /\ ll_armed \in BOOLEAN
  /\ at \in {"poll", "exec", "slot"}
  /\ br \in [taken : BOOLEAN, target : Pc, exl : BOOLEAN]
  /\ count \in 0 .. Modulus - 1 /\ compare \in 0 .. Modulus - 1 /\ icnt \in 0 .. INT_POLL - 1
  /\ irq_poke \in BOOLEAN /\ lines \subseteq Devices
  /\ effect \in [Effects -> BOOLEAN] /\ raised \in BOOLEAN /\ broken \in BOOLEAN

\* The instruction the program outside handlers executes next: while a handler
\* runs, the one ERET will return to; in a delay slot, the branch.
NextInsn == IF sr.exl THEN epc ELSE IF at = "slot" THEN Before(pc) ELSE pc

Seq == INSTANCE Sequential WITH next <- NextInsn

\* Exceptions are precise and invisible to the program they interrupt: across
\* faults in delay slots, nested faults in handlers and interrupts, every one of
\* its instructions takes effect exactly once and in order.
ImplementsSequential == Seq!Spec

\* "SC succeeds only if the LL reservation survived: an exception/ERET between ll
\* and sc must fail it": outside handlers an armed reservation is unbroken.
ReservationHolds == ~sr.exl /\ ll_armed => ~broken

\* A pending, enabled interrupt is taken or withdrawn: neither the timer nor a
\* device waits for ever because its turn to be polled never comes.
Deliverable == Pending(lines \cup (ip \ Devices))
InterruptTaken == Deliverable ~> ~Deliverable

\* Compare is met by equality only, between two ticks of a Count that wraps: while
\* it keeps a value, the timer's bit comes up, whatever exceptions, masks, polls
\* and writes of the same value meet the match.
TimerComes == \A c \in 0 .. Modulus - 1 : compare = c ~> TIMER \in ip \/ compare # c

\* The claim on run_delay_slot(), that it reports a slot that raised so that the
\* branch does not "SWALLOW the delay-slot fault": after an exception the vector
\* is next.
FaultVectors == raised => \E b \in BOOLEAN : pc \in {Vector[b][v] : v \in {"refill", "xtlb", "general"}}
=============================================================================
