----------------------------- MODULE Checkpoint ------------------------------
(***************************************************************************)
(* Checkpoints: a run dumps its registers and its non-zero pages           *)
(* (saveState.cc) when an option of main.cc asks for it, at the next       *)
(* boundary that is safe; another process loads the file over whatever it  *)
(* booted with and goes on.                                                *)
(*                                                                         *)
(* A machine is [pc, reg, exl, epc, link, mem, icnt]: the link (ll_armed)  *)
(* is not in the file.  Of the instruction set the program uses what tells *)
(* a good boundary from a bad one: a store, the load-linked pair, an       *)
(* exception and a branch with its delay slot.                             *)
(***************************************************************************)
EXTENDS Naturals, Sequences, FiniteSets

CONSTANTS
  Pages,      \* pages of memory
  Guest,    \* [Nat -> instruction], the guest's program
  Vector,     \* the address of its exception handler
  BootMem,    \* memory as the loaders fill it before a restore
  CkptAt,     \* values of --checkpoint-at, 0 for none
  CkptEvery,  \* values of <<--checkpoint-start, --checkpoint-every>>
  CkptIcnt,   \* values of --checkpoint-icnt, 0 for none
  MaxIcnt     \* maxicnt

ASSUME PagesAssumption == IsFiniteSet(Pages)
ASSUME BootAssumption == BootMem = [p \in Pages |-> BootMem[p]]
ASSUME MaxIcntAssumption == MaxIcnt \in Nat

VARIABLES
  machine,   \* the process that dumps
  phase,     \* where in the run loop it is
  files,     \* the checkpoints: name -> [header, pages]
  writing,   \* the dump under way: [name, todo, then]
  options,   \* its options: [at, next, every, icnt]
  resumed    \* the process that restores: [on, m, clean]

ckptVars == <<machine, phase, files, writing, options, resumed>>

ZeroMem == [p \in Pages |-> 0]
Boot(mem) == [pc |-> 1, reg |-> 0, exl |-> FALSE, epc |-> 0, link |-> FALSE, mem |-> mem, icnt |-> 0]
-----------------------------------------------------------------------------
(* execMips *)

load_linked(m, p) == [m EXCEPT !.reg = m.mem[p], !.link = TRUE, !.pc = @ + 1]
store_cond(m, p) ==
  [m EXCEPT !.mem[p] = IF m.link THEN m.reg ELSE @, !.reg = IF m.link THEN 1 ELSE 0,
            !.link = FALSE, !.pc = @ + 1]
raise(m) == [m EXCEPT !.epc = IF m.exl THEN @ ELSE m.pc, !.exl = TRUE, !.link = FALSE, !.pc = Vector]
eret(m) == [m EXCEPT !.pc = m.epc, !.exl = FALSE, !.link = FALSE]

Simple(m, i) ==
  CASE i.op = "li" -> [m EXCEPT !.reg = i.v, !.pc = @ + 1]
    [] i.op = "sw" -> [m EXCEPT !.mem[i.p] = m.reg, !.pc = @ + 1]
    [] i.op = "ll" -> load_linked(m, i.p)
    [] i.op = "sc" -> store_cond(m, i.p)
    [] i.op = "syscall" -> raise(m)
    [] i.op = "nextepc" -> [m EXCEPT !.epc = @ + 1, !.pc = @ + 1]
    [] i.op = "eret" -> eret(m)
    [] OTHER -> raise(m)

\* One turn of the run loop: a branch runs its delay slot too (a slot that
\* faults is Cpu.tla's matter).
execMips(m) ==
  LET i == Guest[m.pc]
      n == [m EXCEPT !.icnt = @ + 1]
  IN  IF i.op = "b"
      THEN [Simple([n EXCEPT !.pc = @ + 1, !.icnt = @ + 1], Guest[m.pc + 1]) EXCEPT !.pc = i.to]
      ELSE Simple(n, i)
-----------------------------------------------------------------------------
(* The run loop *)

Idle == [name |-> 0, todo |-> {}, then |-> "exec"]

CkptInit ==
  /\ machine = Boot(BootMem)
  /\ phase = "at"
  /\ files = [n \in {} |-> Idle]
  /\ writing = Idle
  /\ options \in {[at |-> a, next |-> IF e[1] # 0 THEN e[1] ELSE e[2], every |-> e[2], icnt |-> i] :
                    a \in CkptAt, e \in CkptEvery, i \in CkptIcnt}
  /\ resumed = [on |-> FALSE, m |-> Boot(ZeroMem), clean |-> TRUE]

\* Seeded fault: the link forgotten.
ckpt_safe_Linked(m) == ~m.exl

\* Between two turns nothing is in a delay slot.
ckpt_safe(m) == ~m.link /\ ~m.exl

page_nonzero(m, p) == m.mem[p] # 0

Header(m) ==
  [pc |-> m.pc, reg |-> m.reg, exl |-> m.exl, epc |-> m.epc, icnt |-> m.icnt,
   num_pages |-> Cardinality({p \in Pages : page_nonzero(m, p)})]

\* dumpState(): the file is truncated and gets the header; the pages follow.
dumpState(name, then) ==
  /\ files' = [n \in DOMAIN files \cup {name} |->
                 IF n = name THEN [header |-> Header(machine), pages |-> [p \in {} |-> 0]] ELSE files[n]]
  /\ writing' = [name |-> name, todo |-> {p \in Pages : page_nonzero(machine, p)}, then |-> then]
  /\ phase' = "dump"

\* Whether the loop's test for one option asks for a dump; the name 0 is
\* --checkpoint-out, another one has the count appended.
Due(ph) ==
  /\ ckpt_safe(machine)
  /\ CASE ph = "at" -> options.at # 0 /\ machine.pc = options.at
       [] ph = "every" -> options.every # 0 /\ machine.icnt >= options.next
       [] ph = "icnt" -> options.icnt # 0 /\ machine.icnt >= options.icnt

After == [at |-> "every", every |-> "icnt", icnt |-> "exec"]

CheckOption ==
  /\ phase \in DOMAIN After
  /\ machine.icnt < MaxIcnt
  /\ IF Due(phase)
     THEN /\ dumpState(IF phase = "every" THEN machine.icnt ELSE 0,
                       IF phase = "every" THEN After[phase] ELSE "stopped")
          /\ options' = [options EXCEPT !.next = IF phase = "every" THEN @ + options.every ELSE @]
     ELSE /\ phase' = After[phase]
          /\ UNCHANGED <<files, writing, options>>
  /\ UNCHANGED <<machine, resumed>>

DumpPage ==
  /\ phase = "dump"
  /\ \E p \in writing.todo :
       /\ \A q \in writing.todo : p <= q
       /\ files' = [files EXCEPT ![writing.name].pages =
                      [q \in DOMAIN @ \cup {p} |-> IF q = p THEN machine.mem[p] ELSE @[q]]]
       /\ writing' = [writing EXCEPT !.todo = @ \ {p}]
  /\ UNCHANGED <<machine, phase, options, resumed>>

DumpDone ==
  /\ phase = "dump"
  /\ writing.todo = {}
  /\ phase' = writing.then
  /\ writing' = Idle
  /\ UNCHANGED <<machine, files, options, resumed>>

\* The host dies, or a write() fails its assertion.
DumpCut ==
  /\ phase = "dump"
  /\ phase' = "stopped"
  /\ writing' = Idle
  /\ UNCHANGED <<machine, files, options, resumed>>

Execute ==
  /\ phase = "exec"
  /\ machine' = execMips(machine)
  /\ phase' = "at"
  /\ UNCHANGED <<files, writing, options, resumed>>
-----------------------------------------------------------------------------
\* loadState() asserts that every read is whole.
FileWhole(f) == Cardinality(DOMAIN f.pages) = f.header.num_pages

\* A new process boots, with or without the images, and loads a checkpoint.
loadState(mem, name) ==
  /\ ~resumed.on
  /\ FileWhole(files[name])
  /\ LET f == files[name]
         h == f.header
     IN  resumed' = [on |-> TRUE,
                     m |-> [pc |-> h.pc, reg |-> h.reg, exl |-> h.exl, epc |-> h.epc, link |-> FALSE,
                            mem |-> [p \in Pages |-> IF p \in DOMAIN f.pages THEN f.pages[p] ELSE mem[p]],
                            icnt |-> h.icnt],
                     clean |-> \A p \in Pages : mem[p] # 0 => p \in DOMAIN f.pages]
  /\ UNCHANGED <<machine, phase, files, writing, options>>

ResumedExecute ==
  /\ resumed.on
  /\ resumed.m.icnt < MaxIcnt
  /\ resumed' = [resumed EXCEPT !.m = execMips(@)]
  /\ UNCHANGED <<machine, phase, files, writing, options>>

CkptNext ==
  \/ CheckOption \/ DumpPage \/ DumpDone \/ DumpCut \/ Execute
  \/ \E mem \in {ZeroMem, BootMem}, n \in DOMAIN files : loadState(mem, n)
  \/ ResumedExecute

CkptSpec == CkptInit /\ [][CkptNext]_ckptVars
-----------------------------------------------------------------------------
\* The machine after n turns of an undisturbed run.
RunOf[n \in 0 .. MaxIcnt] == IF n = 0 THEN Boot(BootMem) ELSE execMips(RunOf[n - 1])

\* A process that resumes from a checkpoint goes through the states the run
\* that wrote it would have gone through: nothing the file leaves out matters
\* at a safe boundary, and a file cut short is never resumed from (dumpState,
\* loadState, ckpt_safe).  Unless the process booted with a page the run had
\* zeroed since: zero pages are not in the file and loadState clears none.
CheckpointExact == resumed.on /\ resumed.clean => \E n \in 0 .. MaxIcnt : RunOf[n] = resumed.m
=============================================================================
