------------------------------ MODULE Lockstep -------------------------------
(***************************************************************************)
(* Lockstep co-simulation: a server (the golden model) and a client (the   *)
(* model under test) run the same program and meet after every instruction *)
(* in a shared segment (cosim.cc, shmem.cc, the run loop of main.cc).      *)
(*                                                                         *)
(* A lock is an integer the two move between 0 and 1 by compare-and-swap:  *)
(* the client raises lock 0 with its state posted, the server raises lock  *)
(* 1 when it has compared.  The segment outlives both processes (nothing   *)
(* deletes g_shm), so a run may find what processes that have ended left   *)
(* in it.  No process of an earlier run is still attached: shmctl() would  *)
(* count it as the client.                                                 *)
(*                                                                         *)
(* What the two programs compute is given by differ: the instructions      *)
(* after which the client's registers (pc included), or its memory, are    *)
(* not the server's.                                                       *)
(***************************************************************************)
EXTENDS Integers, FiniteSets

CONSTANTS
  MaxSteps,   \* the longest run, in instructions
  Limits,     \* values of maxicnt (a guest that stops by itself included)
  MemN,       \* COSIM_MEMN: memory is hashed every MemN instructions
  MemStart    \* COSIM_MEMSTART: from this one on

ASSUME LockstepAssumption ==
  /\ MaxSteps \in Nat
  /\ Limits \subseteq 0 .. MaxSteps
  /\ MemN \in Nat \ {0}
  /\ MemStart \in Nat

VARIABLES
  shm,      \* the segment: [exists, nattch, lock, data, diverged]
  server,   \* [pc, icnt, limit, bad, stop]
  client,   \* [pc, icnt, limit, early, stop]
  differ    \* [regs, mem]: where the client's run differs

lockVars == <<shm, server, client, differ>>

NO_HASH == -1
Instructions == 1 .. MaxSteps
-----------------------------------------------------------------------------
(* The states compared *)

Hashes(i) == i >= MemStart /\ i % MemN = 0

\* What a process holds after instruction i.  Equal numbers stand for equal
\* contents.
Golden(i) == [icnt |-> i, regs |-> i, hash |-> IF Hashes(i) THEN 1 ELSE NO_HASH]
Dut(i) ==
  [icnt |-> i,
   regs |-> IF i \in differ.regs THEN 0 ELSE i,
   hash |-> IF ~Hashes(i) THEN NO_HASH ELSE IF i \in differ.mem THEN 0 ELSE 1]

Zeroed == [icnt |-> 0, regs |-> 0, hash |-> 0]

\* cosim_step(), server: the icnt posted is printed, never compared.
Diverges(mine, posted) ==
  \/ posted.regs # mine.regs
  \/ mine.hash # NO_HASH /\ posted.hash # mine.hash
-----------------------------------------------------------------------------
\* The segment of an earlier run whose two processes have ended, at any point of
\* the handshake.
Leftover ==
  [exists : {TRUE}, nattch : {0}, lock : {[l \in {0, 1} |-> 0], [l \in {0, 1} |-> l], [l \in {0, 1} |-> 1 - l]},
   data : {[icnt |-> 1, regs |-> 1, hash |-> NO_HASH]}, diverged : BOOLEAN]

NoSegment == [exists |-> FALSE, nattch |-> 0, lock |-> [l \in {0, 1} |-> 0], data |-> Zeroed, diverged |-> FALSE]

LockInit ==
  /\ shm \in Leftover \cup {NoSegment}
  /\ differ \in [regs : SUBSET Instructions, mem : SUBSET Instructions]
  /\ \E l \in Limits : server = [pc |-> "off", icnt |-> 0, limit |-> l, bad |-> FALSE, stop |-> "no"]
  /\ \E l \in Limits : client = [pc |-> "off", icnt |-> 0, limit |-> l, early |-> FALSE, stop |-> "no"]

\* shmServer: create or find the segment and attach it ...
ServerAttach ==
  /\ server.pc = "off"
  /\ shm' = [shm EXCEPT !.exists = TRUE, !.nattch = @ + 1]
  /\ server' = [server EXCEPT !.pc = "clear"]
  /\ UNCHANGED <<client, differ>>

\* ... then clear it, whoever else is attached.
ServerClear ==
  /\ server.pc = "clear"
  /\ shm' = [shm EXCEPT !.lock = [l \in {0, 1} |-> 0], !.data = Zeroed, !.diverged = FALSE]
  /\ server' = [server EXCEPT !.pc = "wait"]
  /\ UNCHANGED <<client, differ>>

waitForConnection ==
  /\ server.pc = "wait"
  /\ shm.nattch > 1
  /\ server' = [server EXCEPT !.pc = "loop"]
  /\ UNCHANGED <<shm, client, differ>>

\* shmClient: there must be a segment already.
ClientAttach ==
  /\ client.pc = "off"
  /\ IF shm.exists
     THEN /\ shm' = [shm EXCEPT !.nattch = @ + 1]
          /\ client' = [client EXCEPT !.pc = "loop", !.early = server.pc \in {"off", "clear"}]
     ELSE /\ client' = [client EXCEPT !.pc = "left", !.stop = "no segment"]
          /\ UNCHANGED shm
  /\ UNCHANGED <<server, differ>>
-----------------------------------------------------------------------------
(* The run loop: an instruction, then cosim_step() *)

ServerExecute ==
  /\ server.pc = "loop"
  /\ server.icnt < server.limit
  /\ server' = [server EXCEPT !.icnt = @ + 1, !.pc = "down"]
  /\ UNCHANGED <<shm, client, differ>>

ServerLimit ==
  /\ server.pc = "loop"
  /\ server.icnt >= server.limit
  /\ server' = [server EXCEPT !.pc = "left", !.stop = "limit"]
  /\ shm' = [shm EXCEPT !.nattch = @ - 1]
  /\ UNCHANGED <<client, differ>>

\* Seeded fault: the client released before the comparison.
ServerDown_Release ==
  /\ server.pc = "down"
  /\ shm.lock[0] = 1
  /\ shm' = [shm EXCEPT !.lock[0] = 0, !.lock[1] = 1]
  /\ server' = [server EXCEPT !.pc = "compare"]
  /\ UNCHANGED <<client, differ>>

ServerDown ==
  /\ server.pc = "down"
  /\ shm.lock[0] = 1
  /\ shm' = [shm EXCEPT !.lock[0] = 0]
  /\ server' = [server EXCEPT !.pc = "compare"]
  /\ UNCHANGED <<client, differ>>

ServerCompare ==
  /\ server.pc = "compare"
  /\ LET bad == Diverges(Golden(server.icnt), shm.data)
     IN  /\ server' = [server EXCEPT !.pc = "up", !.bad = bad]
         /\ shm' = [shm EXCEPT !.diverged = @ \/ bad]
  /\ UNCHANGED <<client, differ>>

ServerUp ==
  /\ server.pc = "up"
  /\ shm.lock[1] = 0
  /\ shm' = [shm EXCEPT !.lock[1] = 1, !.nattch = IF server.bad THEN @ - 1 ELSE @]
  /\ server' = [server EXCEPT !.pc = IF server.bad THEN "left" ELSE "loop",
                              !.stop = IF server.bad THEN "diverged" ELSE @]
  /\ UNCHANGED <<client, differ>>

ClientExecute ==
  /\ client.pc = "loop"
  /\ client.icnt < client.limit
  /\ client' = [client EXCEPT !.icnt = @ + 1, !.pc = "post"]
  /\ UNCHANGED <<shm, server, differ>>

ClientLimit ==
  /\ client.pc = "loop"
  /\ client.icnt >= client.limit
  /\ client' = [client EXCEPT !.pc = "left", !.stop = "limit"]
  /\ shm' = [shm EXCEPT !.nattch = @ - 1]
  /\ UNCHANGED <<server, differ>>

ClientPost ==
  /\ client.pc = "post"
  /\ shm' = [shm EXCEPT !.data = Dut(client.icnt)]
  /\ client' = [client EXCEPT !.pc = "up"]
  /\ UNCHANGED <<server, differ>>

ClientUp ==
  /\ client.pc = "up"
  /\ shm.lock[0] = 0
  /\ shm' = [shm EXCEPT !.lock[0] = 1]
  /\ client' = [client EXCEPT !.pc = "down"]
  /\ UNCHANGED <<server, differ>>

ClientDown ==
  /\ client.pc = "down"
  /\ shm.lock[1] = 1
  /\ shm' = [shm EXCEPT !.lock[1] = 0]
  /\ client' = [client EXCEPT !.pc = "read"]
  /\ UNCHANGED <<server, differ>>

ClientRead ==
  /\ client.pc = "read"
  /\ client' = [client EXCEPT !.pc = IF shm.diverged THEN "left" ELSE "loop",
                              !.stop = IF shm.diverged THEN "diverged" ELSE @]
  /\ shm' = [shm EXCEPT !.nattch = IF shm.diverged THEN @ - 1 ELSE @]
  /\ UNCHANGED <<server, differ>>

ServerNext ==
  \/ ServerAttach \/ ServerClear \/ waitForConnection
  \/ ServerExecute \/ ServerLimit \/ ServerDown \/ ServerCompare \/ ServerUp
ClientNext ==
  \/ ClientAttach
  \/ ClientExecute \/ ClientLimit \/ ClientPost \/ ClientUp \/ ClientDown \/ ClientRead

LockNext == ServerNext \/ ClientNext

LockSpec == LockInit /\ [][LockNext]_lockVars
-----------------------------------------------------------------------------
SharedSegment ==
  [exists : BOOLEAN, nattch : Int, lock : [{0, 1} -> {0, 1}],
   data : [icnt : Int, regs : Int, hash : Int], diverged : BOOLEAN]
Server ==
  [pc : {"off", "clear", "wait", "loop", "down", "compare", "up", "left"}, icnt : Nat,
   limit : Nat, bad : BOOLEAN, stop : {"no", "limit", "diverged"}]
Client ==
  [pc : {"off", "loop", "post", "up", "down", "read", "left"}, icnt : Nat,
   limit : Nat, early : BOOLEAN, stop : {"no", "limit", "diverged", "no segment"}]

LockTypeOK ==
  /\ shm \in SharedSegment /\ server \in Server /\ client \in Client
  /\ differ \in [regs : SUBSET Instructions, mem : SUBSET Instructions]

\* Instruction i is one whose comparison must fail.
Visible(i) == i \in differ.regs \/ (i \in differ.mem /\ Hashes(i))

\* The server compares its state with the client's after the same
\* instruction, though nothing compares the counts (cosim_step).
SameInstruction == server.pc = "compare" => shm.data = Dut(server.icnt)

\* Nobody runs past the first visible difference, and a process that stops
\* for a divergence stops exactly there.
StopsAtFirst ==
  /\ \A i \in Instructions : Visible(i) => server.icnt <= i /\ client.icnt <= i
  /\ server.stop = "diverged" => Visible(server.icnt)
  /\ client.stop = "diverged" => Visible(client.icnt) /\ client.icnt = server.icnt

\* The two never spin on each other.
NoMutualWait ==
  ~(server.pc = "down" /\ shm.lock[0] = 0 /\ client.pc = "down" /\ shm.lock[1] = 0)

\* cosim.hh: "After every top-level instruction both processes barrier", "the
\* FIRST divergence is printed" and "the run stops".  True of every client
\* that attached after the server had cleared the segment, whatever the ended
\* processes of an earlier run left in it.
LockstepExact == ~client.early => SameInstruction /\ StopsAtFirst /\ NoMutualWait
=============================================================================
