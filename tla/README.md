# TLA+ models of interp_mips

`interp_mips` simulates an SGI Indy: an R4000-class MIPS CPU interpreted one
instruction at a time, and the Indy's devices as C++ objects the CPU reaches by
memory-mapped registers. It is one thread, so nothing races in the host sense.
What is hard is the guest: it may write the registers in any order, take an
exception between any two instructions, change a mapping or an ASID while older
translations are cached, and reset a controller in the middle of a transfer.

## 1. Inventory

| Part | State | Operations | What can go wrong | Module |
|---|---|---|---|---|
| WD33C93 and disk (`sgi_scsi.cc`) | register file, data phase, buffer and cursor, DRQ, INTRQ, sense, overlay | register reads and writes, select-and-transfer, pause, resume, reset, a byte each way | a phase that never ends, a transfer resumed by the wrong command, a torn write | `Wd33c93` |
| HPC3 SCSI DMA (`sgi_hpc.cc`) | per channel: pointers, count, ctrl, active, FSM state; interrupt status | channel register writes and reads, the descriptor walk | a DRQ nobody serves, a chain that ends silently, flag and bit that disagree | `HpcScsi` |
| D-cache model (`cache_model.*`) | lines, DRAM | loads, stores, CACHE operations, speculation, snoop | lost stores, stale loads, two names of one line | `CacheModel` |
| TLB and micro-TLB (`interpret.cc`) | entries, CP0 staging registers, the micro-TLB | translate, TLBR/WI/WR/P, mtc0, read-only probe | a stale shortcut, searches that disagree, a wired entry replaced | `Tlb` |
| Instruction step (`interpret.cc`, `main.cc`) | pc, Status, EPC, Cause, Count/Compare, LL bit, delay-slot flag | interrupt poll, every instruction, exceptions, ERET | an instruction lost or done twice, an interrupt never taken, SC after a broken reservation | `Cpu` |
| IOC2/INT2 interrupts (`sgi_hpc.cc`) | masks; status is computed from the devices | mask writes, status reads, IP2 and IP3 | a level that is lost, or never goes down | `Ioc2` |
| i8254 counter 2 (`sgi_hpc.cc`) | reload, latch, byte phases, Count at load | control word, byte writes and reads | wrap of Count, half a value read | `I8254` |
| Ethernet DMA, Seeq (`sgi_hpc.cc`, `sgi_seeq.cc`) | rings, channels, drain counter, filter, staged frame, queues | ring walks, poll, channel registers, reset | a full ring, a torn frame, a drain that ends the wrong chain | `Enet` |
| Serial SCC (`sgi_scc.cc`) | register pointers, TX drain, RX ring | register reads and writes, tick, stdin poll | overrun, an interrupt never reset | `Scc` |
| 8042, keyboard, mouse (`sgi_ps2.cc`) | CCB, output buffer, two queues, scan and sample state, script | commands, key and motion events, service at retrace | bytes out of order, a split packet | `Ps2` |
| Memory controller (`sgi_mc.cc`) | DMA registers and TLB, semaphores, EEPROM counter | register writes, graphics DMA | page, line and word boundaries | `Mc` |
| Newport (`sgi_newport.cc`) | REX3 registers, framebuffer, VC2 RAM, palettes, modes | register accesses, GO commands, DCB, retrace, readout | two span paths, overlapping copies, off-by-one lines and runs | `Rb2`, `Rex3`, `Newport` |
| Delta file (`sgi_scsi.cc`) | overlay, sidecar | load, flush | a file cut short | `Delta` |
| Checkpoints (`saveState.cc`, `main.cc`) | options, file | safe boundary, dump, load | state that is not saved | `Checkpoint` |
| gdb stub (`gdbstub.cc`) | connection, stepping, breakpoints | hook, command loop | a stop twice, a reply to the wrong request | `GdbStub` |
| Lockstep (`cosim.cc`, `shmem.cc`) | shared record, two semaphores | attach, post, compare | comparing different instructions, mutual waiting | `Lockstep` |
| Integer and FP data path | registers | arithmetic, unaligned merges | overflow, sign extension, byte order | not modelled |
| Loader, firmware, tracing, SDL window | | | host I/O, printing | not modelled |

How the parts meet: the main loop calls `maybe_take_interrupt()` and then
`execMips()`; an instruction that touches a device calls its `read`/`write`; a
write to an HPC3 channel or to the WD33C93 may run `scsi_run_dma()` to the end
before it returns; a device raises a level and sets `irq_poke`, which the next
poll reads. `PROJECT.json` lists the hazards, each at its line.

## 2. Modules

    Wd33c93 --> HpcScsi --> ScsiDriver ==refines==> BlockDevice
    CacheModel ==refines (CPU alone)==> FlatMemory
    Tlb
    Cpu ==refines==> Sequential
    Scc, Ps2, I8254, Enet --> Ioc2 ----------------------+
    Rb2 --> Rex3 --> Newport, Mc --> Graphics -----------+--> Machine
    Lockstep, Delta, Checkpoint, GdbStub ----------------+

`MC*` modules hold the constants of the runs, `*Proofs` the theorems. Operators
marked "Seeded fault" are never used by the specifications: each is a plausible
bug in the definition it is named after, kept to show that a property notices it.

**Wd33c93** is the chip and the disk. Its operators are those of the class
(`select_and_transfer`, `finish`, `pause_transfer`, `dma_r`, ...). CDB bytes are
decoded; the contents of the fixed replies are constants. AUX_STATUS is kept
apart from the other registers as a set of bits. A block is `BlockSize` payload
bytes; writes go to the overlay, or to the image with `DirectWrite`.

**HpcScsi** adds the channels. A register write that starts the pump only
records which channel is being pumped (`pump`); the pump then takes a step per
byte and per descriptor, and the CPU runs again once it has stopped. So every
intermediate state of the C++ loops is a state of the model, but the guest acts
only where it really can. Descriptors are a constant table: the guest chooses
among chains instead of writing them. A byte moved in the direction opposite to
the data phase is modelled by what `dma_r`/`dma_w` return and ignore.

**ScsiDriver** is the guest that keeps the protocol the comments of
`sgi_scsi.cc` and `sgi_hpc.cc` describe: program the CDB, arm the channel before
or after the select, continue at a pause with the next chain, reset chip and
channel at any point (a timeout). The driver is external code; the chip and the
channel under it are `HpcScsi`, unchanged. **BlockDevice** is what the user of
the driver may assume: a request is performed atomically, answered, or given up.

**CacheModel** is the write-back D-cache between CPU and DRAM. An address is a
line and an offset. The low-memory alias of DRAM is a map from lines to lines:
the cache is keyed by the address as issued, DRAM by the aliased one, so that a
line has two names which fall into the same set. `behind` is a history variable:
the bytes written in DRAM without the cache. **FlatMemory** is a plain array.

**Tlb** has the 48-entry search, the micro-TLB in front of it, the TLB
instructions, and the third search, `tlb_probe_ro`. An address is its region
bits, its fill bits, the bits above 32 of its page number, and a low page
number; a PageMask is the number of 4 KB pages of the pair. A physical page is
`<<frame, page in the frame>>`, which the code ORs together. The assertion on
PageMask is an assumption: only its seven values are written. `fault` remembers
the last exception until the handler overwrites what TLBP looks at; `settled` is
false from a write to Wired or Random to the next TLBWR.

**Cpu** is a step of the main loop: poll, then one instruction, then its delay
slot if it is a branch. The guest is a constant program over a ring of addresses
(`After` is pc + 4). Instructions keep their control: which exceptions they may
raise and in which order with their effects, what they do to Status, EPC, the
timer, the reservation. What they compute is left out; `effect` counts, modulo
two, how often a chosen instruction took effect. `icnt` is kept as its residue modulo
`INT_POLL`, all the polls read of it; `Count` ticks once per poll and is not written by the
guest. The program outside handlers
runs with EXL clear and a handler keeps EXL set until its ERET: that is an
assumption on the program, not on the CPU. `broken` is a history variable.
**Sequential** runs the same program with no exceptions, interrupts or handlers.

**Scc** has the register pointer, the TX drain, the RX ring with its polling of
stdin, and RR3 with its reset. The guest reads data, control or RR3 in any order.

**Ps2** keeps a byte of the output buffer or of a queue together with what it is
(reply, part of a key, part of a packet), so that order can be stated. Commands
are the code's numbers; the ones that only list answers are taken together.
Events come from the window and from the script, which waits while the queue is
not drained.

**I8254** is the counter with the guest's calibration loop, the only user.

**Enet** has a received byte as `<<frame, position>>`, so that a frame lost,
repeated or overwritten is visible. A walk of a ring is one step, as in the code.
The driver's side of the rings is external; `wire` is a history variable.

**Ioc2** puts the four behind the status registers. Status is computed, never
stored, as in the code. The guest's handlers serve one cause at a time through
the devices' own registers.

**Rb2**, **Rex3**, **Newport** and **Mc** are operators on records, one per C++ function:
a framebuffer word is the set of its one bits, a coordinate is in sixteenths of a
pixel and wraps at `Half` (2^15 in the code). `Rex3` has both span paths, chosen
as `span_or_block` chooses. `Newport` decodes register accesses, the DCB and the
readout; `Mc` copies lines between memory and the host port, byte by byte through
its translation. Loops of the code are folds, or functions bounded by what the loop
counts. **Graphics** runs a driver's program of accesses on two boards at once: one
as built, one with `NEWPORT_SCALAR`, the code's own oracle. `GoodAccess` says which
accesses a program may hold: values that fit their registers.

**Lockstep** takes a step per access to shared memory of either process.
`differ` is the set of instructions after which the two disagree. A segment may be
left from an earlier run, with the locks at any point of its handshake; the processes of
that run have ended. **Delta** writes its file item by item and
may be stopped after any; `history` remembers what a reader may expect.
**Checkpoint** has a program with a load-linked pair, a handler, a delay slot and
pages that become zero; it compares a resumed process with an undisturbed run.
**GdbStub** has clients that send, interrupt, wait and vanish, and sockets as
queues.

**Machine** composes them in one specification. The parts share the run loop, but
no state beyond the interrupt status, so exploring their product would only
multiply independent interleavings. A behaviour drives the parts in `driven`; the
other parts keep an initial state. Each of the eleven choices is an initial state
of the one run.

## 3. Runs

| Run | Shows | Bounds |
|---|---|---|
| `MCScsiGuests` | any guest: types, data phases, ACTIVE bit, no lost DRQ, no silent end of a chain, a started transfer is only continued | READ and WRITE of 3 blocks over chains of 2 descriptors on one channel, so that every transfer pauses and resumes; every command of the disk, one block or byte each, over both channels |
| `MCPump` | the pump returns from the register write that called it, also on a chain that runs in a circle, unless the circle moves no byte | a chain with an end, a circle of a byte and an empty descriptor, a circle of nothing; READ and WRITE in either direction |
| `MCScsiDriver` | refinement of the block device; the driver never runs out of chunks; nothing is left for the next request; every request ends | 2 blocks of 2 bytes, chunk boundary inside a block, a read past the image |
| `MCWriteDrained` | **violated**: a WRITE is applied before its data has arrived | the READs and WRITEs of `MCScsiGuests` |
| `MCAbsentTarget` | **violated**: a select of an absent target times out | a READ that pauses, then a select of target 2 |
| `MCCacheModel` | CPU coherence, stores kept, DMA seen, the detector's premise | one set, three lines, two of them names of one DRAM line |
| `MCTlb` | micro-TLB invisible, TLBP and the probe agree with translation; wired entries survive TLBWR | 2 entries, 2 slots, 2 ASIDs, 2 page sizes, a kseg0 address; or out-of-range Index, Random and Wired |
| `MCCpu` | precise exceptions, reservations, interrupts taken, no match of Compare missed | 22 addresses: faults in slots, in handlers, between LL and SC; Count modulo 4 |
| `MCCpuSlot` | **violated**: after an exception the vector is next | a fault in a delay slot of a handler |
| `MCCpuPoll` | **violated**: a pending interrupt is taken, when polled every second instruction | a branch to itself |
| `MCMachine` | 14 invariants and two liveness properties, below | a 2-character ring and 3 characters typed; 2 descriptors and frames longer and shorter than a buffer; chains of 1 and 2 of 3 descriptors; 2-bit mouse and counter bytes; a 6 by 6 framebuffer, 8-lane kernels; lockstep of 3 instructions; 2 blocks and 3 writes; 24 instructions; 2 debugger clients |
| `MCKernelExact` | **violated**: the span kernel draws what the per-pixel path draws | one host-colour draw, then one shaded draw |

`MCMachine` checks, part by part:

- serial: `ConsoleInOrder`, typed characters are read once and in order, whatever
  the ring's fill when stdin is polled;
- keyboard: `KeysInOrder`, `PointerTracks`: the bytes of keys come out in the
  order of the keys, whatever replies go between them, and packets add up to the motion,
  clamping included;
- timer: `CalibrationExact`, the loop measures the reload value, across a wrap;
- Ethernet: `RxStream` (no frame lost, repeated or torn), `TxInOrder` (frames leave
  whole, in order, before the driver may reclaim them), `PacketsLeave` (they leave);
- interrupts: `NoStorm`, a served line goes down;
- graphics: `KernelAgrees` (both span paths, except in the case of `MCKernelExact`),
  `BlitExact` (memory to screen and back, and screen to screen with overlap),
  `LineExact`, `FrameExact`;
- host: `LockstepExact`, `DeltaExact`, `CheckpointExact`, `DebuggerExact`.

The bounds are chosen so that each case the code distinguishes happens: chains
shorter and longer than the transfer, counters that wrap, both halves of a page
pair, an address matched by two entries.

*Fairness.* `WF(Pump)`: the pump is a loop inside a register write. `WF(Serve)`:
the driver's code runs and takes its interrupt; timeouts are never required.
`WF(Step)` in `Cpu`: the main loop goes on, so polls come and Count ticks. In `Ioc2`, `WF(NetPoll)`: the loop
polls the network; `WF(ServeIP2)`: an interrupt that is up reaches its handler,
which `Cpu` shows; `WF(TxDriver)`: the driver looks at its ring. Nothing is assumed
of devices, of the network or of the user.

## 4. Disagreements met

Shown by a run:
- `finish()` writes the buffer to the disk whenever the opcode register holds a
  WRITE, whether or not the data phase was drained (`MCWriteDrained`).
- `run_delay_slot()` notices an exception only if EXL was clear; in a handler the
  branch is taken over the vector (`MCCpuSlot`). Outside handlers exceptions are
  precise nevertheless, which is what `ImplementsSequential` says.
- with `INT_POLL` above 1 a loop of an even number of instructions may never
  meet a multiple of it, so that latency is unbounded (`MCCpuPoll`). The default
  of 1 is fine.
- the host-colour branch of `span_fast()` does not step the shading iterators, the
  per-pixel loop does (`MCKernelExact`). `KernelAgrees` excludes shading under host
  or fast-clear colours and finds the two paths equal otherwise.
- a select of an absent target resumes a paused transfer: the test for a pause comes
  before that of the target (`MCAbsentTarget`). `ResumeContinues` counts it as a
  continuation of the transfer.

Met while modelling, and reflected in the premises of a property:
- `snoop_inval()` misses a line cached under its other name, though its comment says that it
  drops "any cached copy" (`DmaSeen` excludes that case); where it finds the line, the CPU's
  other dirty bytes go with it (`StoresKept` says so);
- a chain in a circle that moves no byte, empty or against the data phase, keeps the pump
  for ever (`PumpReturns` says so); HD1 takes the bytes of a data phase meant for HD0;
- `tlb_probe_ro()` ignores bits above 32 of narrow addresses and compares the fill
  bits of wide ones (`ProbeMirrors` is limited to one segment of narrow ones);
- writing Wired does not reset Random (`WiredKept` starts at the second TLBWR);
- `raise_tlb()` leaves `ll_armed` set, and LL sets it after an address error; ERET
  makes up for both (`ReservationHolds`);
- Count ticks once per step, not once per retired instruction; `dmtc0` to Compare
  does not clear the timer interrupt;
- the comment on SC in `interpret.hh` says it always succeeds; `_sc()` fails without
  `ll_armed`, which is why `ckpt_safe` matters (`CheckpointExact`);
- `loadState()` clears no page, so a page the run has zeroed keeps what the boot put
  there; dirty cache lines and device state are in no checkpoint;
- a delta file is rewritten in place and its writes are not checked: after a cut a
  block may fall back to the image (`DeltaExact` says which);
- 0x20 (read CCB) answers through the keyboard's bytes, ahead of keys still queued;
- `s_head` survives a channel reset in mid-packet: the next packet's head is then taken for a
  later descriptor and shows ETXD with its first buffer, though the comment says "only at packet end"
  (`TxInOrder` excepts a torn packet); chains ended by EOXP alone are sent as one frame;
- the server clears the segment after attaching: an early client's post is lost, and the two wait
  for each other (`LockstepExact` excepts clients that attach before the segment is cleared);
- a lockstep process that reaches its limit leaves the other waiting;
- breakpoints outlive the client that set them and match modulo 2^32; `k` exits
  without flushing the delta file;
- an integer line with `skip_first` still draws its first pixel and leaves out the last
  but one instead; the end of a fractional line is stored without its shift.

## 5. Proofs

For every value of the constants that satisfies the named ASSUMEs:

| Theorem | Statement | Argument |
|---|---|---|
| `ScsiProofs` `TypeCorrect`, `DrqServed`, `DataPhaseSafe`, `ActiveTruth` | the invariants of `MCScsiGuests` | the conjunction is inductive: `NoLostDrq` needs the channel's states (`ActiveAgree`) and the chip's (`DataPhase`); one lemma per register operation and per pump step |
| `ScsiProofs` `EndIsTold`, `TransferContinues` | the action properties `NoSilentEnd`, `ResumeContinues` | from the same invariant, step by step: only a descriptor with EOX or a byte that finds no DRQ makes a channel inactive, and both raise INTRQ or find the phase over |
| `ScsiProofs` `DriverInductive`, `ChunksAreEnough`, `IdleIsClean` | `ChunksSuffice` and `CleanIdle`, for every disk, block size, set of requests and layout of descriptors | `DrvInv`: chip and channel are clean between requests; within one, each place of the driver fixes what the chip, the channel and INTRQ may be, and the bytes moved so far are those of the descriptors passed, which the layout continues |
| `ScsiProofs` `DriverImplements` | driver, channel and chip refine `BlockDevice` | from `DrvInv`: the last byte of the data (or the select of an empty request) maps to Perform, the flush to Complete, a reset to GiveUp, every other step to a stutter; a WRITE changes the disk only in that one step |
| `CacheModelProofs` `CacheInvisible` | the CPU's own operations refine `FlatMemory`, aliasing included | lines sit in their set and clean lines equal DRAM; each operation maps to a load, a store or a stutter |
| `CacheModelProofs` `DetectorSound` | with devices: types, placement, `CleanMatches` | the same with the bytes of `behind` excepted |
| `CacheModelProofs` `StoresAreKept`, `CpuIsCoherent`, `DmaIsSeen` | the action properties of `MCCacheModel` | from that invariant, operation by operation: what a fill, a write-back and an invalidation do to the view of a byte |
| `TlbProofs` `MicroTlbCoherent`, `TranslationExact`, `HandlerProbe`, `ProbeAgrees`, `WiredEntriesKept` | the properties of `MCTlb` | every valid entry is what the search gives now; it survives a change of ASID because the tag holds the ASID, and a TLB write because that flushes |
| `CpuProofs` `TypeCorrect`, `ReservationSound`, `PreciseExceptions` | `TypeOK` and the safety properties of `MCCpu` | types, EXL set exactly in handler code, what a delay slot may hold, and the reservation; every step maps to an instruction, an annulled slot or a stutter |
| `HostProofs` `LockstepTypes`, `LockstepCorrect` | types and `LockstepExact`, for every limit, hash interval, set of differing instructions and segment left by ended processes | `LockInv`: the attach count is that of the processes, and once the segment is cleared the pair is in one of seven stages of the handshake, each of which fixes both semaphores, who owns the record and whose instruction it holds; one lemma per step of either process |
| `HostProofs` `SidecarExact` | `DeltaExact`, for every disk and any number of writes, flushes and ends of a process | `DeltaInv`: a file cut short is a prefix of the items of the overlay it was written from, any other one holds all of the overlay last saved; a prefix loads as a part of that overlay because each block has one record |
| `HostProofs` `ResumeExact` | `CheckpointExact`, for every set of pages, boot contents and length of the run | the file holds a state of the undisturbed run at a safe boundary; what it leaves out (reservation, delay slot, zero pages of a clean boot) is what a safe boundary determines |
| `HostProofs` `DebuggerIsExact` | `DebuggerExact`, for any number of clients and commands | an invariant over both sockets: who is attached, what is under way to and from it, and which request it answers |
| `DeviceProofs` `ConsoleIsInOrder` | `ConsoleInOrder` in `Ioc2`, for every ring and input | `SccInv`: types, the pointers differ by the count; a poll appends what fits, a read removes the oldest, modulo the ring |
| `DeviceProofs` `CalibrationIsExact` | `CalibrationExact` in `Ioc2` | `T2Inv`: at each place of the loop, how long ago the counter was loaded and what each byte read so far says of it; `Count` does not wrap twice because one count-down is shorter than its range |
| `DeviceProofs` `KeysAreInOrder` | `KeysInOrder` in `Ioc2`, for every script, window event and command | `KbdInv`: types, and the key bytes in the controller and the host are those unread; replies and mouse bytes are no key events, so every command leaves the sequence alone, and `refill` moves its head |
| `DeviceProofs` `PointerIsTracked` | `PointerTracks` in `Ioc2`, for every script, packet size and command | `PtrInv`: behind what the guest has of its packet, the bytes from the mouse are those of whole packets and one-byte replies; each such unit is one term of a sum, and taking one from the queue, reading one and cutting a motion into packets leave host position = terms sent + terms under way |
| `EnetProofs` `FramesAreKept` | `RxStream` in `Ioc2`, for every ring, buffer size and mix of frames | `RxInv`: from the driver's descriptor on, the filled ones are consecutive and the channel's next is the one after them; filling one, handing one back, staging and the poll each move bytes along `due` without changing it |
| `EnetProofs` `FramesLeaveInOrder` | `TxInOrder` in `Ioc2`, for every ring, packet and split of it into descriptors, wherever a latency comes with ENET_HEADETXD | `TxInv`: the packets not reclaimed lie one behind the other in the ring and take no more than the ring; from the first unsent one on, each holds its frame whole and ends in its only EOX; the channel is between packets or within the first, whose bytes so far the chip has and whose head shows no ETXD. A walk takes it one descriptor, or to the end of the packet; `UsedTx` is the length of that stretch, so a new packet overwrites none |
| `GraphicsProofs` `GfxKernelAgrees` | `KernelAgrees`, for every size of framebuffer and kernel, every mode and every program of accesses, wherever no shaded pixel is drawn in a host or fast-clear colour (`[]Unmixed`, the case `MCKernelExact` shows to differ) | `TwinInv`: the two boards differ in the option alone. `SegmentIs`: the plan, the carved ranges and the kernel draw each pixel of a segment as its step alone does, because steps on different words commute; hence spans, blocks, copies, the host port, register accesses, DCB and DMA leave twins twins |
| `GraphicsProofs` `GfxLinesExact` | `LineExact`, for every board, coordinate size and pair of end points on the screen | `LineInv`: access by access, which registers hold the line's modes and ends on an empty screen. After k steps `do_iline` has moved m along the shorter axis and its error term is `2*(minor*k - major*m) + 2*minor - major` (`Near` bounds it), so pixel k lies within half a pixel of the line, different steps draw different pixels and the last one is the end; wrapping and the fractional bits of coordinates change nothing on the screen |

Where a step adds up what a recursive function or an unbounded sequence holds,
the proof goes by induction over the naturals, on the set of numbers for which
the claim holds (`NatSetInduction` in `HostProofs`, `DeviceProofs` and `EnetProofs`, `UpTo` in `GraphicsProofs`). The folds of the community
modules are recursive functions under a CHOOSE: for each fold in the way of `KbdInv`,
`PtrInv`, `RxInv` and `TxInv`, a lemma shows that the function exists (`RxWalkIs`, `ScriptWalk`, `SumWalk`, ...), and the
steps it folds over keep the invariant one by one.

*Assumptions about constants.* They say what a type or the hardware says (bytes,
bits, sizes), except: `LayoutAssumption`, that the guest's chains describe the
request's buffer, none of them empty and long enough together (`Layout` names the
descriptors a request goes through; the chip reaches them by `nbdp`);
`RequestAssumption`, that with direct writes a request lies within the image,
beyond which writes are dropped; `I8254Assumption`, that a full count-down of
counter 2 takes less than the range of Count (65536 * 50 < 2^32 in the code);
`ScriptAssumption`, that the text of a script is made of keys and that a motion's
step is at least 1, as its parser makes it; `ShapeAssumption`, that the driver sends no
packet shorter than the 14 bytes below which the chip drops it; `JobAssumption`, that a
driver's program writes values that fit their registers, and starts no command by the write
that sets a mode; `LineAssumption` and `ScreenAssumption`, that a driver's lines end on the
screen, which lies within the framebuffer and the range of coordinates; `FlowAssumption` and `ModeAssumption` of `Cpu`, the discipline of handlers stated in
section 2.

Only model-checked:
- liveness (`RequestEnds`, `PumpReturns`, `InterruptTaken`, `TimerComes`, `NoStorm`,
  `PacketsLeave`): the prover has
  no fairness;
- `BlitExact`, `FrameExact`: each follows one job of the driver through all its
  accesses, the packing of pixels in the host port, the order of an overlapping copy, the
  run-length tables of the video timing. `GfxKernelAgrees` carries what these show of one
  span path to the other.

The theorems about devices are about `Ioc2`'s `Spec`, those of `GraphicsProofs` about
`GfxSpec`; `Machine` composes both. `Newport` takes the engine's answer to GO as the
constant operator `DrawCommand`; both configurations make it `do_command` of `Rex3`, and that is
`EngineOnGo`, the hypothesis of `GfxKernelAgrees` and `GfxLinesExact`.

`FramesLeaveInOrder` leaves out a latency without ENET_HEADETXD: the head of a packet
then shows ETXD before the packet is out, so the driver may reuse its descriptors and the wire
see something else. `MCOptions` holds one option of each kind the theorem covers.

## 6. Not modelled

See `components` in `PROJECT.json`. Not modelled at all: integer and FP arithmetic,
which is host arithmetic instruction by instruction; loaders, firmware tables,
options, printing and traces; the SDL window. Omissions within modelled parts:
contents of device replies, of the EEPROM and of the memory controller's
identification registers; blending and draw capture in Newport; memory and query
packets of the debugger; registers of the CPU, so BLTZAL's late link write; page
tables (refill handlers are any code); writes of the guest to Count; a lockstep process of
an earlier run that is still attached, which `shmServer` would take for the client;
debugging switches.

## 7. Plan

1. Data path operators: overflow, unaligned merges against their definitions.
2. Blending, and the window's event queue.
