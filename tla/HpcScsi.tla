------------------------------- MODULE HpcScsi -------------------------------
(***************************************************************************)
(* The HPC3 SCSI DMA channels (sgi_hpc.cc) driving the WD33C93.            *)
(*                                                                         *)
(* A guest store to a device register runs the whole handler before the    *)
(* next instruction.  When the handler pumps a channel, scsi_run_dma()     *)
(* walks the descriptor chain until it can make no more progress: that     *)
(* loop is modelled one iteration per step, with pump naming the channel   *)
(* being pumped, and no guest step is possible until the pump has stopped. *)
(*                                                                         *)
(* The guest here is arbitrary: it may touch any register in any order.    *)
(* ScsiDriver restricts it to what a disk driver does.                     *)
(***************************************************************************)
EXTENDS Wd33c93

CONSTANTS
  Channels,    \* HD0 and HD1: both reach the one chip, HD0 (0) serves its DRQ
  MemSize,     \* bytes of DRAM the descriptors may point into
  Desc,        \* the descriptor table the guest has built in DRAM
  PioWrites,   \* <<register, byte>> pairs the guest may write to the chip
  PioReads,    \* registers of the chip the guest may read
  BcWrites,    \* <<eox, xie>> flags the guest may write to a byte-count register
  CtrlWrites,  \* values the guest may write to a channel's control register
  NoPump

HD0 == 0

Descriptor == [cbp : Nat, count : Nat, eox : BOOLEAN, xie : BOOLEAN, nbdp : DOMAIN Desc]

ASSUME ChannelsAssumption == HD0 \in Channels /\ NoPump \notin Channels
ASSUME MemAssumption == MemSize \in Nat
ASSUME DescAssumption ==
  /\ Desc \in [DOMAIN Desc -> Descriptor]
  /\ \A d \in DOMAIN Desc : Desc[d].cbp + Desc[d].count <= MemSize
  /\ 0 \in DOMAIN Desc
ASSUME BcAssumption == BcWrites \subseteq BOOLEAN \X BOOLEAN
ASSUME PioAssumption == PioWrites \subseteq (0..31) \X (0..255) /\ PioReads \subseteq 0..31

VARIABLES
  dma,      \* scsi_dma[ch]
  intstat,  \* the channels whose SCSI interrupt bit is latched
  pump,     \* the channel scsi_run_dma() is pumping
  mem       \* DRAM

hpcVars == <<dma, intstat, pump, mem>>
vars == <<chipVars, hpcVars>>

CtrlBits == {"IRQ", "DIR", "FLUSH", "ACTIVE", "AMASK", "CRESET"}
States == {"CH_IDLE", "CH_FETCH", "CH_XFER", "CH_DESC_DONE"}
Addr == 0..(MemSize - 1)

ASSUME CtrlAssumption == CtrlWrites \subseteq SUBSET CtrlBits

Channel ==
  [cbp : Nat, count : Nat, eox : BOOLEAN, xie : BOOLEAN, nbdp : DOMAIN Desc,
   ctrl : SUBSET CtrlBits, active : BOOLEAN, to_device : BOOLEAN, state : States]

-----------------------------------------------------------------------------
\* Register accesses of the guest.  None is possible while a pump runs.

CpuRuns == pump = NoPump

\* Seeded fault: a chip command does not pump the waiting channel.
PioWrite_NoPump(port, v) ==
  /\ CpuRuns
  /\ pio_w(port, v)
  /\ UNCHANGED hpcVars

\* A store to the chip's window; a COMMAND write may raise DRQ, which HD0
\* services if armed.
PioWrite(port, v) ==
  /\ CpuRuns
  /\ pio_w(port, v)
  /\ pump' = IF dma[HD0].active /\ drq' THEN HD0 ELSE NoPump
  /\ UNCHANGED <<dma, intstat, mem>>

PioRead ==
  /\ CpuRuns
  /\ pio_r
  /\ UNCHANGED hpcVars

NbdpWrite(ch, d) ==
  /\ CpuRuns
  /\ dma' = [dma EXCEPT ![ch].nbdp = d]
  /\ UNCHANGED <<chipVars, intstat, pump, mem>>

\* The byte-count register holds the flags; the live count is not reloaded.
BcWrite(ch, eox, xie) ==
  /\ CpuRuns
  /\ dma' = [dma EXCEPT ![ch].eox = eox, ![ch].xie = xie]
  /\ UNCHANGED <<chipVars, intstat, pump, mem>>

\* Seeded fault: AMASK does not protect the ACTIVE bit.
NewCtrl_Unmasked(d, x) == x \ {"IRQ", "AMASK"}

\* ctrl after the AMASK rule: with AMASK set the ACTIVE bit is write-protected.
NewCtrl(d, x) ==
  IF "AMASK" \in x
  THEN (x \ {"IRQ", "ACTIVE", "AMASK"}) \cup (IF d.active THEN {"ACTIVE"} ELSE {})
  ELSE x \ {"IRQ", "AMASK"}

NewActive(d, x) == IF "AMASK" \in x THEN d.active ELSE "ACTIVE" \in x

\* Arm, stop, change direction; FLUSH wins over arming.
Armed(d, x) ==
  LET flush == "FLUSH" \in x
      active == NewActive(d, x) /\ ~flush
  IN [d EXCEPT !.ctrl = IF flush THEN NewCtrl(d, x) \ {"ACTIVE"} ELSE NewCtrl(d, x),
               !.active = active,
               !.to_device = "DIR" \in x,
               !.state = IF flush THEN "CH_IDLE"
                         ELSE IF ~d.active /\ active THEN "CH_FETCH" ELSE d.state]

CtrlWrite(ch, x) ==
  /\ CpuRuns
  /\ dma' = [dma EXCEPT ![ch] = Armed(dma[ch], x)]
  /\ IF "CRESET" \in x THEN reset(regs, {}, FALSE) ELSE UNCHANGED chipVars
  /\ pump' = IF Armed(dma[ch], x).active THEN ch ELSE NoPump
  /\ UNCHANGED <<intstat, mem>>

\* Reading ctrl acknowledges the channel's interrupt.
CtrlRead(ch) ==
  /\ CpuRuns
  /\ intstat' = intstat \ {ch}
  /\ UNCHANGED <<chipVars, dma, pump, mem>>

Store(a, v) ==
  /\ CpuRuns
  /\ mem' = [mem EXCEPT ![a] = v]
  /\ UNCHANGED <<chipVars, dma, intstat, pump>>

-----------------------------------------------------------------------------
\* scsi_run_dma(), one loop iteration per step.

Pumping(ch) == pump = ch /\ dma[ch].active

scsi_fetch_chain(ch) ==
  /\ Pumping(ch) /\ dma[ch].state = "CH_FETCH"
  /\ LET d == Desc[dma[ch].nbdp] IN
     dma' = [dma EXCEPT ![ch].cbp = d.cbp, ![ch].count = d.count,
                        ![ch].eox = d.eox, ![ch].xie = d.xie,
                        ![ch].nbdp = d.nbdp, ![ch].state = "CH_XFER"]
  /\ UNCHANGED <<chipVars, intstat, pump, mem>>

\* Seeded fault: the byte count is not counted down.
XferByte_Uncounted(ch) ==
  /\ Pumping(ch) /\ dma[ch].state = "CH_XFER" /\ dma[ch].count # 0 /\ drq
  /\ IF dma[ch].to_device
     THEN dma_w(mem[dma[ch].cbp]) /\ UNCHANGED mem
     ELSE dma_r /\ mem' = [mem EXCEPT ![dma[ch].cbp] = dma_r_value]
  /\ dma' = [dma EXCEPT ![ch].cbp = @ + 1]
  /\ UNCHANGED <<intstat, pump>>

\* Seeded fault: a byte is moved without looking at DRQ.
XferByte_Blind(ch) ==
  /\ Pumping(ch) /\ dma[ch].state = "CH_XFER" /\ dma[ch].count # 0
  /\ IF dma[ch].to_device
     THEN dma_w(mem[dma[ch].cbp]) /\ UNCHANGED mem
     ELSE dma_r /\ mem' = [mem EXCEPT ![dma[ch].cbp] = dma_r_value]
  /\ dma' = [dma EXCEPT ![ch].cbp = @ + 1, ![ch].count = @ - 1]
  /\ UNCHANGED <<intstat, pump>>

XferByte(ch) ==
  /\ Pumping(ch) /\ dma[ch].state = "CH_XFER" /\ dma[ch].count # 0 /\ drq
  /\ IF dma[ch].to_device
     THEN dma_w(mem[dma[ch].cbp]) /\ UNCHANGED mem
     ELSE dma_r /\ mem' = [mem EXCEPT ![dma[ch].cbp] = dma_r_value]
  /\ dma' = [dma EXCEPT ![ch].cbp = @ + 1, ![ch].count = @ - 1]
  /\ UNCHANGED <<intstat, pump>>

\* Seeded fault: the end of a descriptor does not change the state.
XferDone_Stuck(ch) ==
  /\ Pumping(ch) /\ dma[ch].state = "CH_XFER" /\ dma[ch].count = 0
  /\ UNCHANGED vars

XferDone(ch) ==
  /\ Pumping(ch) /\ dma[ch].state = "CH_XFER" /\ dma[ch].count = 0
  /\ dma' = [dma EXCEPT ![ch].state = "CH_DESC_DONE"]
  /\ UNCHANGED <<chipVars, intstat, pump, mem>>

\* End of a descriptor: latch XIE; at EOX pause an unfinished data phase and
\* deactivate, else go on to the next descriptor.
DescDone(ch) ==
  /\ Pumping(ch) /\ dma[ch].state = "CH_DESC_DONE"
  /\ intstat' = IF dma[ch].xie THEN intstat \cup {ch} ELSE intstat
  /\ IF dma[ch].eox
     THEN /\ IF residual > 0 THEN pause_transfer ELSE UNCHANGED chipVars
          /\ dma' = [dma EXCEPT ![ch].active = FALSE, ![ch].state = "CH_IDLE",
                                ![ch].ctrl = @ \ {"ACTIVE"}]
     ELSE /\ dma' = [dma EXCEPT ![ch].state = "CH_FETCH"]
          /\ UNCHANGED chipVars
  /\ UNCHANGED <<pump, mem>>

\* No progress: the channel is off, idle, or waits for DRQ inside a descriptor.
PumpStop(ch) ==
  /\ pump = ch
  /\ \/ ~dma[ch].active
     \/ dma[ch].state = "CH_IDLE"
     \/ dma[ch].state = "CH_XFER" /\ dma[ch].count # 0 /\ ~drq
  /\ pump' = NoPump
  /\ UNCHANGED <<chipVars, dma, intstat, mem>>

scsi_run_dma ==
  \E ch \in Channels :
    \/ scsi_fetch_chain(ch) \/ XferByte(ch) \/ XferDone(ch)
    \/ DescDone(ch) \/ PumpStop(ch)

-----------------------------------------------------------------------------
HpcInit ==
  /\ dma \in [Channels ->
        [cbp : {0}, count : {0}, eox : {FALSE}, xie : {FALSE}, nbdp : {0},
         ctrl : {{}}, active : {FALSE}, to_device : {FALSE}, state : {"CH_IDLE"}]]
  /\ intstat = {} /\ pump = NoPump
  /\ mem = [a \in Addr |-> Zero]

Init == ChipInit /\ HpcInit

Guest ==
  \/ \E w \in PioWrites : PioWrite(0, w[1]) \/ (sasr = w[1] /\ PioWrite(1, w[2]))
  \/ \E r \in PioReads : PioWrite(0, r) \/ (sasr = r /\ PioRead)
  \/ \E ch \in Channels :
       \/ \E d \in DOMAIN Desc : NbdpWrite(ch, d)
       \/ \E f \in BcWrites : BcWrite(ch, f[1], f[2])
       \/ \E x \in CtrlWrites : CtrlWrite(ch, x)
       \/ CtrlRead(ch)
  \/ \E a \in Addr, v \in Data : Store(a, v)

Next == Guest \/ scsi_run_dma

\* The pump is a loop of the handler: it runs to its end.
Spec == Init /\ [][Next]_vars /\ WF_vars(scsi_run_dma)

-----------------------------------------------------------------------------
(***************************************************************************)
(* What must hold whatever the guest does to the registers.                *)
(***************************************************************************)

\* The chip's and the channels' state stays well-typed; in particular a
\* channel never points outside the buffer its descriptor gave it.
TypeOK ==
  /\ ChipTypeOK
  /\ dma \in [Channels -> Channel]
  /\ intstat \subseteq Channels
  /\ pump \in Channels \cup {NoPump}
  /\ mem \in [Addr -> Data]
  /\ \A ch \in Channels : dma[ch].cbp + dma[ch].count <= MemSize

\* An open data phase always has bytes left to move, and DRQ is only up inside
\* one: finish() and reset() never leave a drained or dead buffer requesting.
DataPhase ==
  /\ phase # "IDLE" => pos < Len(buf)
  /\ drq => phase # "IDLE"

\* The ACTIVE bit a driver polls is the channel's own active flag, and an active
\* channel is never in CH_IDLE, where scsi_run_dma() would ignore it for ever.
ActiveAgree ==
  \A ch \in Channels :
    /\ "ACTIVE" \in dma[ch].ctrl <=> dma[ch].active
    /\ dma[ch].active => dma[ch].state # "CH_IDLE"

\* No lost DRQ: when channel HD0 is armed and no longer pumped it is the channel
\* that waits for the device, inside a descriptor and with DRQ down.  Were DRQ
\* up, nothing would ever call scsi_run_dma() for it again.
NoLostDrq ==
  dma[HD0].active /\ pump # HD0 =>
    dma[HD0].state = "CH_XFER" /\ dma[HD0].count > 0 /\ ~drq

\* A chain that ends (EOX) under an open data phase tells the guest so: the
\* channel does not go inactive with the transfer unfinished and no INTRQ.
NoSilentEnd ==
  [][\A ch \in Channels : pump = ch /\ dma[ch].active /\ ~dma'[ch].active =>
       phase' = "IDLE" \/ (intrq' /\ ~drq')]_vars

\* Once its first byte has moved, a transfer is only continued or given up: no
\* command rewinds the cursor, re-reads the disk under it or retargets it.
ResumeContinues ==
  [][phase # "IDLE" /\ pos > 0 /\ phase' # "IDLE" =>
       /\ phase' = phase /\ pos' \in {pos, pos + 1} /\ wr_lba' = wr_lba
       /\ Len(buf') = Len(buf)
       /\ \A k \in 1..Len(buf) : buf'[k] # buf[k] => phase = "DATA_OUT" /\ k = pos + 1]_vars

\* The claim of sgi_scsi.hh on finish(), "data phase drained -> status +
\* INTRQ": the disk changes only once every byte of the WRITE has arrived.
WriteDrained == [][diskVars' # diskVars => pos' = Len(buf')]_vars

\* The claim in select_and_transfer(), "Selecting any other target ID gets a
\* selection timeout": also while a transfer of the disk is paused, when the
\* select must not move the disk's data to whoever asked another target for it.
AbsentTimesOut ==
  [][\A c \in CMD_SEL :
       sasr = WD_COMMAND /\ Target(regs) # DISK_TARGET /\ PioWrite(1, c)
         => regs'[WD_SCSI_STATUS] = ST_TIMEOUT]_vars

\* A chain without an end whose bytes the chip neither gives nor takes: each of
\* its descriptors is empty, or the channel runs against the data phase.
Endless(ch) ==
  LET against == drq /\ (dma[ch].to_device <=> phase = "DATA_IN")
  IN \E loop \in SUBSET DOMAIN Desc :
       /\ dma[ch].nbdp \in loop
       /\ \A d \in loop : ~Desc[d].eox /\ Desc[d].nbdp \in loop /\ (Desc[d].count = 0 \/ against)

\* scsi_run_dma() returns, so that the register write that called it does: a chain
\* that runs in a circle is left when the data phase has no more bytes, except on
\* one that moves none.
PumpReturns == \A ch \in Channels : pump = ch ~> pump = NoPump \/ Endless(ch)
=============================================================================
