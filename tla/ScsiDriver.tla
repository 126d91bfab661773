----------------------------- MODULE ScsiDriver ------------------------------
(***************************************************************************)
(* A disk driver on top of the WD33C93 and HPC3 models: the guest of       *)
(* HpcScsi reduced to the protocol the comments of sgi_scsi.cc and         *)
(* sgi_hpc.cc describe.  The driver programs the CDB, arms the DMA channel *)
(* and issues SELECT-AND-TRANSFER in either order, answers the             *)
(* transfer-paused interrupt of a chunked request with a fresh chain and a *)
(* second SELECT, flushes the channel when the request is done, and may    *)
(* reset both at any time.                                                 *)
(***************************************************************************)
EXTENDS HpcScsi

CONSTANTS
  Requests,  \* [op, lba, n, base, chains]: n blocks at lba, to or from the
             \* buffer at base, as one descriptor chain per chunk
  Layout,    \* of a request: its <<chunk, descriptor>> pairs, as far as its data goes
  Fills,     \* the DRAM bytes the guest changes between requests
  None

ASSUME FillAssumption == Fills \subseteq Addr
ASSUME RequestAssumption ==
  \A r \in Requests :
    /\ r # None
    /\ r.op \in {READ10, WRITE10} /\ r.lba \in Byte /\ r.n \in Byte
    /\ r.base \in Nat /\ r.base + r.n * BlockSize <= MemSize
    /\ r.chains \in Seq(DOMAIN Desc)
    /\ DirectWrite /\ r.op = WRITE10 => r.lba + r.n <= NBlocks

\* The driver's chains describe the request's buffer: each descriptor starts
\* where the one before it ends, in its chunk or at the end of the chunk before,
\* none is empty, and they do not end before the data does.
ASSUME LayoutAssumption ==
  \A r \in Requests :
    /\ Layout[r] \subseteq (DOMAIN r.chains) \X (DOMAIN Desc)
    /\ <<1, r.chains[1]>> \in Layout[r] /\ Desc[r.chains[1]].cbp = r.base
    /\ \A c \in DOMAIN r.chains, d \in DOMAIN Desc :
         <<c, d>> \in Layout[r] =>
           LET end == Desc[d].cbp + Desc[d].count
               more == end < r.base + r.n * BlockSize
           IN /\ Desc[d].count > 0
              /\ more /\ ~Desc[d].eox =>
                   <<c, Desc[d].nbdp>> \in Layout[r] /\ Desc[Desc[d].nbdp].cbp = end
              /\ more /\ Desc[d].eox =>
                   /\ c + 1 \in DOMAIN r.chains /\ <<c + 1, r.chains[c + 1]>> \in Layout[r]
                   /\ Desc[r.chains[c + 1]].cbp = end

VARIABLES
  req,    \* the request in hand
  at,     \* where the driver is in serving it
  step,   \* register stores done
  todo,   \* of {"arm", "select"}, what the current chunk still needs
  chunk,  \* the chunk being moved
  reply   \* what the last completed read left in the buffer

drvVars == <<req, at, step, todo, chunk, reply>>
allVars == <<vars, drvVars>>

IsWrite(r) == r.op = WRITE10

\* The register stores that program a request: <<port, byte>>.
Script(r) ==
  <<<<0, WD_CDB>>, <<1, r.op>>, <<1, 0>>, <<1, 0>>, <<1, 0>>, <<1, 0>>, <<1, r.lba>>,
    <<1, 0>>, <<1, 0>>, <<1, r.n>>,
    <<0, WD_TARGET_LUN>>, <<1, 0>>, <<0, WD_DEST_ID>>, <<1, DISK_TARGET>>>>

\* The buffer of a request, block by block.
Buffer(r) ==
  [i \in 0..(r.n - 1) |-> [j \in 1..BlockSize |-> mem[r.base + i * BlockSize + j - 1]]]

-----------------------------------------------------------------------------
Start(r) ==
  /\ at = "idle"
  /\ req' = r /\ at' = "program" /\ reply' = None
  /\ UNCHANGED <<vars, step, todo, chunk>>

Program ==
  /\ at = "program"
  /\ LET w == Script(req)[step + 1] IN PioWrite(w[1], w[2])
  /\ step' = step + 1
  /\ at' = IF step + 1 = Len(Script(req)) THEN "chain" ELSE at
  /\ UNCHANGED <<req, todo, chunk, reply>>

SetChain ==
  /\ at = "chain"
  /\ NbdpWrite(HD0, req.chains[chunk])
  /\ at' = "issue" /\ todo' = {"arm", "select"}
  /\ UNCHANGED <<req, step, chunk, reply>>

Arm ==
  /\ at = "issue" /\ "arm" \in todo
  /\ CtrlWrite(HD0, {"ACTIVE"} \cup (IF IsWrite(req) THEN {"DIR"} ELSE {}))
  /\ todo' = todo \ {"arm"}
  /\ UNCHANGED <<req, at, step, chunk, reply>>

PointAtCommand ==
  /\ at = "issue" /\ "select" \in todo /\ sasr # WD_COMMAND
  /\ PioWrite(0, WD_COMMAND)
  /\ UNCHANGED drvVars

Select ==
  /\ at = "issue" /\ "select" \in todo /\ sasr = WD_COMMAND
  /\ PioWrite(1, 8)
  /\ todo' = todo \ {"select"}
  /\ UNCHANGED <<req, at, step, chunk, reply>>

\* INTRQ: read SCSI STATUS, which acknowledges it.
Interrupted ==
  /\ at = "issue" /\ todo = {} /\ intrq
  /\ PioWrite(0, WD_SCSI_STATUS)
  /\ at' = "status"
  /\ UNCHANGED <<req, step, todo, chunk, reply>>

ReadStatus ==
  /\ at = "status"
  /\ PioRead
  /\ \/ /\ regs[WD_SCSI_STATUS] = ST_SUCCESS
        /\ at' = "done" /\ UNCHANGED chunk
     \/ /\ regs[WD_SCSI_STATUS] \in {ST_PAUSED_IN, ST_PAUSED_OUT}
        /\ at' = "chain" /\ chunk' = chunk + 1
  /\ UNCHANGED <<req, step, todo, reply>>

\* Stop the channel (a chain longer than the data is still armed) and finish.
Flush ==
  /\ at = "done"
  /\ CtrlWrite(HD0, {"FLUSH"})
  /\ reply' = IF IsWrite(req) THEN None ELSE Buffer(req)
  /\ req' = None /\ at' = "idle" /\ step' = 0 /\ todo' = {} /\ chunk' = 1

\* A bus reset of a request in progress: chip and channel together.
Abort ==
  /\ at \in {"chain", "issue", "status"}
  /\ CtrlWrite(HD0, {"CRESET", "FLUSH"})
  /\ req' = None /\ at' = "idle" /\ step' = 0 /\ todo' = {} /\ chunk' = 1
  /\ UNCHANGED reply

\* Between requests the guest prepares the next buffer.
Fill ==
  /\ at = "idle"
  /\ \E a \in Fills, v \in Data : Store(a, v)
  /\ UNCHANGED drvVars

Pump == scsi_run_dma /\ UNCHANGED drvVars

Serve ==
  Program \/ SetChain \/ Arm \/ PointAtCommand \/ Select \/ Interrupted \/ ReadStatus \/ Flush

DrvInit ==
  /\ Init
  /\ req = None /\ at = "idle" /\ step = 0 /\ todo = {} /\ chunk = 1 /\ reply = None

DrvNext == (\E r \in Requests : Start(r)) \/ Serve \/ Abort \/ Fill \/ Pump

\* The driver's code runs, and so does the handler's pump.
DrvSpec == DrvInit /\ [][DrvNext]_allVars /\ WF_allVars(Serve) /\ WF_allVars(Pump)

-----------------------------------------------------------------------------
\* Every request the driver starts is over some day: no order of arming and
\* selecting, no chunk boundary and no reset leaves chip and channel waiting
\* for each other without an interrupt.
RequestEnds == req # None ~> req = None

\* The driver never runs out of chunks: the chip pauses only where a chain ended
\* short of the command's length, and never asks for more than was left.
ChunksSuffice == at # "idle" => chunk <= Len(req.chains)

\* A finished request leaves nothing behind for the next one to resume or serve.
CleanIdle ==
  at = "idle" => phase = "IDLE" /\ ~drq /\ ~intrq /\ ~dma[HD0].active /\ pump = NoPump

-----------------------------------------------------------------------------
\* The refinement: chip, channel and driver together are a block device.

DiskLbas == UNION {r.lba .. (r.lba + r.n - 1) : r \in Requests}

\* The abstract state as the concrete one shows it.
BdStore == [l \in DiskLbas |-> BlockRead(l)]
BdStage == IF req = None THEN "idle"
           ELSE IF at = "done" \/ (intrq /\ regs[WD_SCSI_STATUS] = ST_SUCCESS)
           THEN "performed" ELSE "open"
BdData == IF req # None /\ IsWrite(req) THEN Buffer(req) ELSE None

BD == INSTANCE BlockDevice WITH
  Lbas <- DiskLbas, Contents <- Block, Writes <- IsWrite,
  store <- BdStore, stage <- BdStage, data <- BdData

\* Reads return the disk's contents and writes are atomic, across chunks, resets
\* and either order of arming and selecting.
ImplementsBlockDevice == BD!Spec
=============================================================================
