------------------------------- MODULE Wd33c93 -------------------------------
(***************************************************************************)
(* The fused WD33C93A SCSI controller and its one disk (sgi_scsi.cc).      *)
(*                                                                         *)
(* The CPU sees an indirect register file behind two byte ports (SASR      *)
(* selects, SCMD reads or writes and auto-increments); the HPC3 DMA engine *)
(* sees a byte port that moves while DRQ is up.  Registers keep their real *)
(* numbers and byte values; a byte of payload is an element of Data and a  *)
(* disk block is BlockSize of them (512 in the code).                      *)
(*                                                                         *)
(* The operators below are actions on the chip's own variables.  They are  *)
(* composed with the HPC3 SCSI DMA channels in HpcScsi.                    *)
(***************************************************************************)
EXTENDS Integers, Sequences

CONSTANTS
  BlockSize,    \* bytes per disk block
  NBlocks,      \* blocks of the backing image
  Data,         \* what a payload byte can be
  Zero,         \* the byte 0x00
  DirectWrite,  \* --disk-write: writes go to the image instead of the overlay
  Image0,       \* the disk image the simulator is started with
  InquiryData, SenseData, CapacityData, ModeData   \* the canned replies

ASSUME BlockSizeAssumption == BlockSize \in Nat \ {0}
ASSUME NBlocksAssumption == NBlocks \in Nat
ASSUME DataAssumption == Zero \in Data
ASSUME DirectAssumption == DirectWrite \in BOOLEAN
ASSUME ImageAssumption == Image0 \in [0..(NBlocks - 1) -> [1..BlockSize -> Data]]
ASSUME ReplyAssumption ==
  /\ InquiryData \in Seq(Data)
  /\ SenseData \in [{"NO_SENSE", "ILLEGAL_REQUEST"} -> Seq(Data)]
  /\ CapacityData \in Seq(Data)
  /\ ModeData \in Seq(Data)

VARIABLES
  regs,        \* registers 0x00..0x1e
  aux,         \* register 0x1f (AUX STATUS), as the set of its bits
  sasr,        \* the indirect register pointer
  phase,       \* phase_t: the data phase the DMA engine interacts with
  buf, pos,    \* the data buffer and the DMA cursor into it
  drq, intrq,  \* the two request lines
  wr_lba,      \* where a pending WRITE goes
  sense,       \* what REQUEST SENSE will report
  tgt_status,  \* the target's STATUS byte
  image,       \* the backing disk image
  overlay      \* blocks written since start-up (copy on write)

xferVars == <<phase, buf, pos, drq, wr_lba>>
diskVars == <<image, overlay>>
chipVars == <<regs, aux, sasr, xferVars, intrq, sense, tgt_status, diskVars>>

-----------------------------------------------------------------------------
\* Register numbers, AUX STATUS bits, commands and status codes.

WD_OWN_ID == 0
WD_CDB == 3
WD_TARGET_LUN == 15
WD_COMMAND_PHASE == 16
WD_XFER_CNT_MSB == 18
WD_DEST_ID == 21
WD_SCSI_STATUS == 23
WD_COMMAND == 24
WD_AUX_STATUS == 31

AUX_CIP == 16
AUX_BSY == 32
AUX_INT == 128
AuxBits == {1, 2, 4, 8, AUX_CIP, AUX_BSY, 64, AUX_INT}
BitsOf(v) == {b \in AuxBits : (v \div b) % 2 = 1}

CMD_RESET == 0
CMD_SEL == {8, 9}           \* SEL_ATN_XFER, SEL_XFER
ST_SUCCESS == 22            \* 0x16 select-and-transfer success
ST_TIMEOUT == 66            \* 0x42 selection timeout
ST_PAUSED_OUT == 72         \* 0x48 unexpected data-out request
ST_PAUSED_IN == 73          \* 0x49 unexpected data-in request
GOOD == 0
CHECK_CONDITION == 2
DISK_TARGET == 1

REQUEST_SENSE == 3
INQUIRY == 18
MODE_SELECT == 21
MODE_SENSE == 26
READ_CAPACITY == 37
READ10 == 40
WRITE10 == 42
DataOps == {REQUEST_SENSE, INQUIRY, MODE_SELECT, MODE_SENSE, READ_CAPACITY,
            READ10, WRITE10}

Byte == 0..255
Block == [1..BlockSize -> Data]
Phases == {"IDLE", "DATA_IN", "DATA_OUT"}

-----------------------------------------------------------------------------
\* The disk: an image under a copy-on-write overlay.

ZeroBlock == [j \in 1..BlockSize |-> Zero]

\* Written blocks win; beyond the image the disk reads as zero.
BlockRead(lba) ==
  IF lba \in DOMAIN overlay THEN overlay[lba]
  ELSE IF lba < NBlocks THEN image[lba] ELSE ZeroBlock

\* Seeded fault: every block of a WRITE is the first one.
BlockOf_First(b, i) == [j \in 1..BlockSize |-> b[j]]

\* The i-th whole block of a data buffer.
BlockOf(b, i) == [j \in 1..BlockSize |-> b[i * BlockSize + j]]

\* The blocks a drained WRITE lands on: one for every whole block of the buffer.
Span(b, lba) == {lba + i : i \in {k \in 0..Len(b) : (k + 1) * BlockSize <= Len(b)}}

BlockWrite(b, lba) ==
  IF DirectWrite
  THEN /\ image' = [l \in DOMAIN image |->
                      IF l \in Span(b, lba) THEN BlockOf(b, l - lba) ELSE image[l]]
       /\ UNCHANGED overlay
  ELSE /\ overlay' = [l \in DOMAIN overlay \cup Span(b, lba) |->
                        IF l \in Span(b, lba) THEN BlockOf(b, l - lba)
                        ELSE overlay[l]]
       /\ UNCHANGED image

-----------------------------------------------------------------------------
\* Fields of the command descriptor block in a register file r.

Op(r) == r[WD_CDB]
Alloc(r) == r[WD_CDB + 4]
Lba(r) == ((r[WD_CDB + 2] * 256 + r[WD_CDB + 3]) * 256 + r[WD_CDB + 4]) * 256
            + r[WD_CDB + 5]
Blocks(r) == r[WD_CDB + 7] * 256 + r[WD_CDB + 8]
Lun(r) == r[WD_TARGET_LUN] % 8
Target(r) == r[WD_DEST_ID] % 8

\* The transfer count of registers 0x12..0x14, as complete() and
\* pause_transfer() leave it.
ZeroCount(r) == [r EXCEPT ![WD_XFER_CNT_MSB] = 0, ![WD_XFER_CNT_MSB + 1] = 0,
                          ![WD_XFER_CNT_MSB + 2] = 0]

\* Raise INTRQ and drop command-in-progress/busy.
Interrupt ==
  /\ intrq' = TRUE
  /\ aux' = (aux \ {AUX_CIP, AUX_BSY}) \cup {AUX_INT}

Busy == aux' = aux \cup {AUX_CIP, AUX_BSY}

-----------------------------------------------------------------------------
\* Data-phase transitions.

\* Seeded fault: a reset leaves the data phase open.
reset_KeepPhase(r, a, irq) ==
  /\ sasr' = 0 /\ drq' = FALSE
  /\ regs' = r /\ aux' = a /\ intrq' = irq
  /\ UNCHANGED <<phase, pos, buf, wr_lba, sense, tgt_status, diskVars>>

\* reset() is called by CMD_RESET, which then posts status and INTRQ, and by
\* the DMA channel's CRESET bit, which does not.
reset(r, a, irq) ==
  /\ sasr' = 0 /\ pos' = 0 /\ drq' = FALSE /\ phase' = "IDLE" /\ buf' = <<>>
  /\ regs' = r /\ aux' = a /\ intrq' = irq
  /\ UNCHANGED <<wr_lba, sense, tgt_status, diskVars>>

complete(r, status) ==
  /\ regs' = [ZeroCount(r) EXCEPT ![WD_SCSI_STATUS] = ST_SUCCESS,
                                  ![WD_TARGET_LUN] = status,
                                  ![WD_COMMAND_PHASE] = 96]
  /\ Interrupt

\* finish(): a drained WRITE(10) reaches the disk, then status and INTRQ.
\* r is the register file, b the buffer and lba the WRITE target at the call.
finish(r, b, lba, status) ==
  /\ IF phase = "DATA_OUT" /\ Op(r) = WRITE10 THEN BlockWrite(b, lba)
     ELSE UNCHANGED diskVars
  /\ phase' = "IDLE" /\ drq' = FALSE
  /\ buf' = b /\ wr_lba' = lba /\ tgt_status' = status
  /\ complete(r, status)

\* The transfer chain ended before the data phase did: interrupt, keep buf, pos.
pause_transfer ==
  /\ drq' = FALSE
  /\ regs' = [ZeroCount(regs) EXCEPT
                ![WD_SCSI_STATUS] = IF phase = "DATA_OUT" THEN ST_PAUSED_OUT
                                    ELSE ST_PAUSED_IN,
                ![WD_COMMAND_PHASE] = 70]
  /\ Interrupt
  /\ UNCHANGED <<sasr, phase, buf, pos, wr_lba, sense, tgt_status, diskVars>>

\* Seeded fault: only a read in progress counts as unfinished.
residual_InOnly == IF phase = "DATA_IN" THEN Len(buf) - pos ELSE 0

residual == IF phase = "IDLE" THEN 0 ELSE Len(buf) - pos

\* Seeded fault: an empty data phase is opened like any other.
begin_data_Empty(r, dir, b, lba) ==
  /\ pos' = 0 /\ phase' = dir /\ drq' = TRUE
  /\ buf' = b /\ wr_lba' = lba /\ tgt_status' = GOOD
  /\ regs' = r /\ Busy
  /\ UNCHANGED <<intrq, diskVars>>

\* begin_data_in / begin_data_out with a buffer b; an empty one completes at once.
begin_data(r, dir, b, lba) ==
  /\ pos' = 0
  /\ IF b = <<>> THEN finish(r, b, lba, GOOD)
     ELSE /\ phase' = dir /\ drq' = TRUE
          /\ buf' = b /\ wr_lba' = lba /\ tgt_status' = GOOD
          /\ regs' = r /\ Busy
          /\ UNCHANGED <<intrq, diskVars>>

-----------------------------------------------------------------------------
\* select_and_transfer(), with r the register file after the COMMAND write.

\* Seeded fault: an unfinished WRITE is not recognised.
CanResume_InOnly == phase = "DATA_IN" /\ pos > 0 /\ pos < Len(buf)

CanResume == phase \in {"DATA_IN", "DATA_OUT"} /\ pos > 0 /\ pos < Len(buf)

\* Seeded fault: a resumed transfer starts again from its first byte.
Resume_Rewound(r) ==
  /\ CanResume
  /\ regs' = r /\ Busy /\ drq' = TRUE /\ pos' = 0
  /\ UNCHANGED <<phase, buf, intrq, wr_lba, sense, tgt_status, diskVars>>

Resume(r) ==
  /\ CanResume
  /\ regs' = r /\ Busy /\ drq' = TRUE
  /\ UNCHANGED <<phase, buf, pos, intrq, wr_lba, sense, tgt_status, diskVars>>

SelectionTimeout(r) ==
  /\ ~CanResume /\ Target(r) # DISK_TARGET
  /\ regs' = [r EXCEPT ![WD_SCSI_STATUS] = ST_TIMEOUT, ![WD_COMMAND_PHASE] = 0]
  /\ Interrupt
  /\ UNCHANGED <<xferVars, sense, tgt_status, diskVars>>

AbsentLun(r) == Lun(r) # 0 /\ Op(r) # REQUEST_SENSE

NoSuchLun(r) ==
  /\ ~CanResume /\ Target(r) = DISK_TARGET /\ AbsentLun(r)
  /\ sense' = "ILLEGAL_REQUEST"
  /\ finish(r, buf, wr_lba, CHECK_CONDITION)
  /\ UNCHANGED pos

\* Truncated to the allocation length of the CDB.
Reply(data, alloc) == SubSeq(data, 1, IF alloc < Len(data) THEN alloc ELSE Len(data))

ReadBuffer(r) ==
  [k \in 1..(Blocks(r) * BlockSize) |->
     BlockRead(Lba(r) + ((k - 1) \div BlockSize))[((k - 1) % BlockSize) + 1]]

DataIn(r) ==
  CASE Op(r) = INQUIRY       -> Reply(InquiryData, Alloc(r))
    [] Op(r) = REQUEST_SENSE -> Reply(SenseData[sense], Alloc(r))
    [] Op(r) = READ_CAPACITY -> CapacityData
    [] Op(r) = MODE_SENSE    -> Reply(ModeData, Alloc(r))
    [] Op(r) = READ10        -> ReadBuffer(r)

Zeros(n) == [k \in 1..n |-> Zero]

Decode(r) ==
  /\ ~CanResume /\ Target(r) = DISK_TARGET /\ ~AbsentLun(r)
  /\ UNCHANGED sense
  /\ \/ /\ Op(r) \notin DataOps        \* TEST UNIT READY, START STOP, unknown
        /\ finish(r, buf, wr_lba, GOOD)
        /\ UNCHANGED pos
     \/ /\ Op(r) \in DataOps \ {MODE_SELECT, WRITE10}
        /\ begin_data(r, "DATA_IN", DataIn(r), wr_lba)
     \/ /\ Op(r) = MODE_SELECT
        /\ begin_data(r, "DATA_OUT", Zeros(Alloc(r)), wr_lba)
     \/ /\ Op(r) = WRITE10
        /\ begin_data(r, "DATA_OUT", Zeros(Blocks(r) * BlockSize), Lba(r))

select_and_transfer(r) ==
  /\ UNCHANGED sasr
  /\ Resume(r) \/ SelectionTimeout(r) \/ NoSuchLun(r) \/ Decode(r)

\* CMD_RESET: status 0x01 when OWN_ID has advanced features (bit 3) enabled.
CommandReset(r) ==
  reset([r EXCEPT ![WD_SCSI_STATUS] = (r[WD_OWN_ID] \div 8) % 2], {AUX_INT}, TRUE)

exec_command(r) ==
  LET cc == r[WD_COMMAND] % 128 IN
  \/ cc = CMD_RESET /\ CommandReset(r)
  \/ cc \in CMD_SEL /\ select_and_transfer(r)
  \/ /\ cc \notin CMD_SEL \cup {CMD_RESET}     \* XFER_INFO and unknown commands
     /\ regs' = r
     /\ UNCHANGED <<aux, sasr, xferVars, intrq, sense, tgt_status, diskVars>>

-----------------------------------------------------------------------------
\* The CPU's two byte ports.

\* Port 0 selects a register; port 1 writes it and auto-increments, except
\* COMMAND, whose write executes.
pio_w(port, v) ==
  \/ /\ port = 0
     /\ sasr' = v % 32
     /\ UNCHANGED <<regs, aux, xferVars, intrq, sense, tgt_status, diskVars>>
  \/ /\ port = 1 /\ sasr = WD_COMMAND
     /\ exec_command([regs EXCEPT ![WD_COMMAND] = v])
  \/ /\ port = 1 /\ sasr # WD_COMMAND
     /\ IF sasr = WD_AUX_STATUS THEN aux' = BitsOf(v) /\ UNCHANGED regs
        ELSE regs' = [regs EXCEPT ![sasr] = v] /\ UNCHANGED aux
     /\ sasr' = (sasr + 1) % 32
     /\ UNCHANGED <<xferVars, intrq, sense, tgt_status, diskVars>>

\* Reading port 0 (the live INTRQ/DRQ lines) has no effect.  Reading port 1
\* auto-increments, and reading SCSI STATUS acknowledges INTRQ.
pio_r ==
  /\ sasr' = (sasr + 1) % 32
  /\ IF sasr = WD_SCSI_STATUS
     THEN intrq' = FALSE /\ aux' = aux \ {AUX_INT}
     ELSE UNCHANGED <<intrq, aux>>
  /\ UNCHANGED <<regs, xferVars, sense, tgt_status, diskVars>>

-----------------------------------------------------------------------------
\* The DMA byte port.  Outside the matching data phase it moves nothing: a read
\* yields 0 and a write is dropped.

\* Seeded fault: the last byte does not end the transfer.
Advance_OffByOne(b) ==
  /\ pos' = pos + 1
  /\ IF pos + 1 > Len(b) THEN finish(regs, b, wr_lba, tgt_status)
     ELSE /\ buf' = b
          /\ UNCHANGED <<regs, aux, phase, drq, intrq, wr_lba, tgt_status, diskVars>>
  /\ UNCHANGED <<sasr, sense>>

Advance(b) ==
  /\ pos' = pos + 1
  /\ IF pos + 1 >= Len(b) THEN finish(regs, b, wr_lba, tgt_status)
     ELSE /\ buf' = b
          /\ UNCHANGED <<regs, aux, phase, drq, intrq, wr_lba, tgt_status, diskVars>>
  /\ UNCHANGED <<sasr, sense>>

dma_r_value ==
  IF phase = "DATA_IN" /\ pos < Len(buf) THEN buf[pos + 1] ELSE Zero

dma_r ==
  IF phase = "DATA_IN" /\ pos < Len(buf) THEN Advance(buf)
  ELSE UNCHANGED chipVars

dma_w(v) ==
  IF phase = "DATA_OUT" /\ pos < Len(buf) THEN Advance([buf EXCEPT ![pos + 1] = v])
  ELSE UNCHANGED chipVars

-----------------------------------------------------------------------------
ChipInit ==
  /\ regs = [r \in 0..30 |-> 0] /\ aux = {} /\ sasr = 0
  /\ phase = "IDLE" /\ buf = <<>> /\ pos = 0 /\ drq = FALSE /\ intrq = FALSE
  /\ wr_lba = 0 /\ sense = "NO_SENSE" /\ tgt_status = GOOD
  /\ image = Image0 /\ overlay = [l \in {} |-> ZeroBlock]

ChipTypeOK ==
  /\ regs \in [0..30 -> Byte] /\ aux \subseteq AuxBits /\ sasr \in 0..31
  /\ phase \in Phases /\ buf \in Seq(Data) /\ pos \in Nat
  /\ drq \in BOOLEAN /\ intrq \in BOOLEAN /\ wr_lba \in Nat
  /\ sense \in {"NO_SENSE", "ILLEGAL_REQUEST"}
  /\ tgt_status \in {GOOD, CHECK_CONDITION}
  /\ image \in [0..(NBlocks - 1) -> Block]
  /\ DOMAIN overlay \subseteq Nat /\ overlay \in [DOMAIN overlay -> Block]
=============================================================================
