------------------------------- MODULE ScsiProofs -------------------------------
(***************************************************************************)
(* HpcScsi, for every block size, disk, set of channels, descriptor table  *)
(* and guest: the chip and the channels stay well-typed and consistent,    *)
(* and an armed channel that is no longer pumped waits for the device.     *)
(* The first lemmas follow the chip's code (Wd33c93), the next ones have   *)
(* one lemma per action of the channels.                                   *)
(*                                                                         *)
(* Then ScsiDriver, for every set of requests whose chains describe their  *)
(* buffers: a request leaves nothing behind, the driver never runs out of  *)
(* chunks, and chip, channel and driver together are the block device of   *)
(* BlockDevice.                                                            *)
(***************************************************************************)
EXTENDS ScsiDriver, TLAPS

\* A function on 1..n is a sequence of length n.
LEMMA SeqOfFun ==
  ASSUME NEW S, NEW n \in Nat, NEW f \in [1..n -> S]
  PROVE  f \in Seq(S) /\ Len(f) = n
  OBVIOUS

\* Dividing a byte position into block number and offset.
LEMMA DivMod ==
  ASSUME NEW k \in Nat
  PROVE  k \div BlockSize \in Nat /\ k % BlockSize \in 0..(BlockSize - 1)
  BY BlockSizeAssumption

\* block_read() returns a block for every address, past the image too.
LEMMA BlockReadType ==
  ASSUME ChipTypeOK, NEW lba \in Nat
  PROVE  BlockRead(lba) \in Block
<1>1. CASE lba \in DOMAIN overlay
  BY <1>1 DEF ChipTypeOK, BlockRead
<1>2. CASE lba \notin DOMAIN overlay /\ lba < NBlocks
  <2>1. lba \in 0..(NBlocks - 1)
    BY <1>2, NBlocksAssumption
  <2>. QED BY <1>2, <2>1 DEF ChipTypeOK, BlockRead
<1>3. CASE lba \notin DOMAIN overlay /\ ~(lba < NBlocks)
  <2>1. ZeroBlock \in Block
    BY DataAssumption DEF ZeroBlock, Block
  <2>. QED BY <1>3, <2>1 DEF BlockRead
<1>. QED BY <1>1, <1>2, <1>3

\* The command fields are natural numbers.
LEMMA CdbFields ==
  ASSUME NEW r \in [0..30 -> Byte]
  PROVE  /\ Op(r) \in Byte /\ Alloc(r) \in Nat /\ Lba(r) \in Nat /\ Blocks(r) \in Nat
<1>1. \A i \in 0..10 : r[3 + i] \in 0..255
  BY DEF Byte
<1>2. /\ r[3 + 2] \in Nat /\ r[3 + 3] \in Nat /\ r[3 + 4] \in Nat /\ r[3 + 5] \in Nat
      /\ r[3 + 7] \in Nat /\ r[3 + 8] \in Nat
  BY <1>1
<1>. QED
  BY <1>2 DEF Op, Alloc, Lba, Blocks, WD_CDB, Byte

\* The buffer a READ builds is whole blocks of bytes.
LEMMA ReadBufferType ==
  ASSUME ChipTypeOK, NEW r \in [0..30 -> Byte]
  PROVE  ReadBuffer(r) \in Seq(Data) /\ Len(ReadBuffer(r)) = Blocks(r) * BlockSize
<1> DEFINE n == Blocks(r) * BlockSize
<1>1. Blocks(r) \in Nat /\ Lba(r) \in Nat
  BY CdbFields
<1>2. n \in Nat
  BY <1>1, BlockSizeAssumption
<1>3. ASSUME NEW k \in 1..n
      PROVE  BlockRead(Lba(r) + ((k - 1) \div BlockSize))[((k - 1) % BlockSize) + 1] \in Data
  <2>0. k - 1 \in Nat
     BY <1>2
  <2>1. (k - 1) \div BlockSize \in Nat /\ (k - 1) % BlockSize \in 0..(BlockSize - 1)
    BY <2>0, DivMod
  <2>2. BlockRead(Lba(r) + ((k - 1) \div BlockSize)) \in Block
    BY <2>1, <1>1, BlockReadType
  <2>. QED
    BY <2>1, <2>2, BlockSizeAssumption, ((k - 1) % BlockSize) + 1 \in 1..BlockSize DEF Block
<1>4. ReadBuffer(r) \in [1..n -> Data]
  BY <1>3 DEF ReadBuffer
<1>. QED
  BY <1>2, <1>4, SeqOfFun
 
\* A drained WRITE keeps image and overlay well-typed.
LEMMA BlockWriteType ==
  ASSUME ChipTypeOK, NEW b \in Seq(Data), NEW lba \in Nat, BlockWrite(b, lba)
  PROVE  /\ image' \in [0..(NBlocks - 1) -> Block]
         /\ DOMAIN overlay' \subseteq Nat /\ overlay' \in [DOMAIN overlay' -> Block]
<1>1. ASSUME NEW l \in Span(b, lba) PROVE l \in Nat /\ BlockOf(b, l - lba) \in Block
  <2>1. PICK k \in 0..Len(b) : l = lba + k /\ (k + 1) * BlockSize <= Len(b)
    BY <1>1 DEF Span
  <2>2. l - lba = k
    BY <2>1
  <2>3. ASSUME NEW j \in 1..BlockSize PROVE b[k * BlockSize + j] \in Data
    <3>1. k * BlockSize \in Nat /\ (k + 1) * BlockSize = k * BlockSize + BlockSize
      BY BlockSizeAssumption
    <3>2. k * BlockSize + j \in 1..Len(b)
      BY <2>1, <3>1, BlockSizeAssumption
    <3>. QED BY <3>2
  <2>. QED BY <2>1, <2>2, <2>3 DEF Block, BlockOf
<1>2. CASE DirectWrite
  <2>0. \A l \in DOMAIN image : image[l] \in Block
    BY DEF ChipTypeOK
  <2>1. image' \in [DOMAIN image -> Block]
    BY <1>1, <1>2, <2>0 DEF BlockWrite
  <2>. QED BY <2>1, <1>2 DEF BlockWrite, ChipTypeOK
<1>3. CASE ~DirectWrite
  <2>1. overlay' \in [DOMAIN overlay \cup Span(b, lba) -> Block]
    BY <1>1, <1>3 DEF BlockWrite, ChipTypeOK
  <2>2. DOMAIN overlay' = DOMAIN overlay \cup Span(b, lba)
    BY <2>1
  <2>. QED BY <1>1, <2>1, <2>2, <1>3 DEF BlockWrite, ChipTypeOK
<1>. QED
  BY <1>2, <1>3

-----------------------------------------------------------------------------
\* The pieces of the chip's state a data-phase operator rewrites, typed.
DiskOK ==
  /\ image \in [0..(NBlocks - 1) -> Block]
  /\ DOMAIN overlay \subseteq Nat /\ overlay \in [DOMAIN overlay -> Block]

\* Clearing the transfer count leaves a register file.
LEMMA ZeroCountType ==
  ASSUME NEW r \in [0..30 -> Byte]
  PROVE  ZeroCount(r) \in [0..30 -> Byte]
<1>1. 0 \in Byte
  BY DEF Byte
<1>. QED BY <1>1 DEF ZeroCount

\* finish() closes the data phase with the chip well-typed.
LEMMA FinishType ==
  ASSUME ChipTypeOK, NEW r \in [0..30 -> Byte], NEW b \in Seq(Data), NEW lba \in Nat,
         NEW st \in {GOOD, CHECK_CONDITION}, finish(r, b, lba, st)
  PROVE  /\ regs' \in [0..30 -> Byte] /\ aux' \subseteq AuxBits /\ intrq' \in BOOLEAN
         /\ phase' = "IDLE" /\ drq' = FALSE /\ buf' \in Seq(Data) /\ wr_lba' \in Nat
         /\ tgt_status' \in {GOOD, CHECK_CONDITION} /\ DiskOK'
<1>1. DiskOK'
  <2>1. CASE phase = "DATA_OUT" /\ Op(r) = WRITE10
    BY <2>1, BlockWriteType DEF finish, DiskOK
  <2>2. CASE ~(phase = "DATA_OUT" /\ Op(r) = WRITE10)
    BY <2>2 DEF finish, DiskOK, diskVars, ChipTypeOK
  <2>. QED BY <2>1, <2>2
<1>2. regs' \in [0..30 -> Byte]
  <2>1. ZeroCount(r) \in [0..30 -> Byte]
    BY ZeroCountType
  <2>2. st \in Byte /\ ST_SUCCESS \in Byte /\ 96 \in Byte
    BY DEF Byte, GOOD, CHECK_CONDITION, ST_SUCCESS
  <2>. QED BY <2>1, <2>2 DEF finish, complete
<1>3. aux' \subseteq AuxBits
  BY DEF finish, complete, Interrupt, ChipTypeOK, AuxBits, AUX_INT
<1>. QED
  BY <1>1, <1>2, <1>3 DEF finish, complete, Interrupt

\* An opened data phase has a byte to move.
LEMMA BeginDataType ==
  ASSUME ChipTypeOK, NEW r \in [0..30 -> Byte], NEW b \in Seq(Data), NEW lba \in Nat,
         NEW dir \in {"DATA_IN", "DATA_OUT"}, begin_data(r, dir, b, lba),
         UNCHANGED <<sasr, sense>>
  PROVE  ChipTypeOK' /\ DataPhase'
<1>1. CASE b = <<>>
  <2>1. finish(r, b, lba, GOOD) /\ pos' = 0
    BY <1>1 DEF begin_data
  <2>. QED
    BY <2>1, FinishType DEF ChipTypeOK, DataPhase, DiskOK, Phases
<1>2. CASE b # <<>>
  <2>1. /\ pos' = 0 /\ phase' = dir /\ drq' = TRUE /\ buf' = b /\ wr_lba' = lba
        /\ tgt_status' = GOOD /\ regs' = r /\ Busy /\ UNCHANGED <<intrq, diskVars>>
    BY <1>2 DEF begin_data
  <2>2. Len(b) > 0
    BY <1>2
  <2>3. aux' \subseteq AuxBits
    BY <2>1 DEF Busy, ChipTypeOK, AuxBits, AUX_CIP, AUX_BSY
  <2>. QED
    BY <2>1, <2>2, <2>3 DEF ChipTypeOK, DataPhase, diskVars, Phases
<1>. QED BY <1>1, <1>2

\* A canned reply cut to the allocation length.
LEMMA ReplyType ==
  ASSUME NEW d \in Seq(Data), NEW n \in Nat
  PROVE  Reply(d, n) \in Seq(Data)
<1>1. CASE n < Len(d)
  BY <1>1 DEF Reply
<1>2. CASE ~(n < Len(d))
  BY <1>2 DEF Reply
<1>. QED BY <1>1, <1>2

\* What any data-in command sends is a sequence of bytes.
LEMMA DataInType ==
  ASSUME ChipTypeOK, NEW r \in [0..30 -> Byte], Op(r) \in DataOps \ {MODE_SELECT, WRITE10}
  PROVE  DataIn(r) \in Seq(Data)
<1>1. Alloc(r) \in Nat /\ SenseData[sense] \in Seq(Data)
  BY CdbFields, ReplyAssumption DEF ChipTypeOK
<1>2. /\ Reply(InquiryData, Alloc(r)) \in Seq(Data)
      /\ Reply(SenseData[sense], Alloc(r)) \in Seq(Data)
      /\ Reply(ModeData, Alloc(r)) \in Seq(Data)
      /\ CapacityData \in Seq(Data) /\ ReadBuffer(r) \in Seq(Data)
  BY <1>1, ReplyType, ReplyAssumption, ReadBufferType
<1>3. Op(r) \in {INQUIRY, REQUEST_SENSE, READ_CAPACITY, MODE_SENSE, READ10}
  BY DEF DataOps
<1>. QED BY <1>2, <1>3 DEF DataIn, INQUIRY, REQUEST_SENSE, READ_CAPACITY, MODE_SENSE, READ10

\* The empty buffer of a data-out command.
LEMMA ZerosType ==
  ASSUME NEW n \in Nat
  PROVE  Zeros(n) \in Seq(Data)
  BY DataAssumption DEF Zeros

\* Decoding any command leaves the chip consistent.
LEMMA DecodeType ==
  ASSUME ChipTypeOK, DataPhase, NEW r \in [0..30 -> Byte], Decode(r), sasr' = sasr
  PROVE  ChipTypeOK' /\ DataPhase'
<1>0. /\ Alloc(r) \in Nat /\ Lba(r) \in Nat /\ Blocks(r) * BlockSize \in Nat
      /\ UNCHANGED <<sasr, sense>>
  BY CdbFields, BlockSizeAssumption DEF Decode
<1>1. CASE Op(r) \notin DataOps /\ finish(r, buf, wr_lba, GOOD) /\ UNCHANGED pos
  BY <1>0, <1>1, FinishType DEF ChipTypeOK, DataPhase, DiskOK, Phases
<1>2. CASE /\ Op(r) \in DataOps \ {MODE_SELECT, WRITE10}
           /\ begin_data(r, "DATA_IN", DataIn(r), wr_lba)
  <2>1. DataIn(r) \in Seq(Data) /\ wr_lba \in Nat
    BY <1>2, DataInType DEF ChipTypeOK
  <2>. QED BY <1>0, <1>2, <2>1, BeginDataType
<1>3. CASE begin_data(r, "DATA_OUT", Zeros(Alloc(r)), wr_lba)
  <2>1. Zeros(Alloc(r)) \in Seq(Data) /\ wr_lba \in Nat
    BY <1>0, ZerosType DEF ChipTypeOK
  <2>. QED BY <1>0, <1>3, <2>1, BeginDataType
<1>4. CASE begin_data(r, "DATA_OUT", Zeros(Blocks(r) * BlockSize), Lba(r))
  <2>1. Zeros(Blocks(r) * BlockSize) \in Seq(Data)
    BY <1>0, ZerosType
  <2>. QED BY <1>0, <1>4, <2>1, BeginDataType
<1>. QED BY <1>1, <1>2, <1>3, <1>4 DEF Decode

\* So does SELECT-AND-TRANSFER, resumed, timed out or fresh.
LEMMA SelectType ==
  ASSUME ChipTypeOK, DataPhase, NEW r \in [0..30 -> Byte], select_and_transfer(r)
  PROVE  ChipTypeOK' /\ DataPhase'
<1>0. sasr' = sasr
  BY DEF select_and_transfer
<1>1. CASE Resume(r)
  <2>1. aux' \subseteq AuxBits
    BY <1>1 DEF Resume, Busy, ChipTypeOK, AuxBits, AUX_CIP, AUX_BSY
  <2>. QED
    BY <1>0, <1>1, <2>1 DEF Resume, CanResume, ChipTypeOK, DataPhase, diskVars
<1>2. CASE SelectionTimeout(r)
  <2>1. aux' \subseteq AuxBits
    BY <1>2 DEF SelectionTimeout, Interrupt, ChipTypeOK, AuxBits, AUX_INT
  <2>2. regs' \in [0..30 -> Byte]
    <3>1. ST_TIMEOUT \in Byte /\ 0 \in Byte
      BY DEF ST_TIMEOUT, Byte
    <3>. QED BY <1>2, <3>1 DEF SelectionTimeout
  <2>. QED
    BY <1>0, <1>2, <2>1, <2>2
       DEF SelectionTimeout, Interrupt, ChipTypeOK, DataPhase, diskVars, xferVars
<1>3. CASE NoSuchLun(r)
  <2>1. wr_lba \in Nat /\ buf \in Seq(Data) /\ finish(r, buf, wr_lba, CHECK_CONDITION)
    BY <1>3 DEF NoSuchLun, ChipTypeOK
  <2>. QED
    BY <1>0, <1>3, <2>1, FinishType DEF NoSuchLun, ChipTypeOK, DataPhase, DiskOK, Phases
<1>4. CASE Decode(r)
  BY <1>0, <1>4, DecodeType
<1>. QED BY <1>1, <1>2, <1>3, <1>4 DEF select_and_transfer

\* Cursor, register pointer and buffer length are numbers.
LEMMA TypeFacts ==
  ASSUME ChipTypeOK
  PROVE  pos \in Nat /\ sasr \in 0..31 /\ buf \in Seq(Data) /\ Len(buf) \in Nat
<1>1. pos \in Nat /\ sasr \in 0..31 /\ buf \in Seq(Data)
  BY DEF ChipTypeOK
<1>. QED BY <1>1

\* The register pointer wraps within five bits.
LEMMA Wrap ==
  ASSUME NEW n \in 0..31
  PROVE  (n + 1) % 32 \in 0..31
  OBVIOUS

\* reset() leaves the chip idle and consistent.
LEMMA ResetType ==
  ASSUME ChipTypeOK, NEW r \in [0..30 -> Byte], NEW a \in SUBSET AuxBits,
         NEW irq \in BOOLEAN, reset(r, a, irq)
  PROVE  ChipTypeOK' /\ DataPhase' /\ ~drq'
<1>1. drq' \in BOOLEAN /\ intrq' \in BOOLEAN /\ ~drq'
  BY DEF reset
<1>2. DataPhase'
  BY <1>1 DEF reset, DataPhase
<1>3. buf' \in Seq(Data) /\ pos' \in Nat /\ sasr' \in 0..31 /\ phase' \in Phases
  BY DEF reset, Phases
<1>. QED BY <1>1, <1>2, <1>3 DEF reset, ChipTypeOK, diskVars

\* Every command byte leaves the chip consistent.
LEMMA ExecType ==
  ASSUME ChipTypeOK, DataPhase, NEW r \in [0..30 -> Byte], exec_command(r)
  PROVE  ChipTypeOK' /\ DataPhase'
<1>1. CASE CommandReset(r)
  <2> DEFINE rr == [r EXCEPT ![WD_SCSI_STATUS] = (r[WD_OWN_ID] \div 8) % 2]
  <2>1. (r[WD_OWN_ID] \div 8) % 2 \in Byte
    BY DEF WD_OWN_ID, Byte
  <2>2. rr \in [0..30 -> Byte]
    BY <2>1
  <2>3. {AUX_INT} \in SUBSET AuxBits
    BY DEF AuxBits, AUX_INT
  <2>4. reset(rr, {AUX_INT}, TRUE)
    BY <1>1 DEF CommandReset
  <2> HIDE DEF rr
  <2>. QED BY <2>2, <2>3, <2>4, ResetType
<1>2. CASE select_and_transfer(r)
  BY <1>2, SelectType
<1>3. CASE regs' = r /\ UNCHANGED <<aux, sasr, xferVars, intrq, sense, tgt_status, diskVars>>
  BY <1>3 DEF ChipTypeOK, DataPhase, xferVars, diskVars
<1>. QED BY <1>1, <1>2, <1>3 DEF exec_command

\* A store to either port leaves the chip consistent.
LEMMA PioWType ==
  ASSUME ChipTypeOK, DataPhase, NEW port \in {0, 1}, NEW v \in Byte, pio_w(port, v)
  PROVE  ChipTypeOK' /\ DataPhase'
<1>1. CASE /\ port = 0 /\ sasr' = v % 32
           /\ UNCHANGED <<regs, aux, xferVars, intrq, sense, tgt_status, diskVars>>
  <2>1. sasr' \in 0..31
    BY <1>1 DEF Byte
  <2>. QED BY <1>1, <2>1 DEF ChipTypeOK, DataPhase, xferVars, diskVars
<1>2. CASE exec_command([regs EXCEPT ![WD_COMMAND] = v])
  <2>1. [regs EXCEPT ![WD_COMMAND] = v] \in [0..30 -> Byte]
    BY DEF ChipTypeOK
  <2>. QED BY <1>2, <2>1, ExecType
<1>3. CASE /\ IF sasr = WD_AUX_STATUS THEN aux' = BitsOf(v) /\ UNCHANGED regs
              ELSE regs' = [regs EXCEPT ![sasr] = v] /\ UNCHANGED aux
           /\ sasr' = (sasr + 1) % 32
           /\ UNCHANGED <<xferVars, intrq, sense, tgt_status, diskVars>>
  <2>1. sasr' \in 0..31
    <3>1. sasr' = (sasr + 1) % 32 /\ sasr \in 0..31
      BY <1>3, TypeFacts
    <3>. QED BY <3>1, Wrap
  <2>2. aux' \subseteq AuxBits
    BY <1>3 DEF ChipTypeOK, BitsOf
  <2>3. regs' \in [0..30 -> Byte]
    <3>1. CASE sasr = WD_AUX_STATUS
      BY <1>3, <3>1 DEF ChipTypeOK
    <3>2. CASE sasr # WD_AUX_STATUS
      BY <1>3, <3>2 DEF ChipTypeOK
    <3>. QED BY <3>1, <3>2
  <2>. QED BY <1>3, <2>1, <2>2, <2>3 DEF ChipTypeOK, DataPhase, xferVars, diskVars
<1>. QED BY <1>1, <1>2, <1>3 DEF pio_w

\* A read of the data port leaves the chip consistent.
LEMMA PioRType ==
  ASSUME ChipTypeOK, DataPhase, pio_r
  PROVE  ChipTypeOK' /\ DataPhase'
<1>1. sasr' \in 0..31
  <2>1. sasr' = (sasr + 1) % 32 /\ sasr \in 0..31
    BY TypeFacts DEF pio_r
  <2>. QED BY <2>1, Wrap
<1>2. aux' \subseteq AuxBits
  BY DEF pio_r, ChipTypeOK
<1>3. intrq' \in BOOLEAN
  BY Zenon DEF pio_r, ChipTypeOK
<1>. QED BY <1>1, <1>2, <1>3 DEF pio_r, ChipTypeOK, DataPhase, xferVars, diskVars

\* Moving one byte either keeps the data phase open with bytes left or ends it.
LEMMA AdvanceType ==
  ASSUME ChipTypeOK, DataPhase, NEW b \in Seq(Data), Len(b) = Len(buf), phase # "IDLE",
         Advance(b)
  PROVE  ChipTypeOK' /\ DataPhase' /\ (drq' => drq)
<1>0. /\ pos' = pos + 1 /\ pos' \in Nat /\ UNCHANGED <<sasr, sense>>
  <2>1. pos' = pos + 1 /\ UNCHANGED <<sasr, sense>>
    BY DEF Advance
  <2>. QED BY <2>1, TypeFacts
<1>1. CASE pos + 1 >= Len(b)
  <2>1. finish(regs, b, wr_lba, tgt_status)
    BY <1>1 DEF Advance
  <2>2. /\ regs \in [0..30 -> Byte] /\ wr_lba \in Nat
        /\ tgt_status \in {GOOD, CHECK_CONDITION}
    BY DEF ChipTypeOK
  <2>3. /\ regs' \in [0..30 -> Byte] /\ aux' \subseteq AuxBits /\ intrq' \in BOOLEAN
        /\ phase' = "IDLE" /\ drq' = FALSE /\ buf' \in Seq(Data) /\ wr_lba' \in Nat
        /\ tgt_status' \in {GOOD, CHECK_CONDITION} /\ DiskOK'
    BY <2>1, <2>2, FinishType
  <2>4. drq' \in BOOLEAN /\ ~drq'
    BY <2>3
  <2>5. phase' \in Phases
    BY <2>3 DEF Phases
  <2>. QED
    BY <1>0, <2>3, <2>4, <2>5 DEF ChipTypeOK, DataPhase, DiskOK
<1>2. CASE ~(pos + 1 >= Len(b))
  <2>1. pos' < Len(b)
    BY <1>0, <1>2, TypeFacts
  <2>2. /\ buf' = b
        /\ UNCHANGED <<regs, aux, phase, drq, intrq, wr_lba, tgt_status, diskVars>>
    BY <1>2 DEF Advance
  <2>3. ChipTypeOK'
    BY <1>0, <2>2 DEF ChipTypeOK, diskVars
  <2>. QED
    BY <2>1, <2>2, <2>3 DEF DataPhase
<1>. QED BY <1>1, <1>2

\* The DMA byte port keeps the chip consistent in either direction.
LEMMA DmaType ==
  ASSUME ChipTypeOK, DataPhase, NEW v \in Data, dma_r \/ dma_w(v)
  PROVE  ChipTypeOK' /\ DataPhase' /\ (drq' => drq)
<1>1. CASE UNCHANGED chipVars
  BY <1>1 DEF chipVars, xferVars, diskVars, ChipTypeOK, DataPhase
<1>2. CASE phase = "DATA_IN" /\ Advance(buf)
  BY <1>2, AdvanceType DEF ChipTypeOK
<1>3. CASE phase = "DATA_OUT" /\ pos < Len(buf) /\ Advance([buf EXCEPT ![pos + 1] = v])
  <2>1. [buf EXCEPT ![pos + 1] = v] \in Seq(Data) /\ Len([buf EXCEPT ![pos + 1] = v]) = Len(buf)
    BY <1>3, TypeFacts
  <2>. QED BY <1>3, <2>1, AdvanceType
<1>. QED BY <1>1, <1>2, <1>3 DEF dma_r, dma_w

\* pause_transfer() drops DRQ and keeps buffer and cursor.
LEMMA PauseType ==
  ASSUME ChipTypeOK, DataPhase, pause_transfer
  PROVE  ChipTypeOK' /\ DataPhase' /\ ~drq'
<1>1. ZeroCount(regs) \in [0..30 -> Byte]
  BY ZeroCountType DEF ChipTypeOK
<1>2. ST_PAUSED_IN \in Byte /\ ST_PAUSED_OUT \in Byte /\ 70 \in Byte
  BY DEF Byte, ST_PAUSED_IN, ST_PAUSED_OUT
<1>3. regs' \in [0..30 -> Byte]
  BY <1>1, <1>2 DEF pause_transfer
<1>4. aux' \subseteq AuxBits
  BY DEF pause_transfer, Interrupt, ChipTypeOK, AuxBits, AUX_INT
<1>. QED
  BY <1>3, <1>4 DEF pause_transfer, Interrupt, ChipTypeOK, DataPhase, diskVars

-----------------------------------------------------------------------------
\* The inductive invariant.  NoLostDrq alone is not inductive: it needs the
\* channel's states (ActiveAgree) and the chip's (DataPhase).
IInv == TypeOK /\ DataPhase /\ ActiveAgree /\ NoLostDrq

ChannelOK(c) ==
  /\ c \in Channel
  /\ c.cbp + c.count <= MemSize
  /\ "ACTIVE" \in c.ctrl <=> c.active
  /\ c.active => c.state # "CH_IDLE"

\* Replacing one channel by a consistent one keeps the channel invariants.
LEMMA ChannelStep ==
  ASSUME TypeOK, ActiveAgree, NEW ch \in Channels, NEW c, ChannelOK(c),
         dma' = [dma EXCEPT ![ch] = c], ChipTypeOK', intstat' \subseteq Channels,
         pump' \in Channels \cup {NoPump}, mem' \in [Addr -> Data]
  PROVE  /\ TypeOK' /\ ActiveAgree'
         /\ dma'[ch] = c /\ (\A o \in Channels \ {ch} : dma'[o] = dma[o])
<1>1. dma' \in [Channels -> Channel]
  BY DEF TypeOK, ChannelOK
<1>2. dma'[ch] = c /\ (\A o \in Channels \ {ch} : dma'[o] = dma[o])
  BY DEF TypeOK
<1>3. \A o \in Channels : dma'[o].cbp + dma'[o].count <= MemSize
  BY <1>2 DEF TypeOK, ChannelOK
<1>4. ActiveAgree'
  BY <1>2 DEF ActiveAgree, ChannelOK
<1>. QED BY <1>1, <1>2, <1>3, <1>4 DEF TypeOK

\* A channel of a reachable state is consistent.
LEMMA ChannelFacts ==
  ASSUME TypeOK, ActiveAgree, NEW ch \in Channels
  PROVE  ChannelOK(dma[ch])
  BY DEF TypeOK, ActiveAgree, ChannelOK

\* The invariant holds at start-up.
LEMMA InitInv == Init => IInv
<1> SUFFICES ASSUME Init PROVE IInv
  OBVIOUS
<1> USE DEF Init
<1>1. ChipTypeOK
  <2>1. regs \in [0..30 -> Byte]
    BY DEF ChipInit, Byte
  <2>2. /\ DOMAIN overlay \subseteq Nat /\ overlay \in [DOMAIN overlay -> Block]
    BY DEF ChipInit
  <2>3. drq \in BOOLEAN /\ intrq \in BOOLEAN
    BY DEF ChipInit
  <2>4. image \in [0..(NBlocks - 1) -> Block]
    BY ImageAssumption DEF ChipInit, Block
  <2>. QED BY <2>1, <2>2, <2>3, <2>4 DEF ChipInit, ChipTypeOK, Phases
<1>2. DataPhase
  BY DEF ChipInit, DataPhase
<1>3. ASSUME NEW ch \in Channels PROVE ChannelOK(dma[ch]) /\ ~dma[ch].active
  <2>1. dma[ch] \in
          [cbp : {0}, count : {0}, eox : {FALSE}, xie : {FALSE}, nbdp : {0},
           ctrl : {{}}, active : {FALSE}, to_device : {FALSE}, state : {"CH_IDLE"}]
    BY DEF HpcInit
  <2>2. dma[ch] \in Channel
    <3>1. 0 \in DOMAIN Desc /\ 0 \in Nat /\ {} \in SUBSET CtrlBits /\ "CH_IDLE" \in States
      BY DescAssumption DEF States
    <3>2. dma[ch] = [cbp |-> 0, count |-> 0, eox |-> FALSE, xie |-> FALSE, nbdp |-> 0,
                     ctrl |-> {}, active |-> FALSE, to_device |-> FALSE,
                     state |-> "CH_IDLE"]
      BY <2>1
    <3>. QED BY <3>1, <3>2 DEF Channel
  <2>3. /\ dma[ch].cbp = 0 /\ dma[ch].count = 0 /\ dma[ch].ctrl = {}
        /\ dma[ch].active = FALSE
    BY <2>1
  <2>4. dma[ch].cbp + dma[ch].count <= MemSize
    BY <2>3, MemAssumption
  <2>. QED BY <2>2, <2>3, <2>4 DEF ChannelOK
<1>4. dma \in [Channels -> Channel]
  BY <1>3 DEF HpcInit, ChannelOK
<1>5. mem \in [Addr -> Data] /\ intstat \subseteq Channels /\ pump \in Channels \cup {NoPump}
  BY DataAssumption DEF HpcInit
<1>6. ActiveAgree
  BY <1>3 DEF ActiveAgree, ChannelOK
<1>7. NoLostDrq
  BY <1>3, ChannelsAssumption DEF NoLostDrq
<1>8. TypeOK
  BY <1>1, <1>3, <1>4, <1>5 DEF TypeOK, ChannelOK
<1>. QED BY <1>2, <1>6, <1>7, <1>8 DEF IInv

\* A store to the chip, which pumps HD0 when it raises DRQ.
LEMMA PioWriteInv ==
  ASSUME IInv, NEW port \in {0, 1}, NEW v \in Byte, PioWrite(port, v)
  PROVE  IInv'
<1>1. ChipTypeOK' /\ DataPhase'
  BY PioWType DEF PioWrite, IInv, TypeOK
<1>2. pump' \in Channels \cup {NoPump}
  BY ChannelsAssumption DEF PioWrite
<1>3. TypeOK' /\ ActiveAgree'
  BY <1>1, <1>2 DEF PioWrite, IInv, TypeOK, ActiveAgree
<1>4. NoLostDrq'
  <2>1. CASE dma[HD0].active /\ drq'
    BY <2>1 DEF PioWrite, NoLostDrq
  <2>2. CASE ~(dma[HD0].active /\ drq')
    BY <2>2, ChannelsAssumption DEF PioWrite, NoLostDrq, IInv, CpuRuns
  <2>. QED BY <2>1, <2>2
<1>. QED BY <1>1, <1>3, <1>4 DEF IInv

\* A read of the chip.
LEMMA PioReadInv ==
  ASSUME IInv, PioRead
  PROVE  IInv'
<1>1. ChipTypeOK' /\ DataPhase' /\ drq' = drq
  BY PioRType DEF PioRead, IInv, TypeOK, pio_r, xferVars
<1>. QED
  BY <1>1 DEF PioRead, IInv, TypeOK, ActiveAgree, NoLostDrq, hpcVars

\* Steps that leave the chip alone.
LEMMA QuietChip ==
  ASSUME IInv, UNCHANGED chipVars
  PROVE  ChipTypeOK' /\ DataPhase' /\ drq' = drq
  BY DEF IInv, TypeOK, ChipTypeOK, DataPhase, chipVars, xferVars, diskVars

\* A write of the descriptor pointer.
LEMMA NbdpWriteInv ==
  ASSUME IInv, NEW ch \in Channels, NEW d \in DOMAIN Desc, NbdpWrite(ch, d)
  PROVE  IInv'
<1> DEFINE c == [dma[ch] EXCEPT !.nbdp = d]
<1>0. ChannelOK(dma[ch])
  BY ChannelFacts DEF IInv
<1>1. ChannelOK(c)
  BY <1>0 DEF ChannelOK, Channel
<1>2. dma' = [dma EXCEPT ![ch] = c]
  BY DEF NbdpWrite
<1>3. ChipTypeOK' /\ DataPhase' /\ drq' = drq
  BY QuietChip DEF NbdpWrite
<1>4. c.active = dma[ch].active /\ c.state = dma[ch].state /\ c.count = dma[ch].count
  BY <1>0 DEF ChannelOK, Channel
<1> HIDE DEF c
<1>5. /\ TypeOK' /\ ActiveAgree'
      /\ dma'[ch] = c /\ (\A o \in Channels \ {ch} : dma'[o] = dma[o])
  BY <1>1, <1>2, <1>3, ChannelStep DEF NbdpWrite, IInv, TypeOK
<1>6. NoLostDrq'
  BY <1>3, <1>4, <1>5, ChannelsAssumption DEF NbdpWrite, IInv, NoLostDrq
<1>. QED BY <1>3, <1>5, <1>6 DEF IInv

\* A write of the byte-count flags.
LEMMA BcWriteInv ==
  ASSUME IInv, NEW ch \in Channels, NEW e \in BOOLEAN, NEW x \in BOOLEAN, BcWrite(ch, e, x)
  PROVE  IInv'
<1> DEFINE c == [dma[ch] EXCEPT !.eox = e, !.xie = x]
<1>0. ChannelOK(dma[ch])
  BY ChannelFacts DEF IInv
<1>1. ChannelOK(c)
  BY <1>0 DEF ChannelOK, Channel
<1>2. dma' = [dma EXCEPT ![ch] = c]
  BY DEF BcWrite
<1>3. ChipTypeOK' /\ DataPhase' /\ drq' = drq
  BY QuietChip DEF BcWrite
<1>4. c.active = dma[ch].active /\ c.state = dma[ch].state /\ c.count = dma[ch].count
  BY <1>0 DEF ChannelOK, Channel
<1> HIDE DEF c
<1>5. /\ TypeOK' /\ ActiveAgree'
      /\ dma'[ch] = c /\ (\A o \in Channels \ {ch} : dma'[o] = dma[o])
  BY <1>1, <1>2, <1>3, ChannelStep DEF BcWrite, IInv, TypeOK
<1>6. NoLostDrq'
  BY <1>3, <1>4, <1>5, ChannelsAssumption DEF BcWrite, IInv, NoLostDrq
<1>. QED BY <1>3, <1>5, <1>6 DEF IInv

\* A control write leaves the channel consistent under every combination of bits.
LEMMA ArmedOK ==
  ASSUME NEW d, ChannelOK(d), NEW x \in SUBSET CtrlBits
  PROVE  ChannelOK(Armed(d, x))
<1> DEFINE a == Armed(d, x)
<1>1. /\ a.cbp = d.cbp /\ a.count = d.count /\ a.active \in BOOLEAN
      /\ a.active = (NewActive(d, x) /\ ~("FLUSH" \in x))
  BY DEF Armed, ChannelOK, Channel
<1>0. d.active \in BOOLEAN /\ d.state \in States
  BY DEF ChannelOK, Channel
<1>2. NewCtrl(d, x) \in SUBSET CtrlBits /\ NewActive(d, x) \in BOOLEAN
  <2>1. CASE "AMASK" \in x
    BY <1>0, <2>1 DEF NewCtrl, NewActive, CtrlBits
  <2>2. CASE "AMASK" \notin x
    BY <2>2 DEF NewCtrl, NewActive, CtrlBits
  <2>. QED BY <2>1, <2>2
<1>3. a \in Channel
  <2> DEFINE ct == IF "FLUSH" \in x THEN NewCtrl(d, x) \ {"ACTIVE"} ELSE NewCtrl(d, x)
             st == IF "FLUSH" \in x THEN "CH_IDLE"
                   ELSE IF ~d.active /\ NewActive(d, x) /\ ~("FLUSH" \in x) THEN "CH_FETCH"
                   ELSE d.state
             ac == NewActive(d, x) /\ ~("FLUSH" \in x)
             dr == "DIR" \in x
  <2>0. ac \in BOOLEAN /\ dr \in BOOLEAN
    OBVIOUS
  <2>1. ct \in SUBSET CtrlBits
    BY <1>2
  <2>2. st \in States
    BY <1>0 DEF States
  <2>3. a = [d EXCEPT !.ctrl = ct, !.active = ac, !.to_device = dr, !.state = st]
    BY DEF Armed
  <2> HIDE DEF a, ct, st, ac, dr
  <2>. QED BY <2>0, <2>1, <2>2, <2>3 DEF ChannelOK, Channel
<1>4. "ACTIVE" \in NewCtrl(d, x) <=> NewActive(d, x)
  BY DEF NewCtrl, NewActive, ChannelOK, Channel
<1>5. a.ctrl = (IF "FLUSH" \in x THEN NewCtrl(d, x) \ {"ACTIVE"} ELSE NewCtrl(d, x))
  BY DEF Armed, ChannelOK, Channel
<1>6. a.state = (IF "FLUSH" \in x THEN "CH_IDLE"
                 ELSE IF ~d.active /\ NewActive(d, x) /\ ~("FLUSH" \in x) THEN "CH_FETCH"
                 ELSE d.state)
  BY DEF Armed, ChannelOK, Channel
<1> HIDE DEF a
<1>7. a.active => a.state # "CH_IDLE"
  BY <1>1, <1>6 DEF ChannelOK
<1>8. "ACTIVE" \in a.ctrl <=> a.active
  BY <1>1, <1>4, <1>5
<1>9. ChannelOK(a)
  BY <1>1, <1>3, <1>7, <1>8 DEF ChannelOK
<1>. QED BY <1>9 DEF a

\* A control write, with the chip reset and the pump it may cause.
LEMMA CtrlWriteInv ==
  ASSUME IInv, NEW ch \in Channels, NEW x \in SUBSET CtrlBits, CtrlWrite(ch, x)
  PROVE  IInv'
<1> DEFINE c == Armed(dma[ch], x)
<1>1. ChannelOK(c)
  BY ChannelFacts, ArmedOK DEF IInv
<1>2. dma' = [dma EXCEPT ![ch] = c]
  BY DEF CtrlWrite
<1>3. ChipTypeOK' /\ DataPhase' /\ (drq' => drq)
  <2>1. CASE "CRESET" \in x
    <3>1. reset(regs, {}, FALSE) /\ regs \in [0..30 -> Byte]
      BY <2>1 DEF CtrlWrite, IInv, TypeOK, ChipTypeOK
    <3>. QED BY <3>1, ResetType DEF IInv, TypeOK
  <2>2. CASE "CRESET" \notin x
    BY <2>2, QuietChip DEF CtrlWrite
  <2>. QED BY <2>1, <2>2
<1>4. pump' = IF c.active THEN ch ELSE NoPump
  BY DEF CtrlWrite
<1> HIDE DEF c
<1>5. /\ TypeOK' /\ ActiveAgree'
      /\ dma'[ch] = c /\ (\A o \in Channels \ {ch} : dma'[o] = dma[o])
  BY <1>1, <1>2, <1>3, <1>4, ChannelStep DEF CtrlWrite, IInv, TypeOK
<1>6. NoLostDrq'
  <2>1. CASE ch = HD0
    BY <1>4, <1>5, <2>1 DEF NoLostDrq
  <2>2. CASE ch # HD0
    BY <1>3, <1>5, <2>2, ChannelsAssumption DEF NoLostDrq, IInv, CtrlWrite, CpuRuns
  <2>. QED BY <2>1, <2>2
<1>. QED BY <1>3, <1>5, <1>6 DEF IInv

\* A control read.
LEMMA CtrlReadInv ==
  ASSUME IInv, NEW ch \in Channels, CtrlRead(ch)
  PROVE  IInv'
<1>1. ChipTypeOK' /\ DataPhase' /\ drq' = drq
  BY QuietChip DEF CtrlRead
<1>. QED BY <1>1 DEF CtrlRead, IInv, TypeOK, ActiveAgree, NoLostDrq

\* A store to DRAM.
LEMMA StoreInv ==
  ASSUME IInv, NEW a \in Addr, NEW v \in Data, Store(a, v)
  PROVE  IInv'
<1>1. ChipTypeOK' /\ DataPhase' /\ drq' = drq
  BY QuietChip DEF Store
<1>2. mem' \in [Addr -> Data]
  BY DEF Store, IInv, TypeOK
<1>. QED BY <1>1, <1>2 DEF Store, IInv, TypeOK, ActiveAgree, NoLostDrq

-----------------------------------------------------------------------------
\* The iterations of scsi_run_dma().

\* The pump fetches a descriptor.
LEMMA FetchInv ==
  ASSUME IInv, NEW ch \in Channels, scsi_fetch_chain(ch)
  PROVE  IInv'
<1> DEFINE e == Desc[dma[ch].nbdp]
           c == [dma[ch] EXCEPT !.cbp = e.cbp, !.count = e.count, !.eox = e.eox,
                                !.xie = e.xie, !.nbdp = e.nbdp, !.state = "CH_XFER"]
<1>0. ChannelOK(dma[ch])
  BY ChannelFacts DEF IInv
<1>1. e \in Descriptor /\ e.cbp + e.count <= MemSize
  BY <1>0, DescAssumption DEF ChannelOK, Channel
<1>2. dma' = [dma EXCEPT ![ch] = c] /\ pump = ch /\ pump' = ch
  BY DEF scsi_fetch_chain, Pumping
<1> HIDE DEF e
<1>3. c \in Channel
  BY <1>0, <1>1 DEF ChannelOK, Channel, Descriptor, States
<1>4. /\ c.cbp = e.cbp /\ c.count = e.count /\ c.ctrl = dma[ch].ctrl
      /\ c.active = dma[ch].active /\ c.state = "CH_XFER"
  BY <1>0 DEF ChannelOK, Channel
<1> HIDE DEF c
<1>5. ChannelOK(c)
  BY <1>0, <1>1, <1>3, <1>4 DEF ChannelOK
<1>6. ChipTypeOK' /\ DataPhase' /\ drq' = drq
  BY QuietChip DEF scsi_fetch_chain
<1>6a. intstat' \subseteq Channels /\ mem' \in [Addr -> Data] /\ pump' \in Channels
  BY <1>2 DEF scsi_fetch_chain, IInv, TypeOK
<1>7. /\ TypeOK' /\ ActiveAgree'
      /\ dma'[ch] = c /\ (\A o \in Channels \ {ch} : dma'[o] = dma[o])
  BY <1>2, <1>5, <1>6, <1>6a, ChannelStep DEF IInv
<1>8. NoLostDrq'
  BY <1>2, <1>6, <1>7, ChannelsAssumption DEF IInv, NoLostDrq
<1>. QED BY <1>6, <1>7, <1>8 DEF IInv

\* The pump moves a byte.
LEMMA XferByteInv ==
  ASSUME IInv, NEW ch \in Channels, XferByte(ch)
  PROVE  IInv'
<1> DEFINE cb == dma[ch].cbp + 1
           ct == dma[ch].count - 1
           c == [dma[ch] EXCEPT !.cbp = cb, !.count = ct]
<1>0. ChannelOK(dma[ch])
  BY ChannelFacts DEF IInv
<1>1. /\ dma[ch].cbp \in Nat /\ dma[ch].count \in Nat /\ dma[ch].count # 0
      /\ dma[ch].cbp + dma[ch].count <= MemSize
  BY <1>0 DEF ChannelOK, Channel, XferByte
<1>2. /\ dma[ch].cbp + 1 \in Nat /\ dma[ch].count - 1 \in Nat /\ dma[ch].cbp \in Addr
      /\ (dma[ch].cbp + 1) + (dma[ch].count - 1) <= MemSize
  BY <1>1, MemAssumption DEF Addr
<1>3. dma' = [dma EXCEPT ![ch] = c] /\ pump = ch /\ pump' = ch
  BY DEF XferByte, Pumping
<1>2a. cb \in Nat /\ ct \in Nat /\ cb + ct <= MemSize
  BY <1>2
<1> HIDE DEF cb, ct
<1>4. c \in Channel
  BY <1>0, <1>2a DEF ChannelOK, Channel
<1>5. /\ c.cbp = cb /\ c.count = ct
      /\ c.ctrl = dma[ch].ctrl /\ c.active = dma[ch].active /\ c.state = dma[ch].state
  BY <1>0 DEF ChannelOK, Channel
<1> HIDE DEF c
<1>6. ChannelOK(c)
  BY <1>0, <1>2a, <1>4, <1>5 DEF ChannelOK
<1>7. mem[dma[ch].cbp] \in Data /\ dma_r_value \in Data
  <2>1. mem[dma[ch].cbp] \in Data
    BY <1>2 DEF IInv, TypeOK
  <2>2. dma_r_value \in Data
    <3>1. CASE phase = "DATA_IN" /\ pos < Len(buf)
      <4>1. pos + 1 \in 1..Len(buf) /\ buf \in Seq(Data)
        BY <3>1, TypeFacts DEF IInv, TypeOK
      <4>. QED BY <3>1, <4>1 DEF dma_r_value
    <3>2. CASE ~(phase = "DATA_IN" /\ pos < Len(buf))
      BY <3>2, DataAssumption DEF dma_r_value
    <3>. QED BY <3>1, <3>2
  <2>. QED BY <2>1, <2>2
<1>8. ChipTypeOK' /\ DataPhase' /\ (drq' => drq)
  BY <1>7, DmaType DEF XferByte, IInv, TypeOK
<1>9. mem' \in [Addr -> Data]
  BY <1>7 DEF XferByte, IInv, TypeOK
<1>10. /\ TypeOK' /\ ActiveAgree'
       /\ dma'[ch] = c /\ (\A o \in Channels \ {ch} : dma'[o] = dma[o])
  BY <1>3, <1>6, <1>8, <1>9, ChannelStep DEF XferByte, IInv, TypeOK
<1>11. NoLostDrq'
  BY <1>3, <1>8, <1>10, ChannelsAssumption DEF IInv, NoLostDrq
<1>. QED BY <1>8, <1>10, <1>11 DEF IInv

\* The pump reaches the end of a descriptor.
LEMMA XferDoneInv ==
  ASSUME IInv, NEW ch \in Channels, XferDone(ch)
  PROVE  IInv'
<1> DEFINE c == [dma[ch] EXCEPT !.state = "CH_DESC_DONE"]
<1>0. ChannelOK(dma[ch])
  BY ChannelFacts DEF IInv
<1>1. ChannelOK(c)
  BY <1>0 DEF ChannelOK, Channel, States
<1>2. dma' = [dma EXCEPT ![ch] = c] /\ pump = ch /\ pump' = ch
  BY DEF XferDone, Pumping
<1>3. ChipTypeOK' /\ DataPhase' /\ drq' = drq
  BY QuietChip DEF XferDone
<1> HIDE DEF c
<1>4. /\ TypeOK' /\ ActiveAgree'
      /\ dma'[ch] = c /\ (\A o \in Channels \ {ch} : dma'[o] = dma[o])
  BY <1>1, <1>2, <1>3, ChannelStep DEF XferDone, IInv, TypeOK
<1>5. NoLostDrq'
  BY <1>2, <1>3, <1>4, ChannelsAssumption DEF IInv, NoLostDrq
<1>. QED BY <1>3, <1>4, <1>5 DEF IInv

\* The pump finishes a descriptor, pausing the chip at the end of a chain.
LEMMA DescDoneInv ==
  ASSUME IInv, NEW ch \in Channels, DescDone(ch)
  PROVE  IInv'
<1> DEFINE off == [dma[ch] EXCEPT !.active = FALSE, !.state = "CH_IDLE",
                                  !.ctrl = @ \ {"ACTIVE"}]
           on == [dma[ch] EXCEPT !.state = "CH_FETCH"]
           c == IF dma[ch].eox THEN off ELSE on
<1>0. ChannelOK(dma[ch])
  BY ChannelFacts DEF IInv
<1>1. ChannelOK(on)
  BY <1>0 DEF ChannelOK, Channel, States
<1>2. ChannelOK(off)
  <2>1. off \in Channel
    BY <1>0 DEF ChannelOK, Channel, States
  <2>2. /\ off.cbp = dma[ch].cbp /\ off.count = dma[ch].count
        /\ off.ctrl = dma[ch].ctrl \ {"ACTIVE"} /\ off.active = FALSE
    BY <1>0 DEF ChannelOK, Channel
  <2> HIDE DEF off
  <2>. QED BY <1>0, <2>1, <2>2 DEF ChannelOK
<1>3. dma' = [dma EXCEPT ![ch] = c] /\ pump = ch /\ pump' = ch
  BY DEF DescDone, Pumping
<1>4. ChipTypeOK' /\ DataPhase' /\ (drq' => drq)
  <2>1. CASE pause_transfer
    BY <2>1, PauseType DEF IInv, TypeOK
  <2>2. CASE UNCHANGED chipVars
    BY <2>2, QuietChip
  <2>. QED BY <2>1, <2>2 DEF DescDone
<1> HIDE DEF off, on
<1>5. ChannelOK(c)
  BY <1>1, <1>2
<1> HIDE DEF c
<1>6. intstat' \subseteq Channels
  BY DEF DescDone, IInv, TypeOK
<1>7. /\ TypeOK' /\ ActiveAgree'
      /\ dma'[ch] = c /\ (\A o \in Channels \ {ch} : dma'[o] = dma[o])
  BY <1>3, <1>4, <1>5, <1>6, ChannelStep DEF DescDone, IInv, TypeOK
<1>8. NoLostDrq'
  BY <1>3, <1>4, <1>7, ChannelsAssumption DEF IInv, NoLostDrq
<1>. QED BY <1>4, <1>7, <1>8 DEF IInv

\* The pump stops: the only step after which HD0 waits unpumped.
LEMMA PumpStopInv ==
  ASSUME IInv, NEW ch \in Channels, PumpStop(ch)
  PROVE  IInv'
<1>1. ChipTypeOK' /\ DataPhase' /\ drq' = drq
  BY QuietChip DEF PumpStop
<1>2. TypeOK' /\ ActiveAgree'
  BY <1>1 DEF PumpStop, IInv, TypeOK, ActiveAgree
<1>3. NoLostDrq'
  <2>1. CASE ch = HD0
    <3>1. ChannelOK(dma[ch])
      BY ChannelFacts DEF IInv
    <3>2. dma[ch].count \in Nat
      BY <3>1 DEF ChannelOK, Channel
    <3>. QED BY <1>1, <2>1, <3>1, <3>2 DEF PumpStop, NoLostDrq, ChannelOK
  <2>2. CASE ch # HD0
    BY <1>1, <2>2, ChannelsAssumption DEF PumpStop, IInv, NoLostDrq
  <2>. QED BY <2>1, <2>2
<1>. QED BY <1>1, <1>2, <1>3 DEF IInv

-----------------------------------------------------------------------------
\* Every step keeps the invariant.
LEMMA NextInv ==
  ASSUME IInv, [Next]_vars
  PROVE  IInv'
<1>1. CASE \E w \in PioWrites : PioWrite(0, w[1]) \/ (sasr = w[1] /\ PioWrite(1, w[2]))
  <2>1. PICK w \in PioWrites : PioWrite(0, w[1]) \/ PioWrite(1, w[2])
    BY <1>1
  <2>2. w[1] \in Byte /\ w[2] \in Byte
    BY <2>1, PioAssumption DEF Byte
  <2>. QED BY <2>1, <2>2, PioWriteInv
<1>2. CASE \E r \in PioReads : PioWrite(0, r) \/ (sasr = r /\ PioRead)
  <2>1. PICK r \in PioReads : PioWrite(0, r) \/ PioRead
    BY <1>2
  <2>2. r \in Byte
    BY <2>1, PioAssumption DEF Byte
  <2>. QED BY <2>1, <2>2, PioWriteInv, PioReadInv
<1>3. ASSUME NEW ch \in Channels,
             \/ \E d \in DOMAIN Desc : NbdpWrite(ch, d)
             \/ \E f \in BcWrites : BcWrite(ch, f[1], f[2])
             \/ \E x \in CtrlWrites : CtrlWrite(ch, x)
             \/ CtrlRead(ch)
      PROVE  IInv'
  <2>1. ASSUME NEW f \in BcWrites PROVE f[1] \in BOOLEAN /\ f[2] \in BOOLEAN
    BY BcAssumption
  <2>2. \A x \in CtrlWrites : x \in SUBSET CtrlBits
    BY CtrlAssumption
  <2>. QED BY <1>3, <2>1, <2>2, NbdpWriteInv, BcWriteInv, CtrlWriteInv, CtrlReadInv
<1>4. CASE \E a \in Addr, v \in Data : Store(a, v)
  BY <1>4, StoreInv
<1>5. CASE scsi_run_dma
  BY <1>5, FetchInv, XferByteInv, XferDoneInv, DescDoneInv, PumpStopInv DEF scsi_run_dma
<1>6. CASE UNCHANGED vars
  <2>1. ChipTypeOK' /\ DataPhase' /\ drq' = drq
    BY <1>6, QuietChip DEF vars
  <2>. QED BY <1>6, <2>1 DEF vars, hpcVars, IInv, TypeOK, ActiveAgree, NoLostDrq
<1>. QED BY <1>1, <1>2, <1>3, <1>4, <1>5, <1>6 DEF Next, Guest

\* IInv holds in every reachable state.
THEOREM Inductive == Spec => []IInv
<1>1. Init => IInv
  BY InitInv
<1>2. IInv /\ [Next]_vars => IInv'
  BY NextInv
<1>. QED BY <1>1, <1>2, PTL DEF Spec

\* Registers, buffer, disk and channels stay well-typed whatever the guest
\* writes; no channel ever addresses memory beyond its descriptor.
THEOREM TypeCorrect == Spec => []TypeOK
<1>1. IInv => TypeOK
  BY DEF IInv
<1>. QED BY <1>1, Inductive, PTL

\* scsi_run_dma() is called often enough: a channel left armed by a handler is
\* waiting for the device, never the device for it.
THEOREM DrqServed == Spec => []NoLostDrq
<1>1. IInv => NoLostDrq
  BY DEF IInv
<1>. QED BY <1>1, Inductive, PTL

\* finish(), reset() and pause_transfer() keep phase, cursor and DRQ consistent.
THEOREM DataPhaseSafe == Spec => []DataPhase
<1>1. IInv => DataPhase
  BY DEF IInv
<1>. QED BY <1>1, Inductive, PTL

\* The ACTIVE bit the guest polls tells the truth about the channel.
THEOREM ActiveTruth == Spec => []ActiveAgree
<1>1. IInv => ActiveAgree
  BY DEF IInv
<1>. QED BY <1>1, Inductive, PTL

-----------------------------------------------------------------------------
(* What a step may never do *)

\* While a channel is pumped only its own pump takes steps.
LEMMA PumpAlone ==
  ASSUME NEW ch \in Channels, pump = ch, Next
  PROVE  \/ scsi_fetch_chain(ch) \/ XferByte(ch) \/ XferDone(ch)
         \/ DescDone(ch) \/ PumpStop(ch)
<1>1. ~CpuRuns
  BY ChannelsAssumption DEF CpuRuns
<1>2. scsi_run_dma
  BY <1>1 DEF Next, Guest, PioWrite, PioRead, NbdpWrite, BcWrite, CtrlWrite, CtrlRead, Store
<1>3. PICK c \in Channels : \/ scsi_fetch_chain(c) \/ XferByte(c) \/ XferDone(c)
                            \/ DescDone(c) \/ PumpStop(c)
  BY <1>2 DEF scsi_run_dma
<1>4. c = ch
  <2>1. CASE PumpStop(c)
    BY <2>1 DEF PumpStop
  <2>2. CASE scsi_fetch_chain(c) \/ XferByte(c) \/ XferDone(c) \/ DescDone(c)
    <3>1. Pumping(c)
      BY <2>2 DEF scsi_fetch_chain, XferByte, XferDone, DescDone
    <3>. QED BY <3>1 DEF Pumping
  <2>. QED BY <1>3, <2>1, <2>2
<1>. QED BY <1>3, <1>4

\* Only the end of a chain deactivates the channel being pumped.
LEMMA PumpDeactivates ==
  ASSUME IInv, NEW ch \in Channels, pump = ch, Next, dma[ch].active, ~dma'[ch].active
  PROVE  DescDone(ch) /\ dma[ch].eox
<1>0. dma \in [Channels -> Channel] /\ dma[ch] \in Channel
  BY DEF IInv, TypeOK
<1>1. CASE scsi_fetch_chain(ch)
  <2> DEFINE d == Desc[dma[ch].nbdp]
  <2>1. dma' = [dma EXCEPT ![ch] = [dma[ch] EXCEPT !.cbp = d.cbp, !.count = d.count,
                                     !.eox = d.eox, !.xie = d.xie, !.nbdp = d.nbdp, !.state = "CH_XFER"]]
    BY <1>0, <1>1 DEF scsi_fetch_chain
  <2> HIDE DEF d
  <2>2. dma'[ch].active = dma[ch].active
    BY <1>0, <2>1 DEF Channel
  <2>. QED BY <2>2
<1>2. CASE XferByte(ch)
  <2>1. dma' = [dma EXCEPT ![ch] = [dma[ch] EXCEPT !.cbp = @ + 1, !.count = @ - 1]]
    BY <1>0, <1>2 DEF XferByte
  <2>2. dma'[ch].active = dma[ch].active
    BY <1>0, <2>1 DEF Channel
  <2>. QED BY <2>2
<1>3. CASE XferDone(ch) \/ (DescDone(ch) /\ ~dma[ch].eox)
  <2>1. PICK st : dma' = [dma EXCEPT ![ch] = [dma[ch] EXCEPT !.state = st]]
    BY <1>0, <1>3 DEF XferDone, DescDone
  <2>2. dma'[ch].active = dma[ch].active
    BY <1>0, <2>1 DEF Channel
  <2>. QED BY <2>2
<1>4. CASE PumpStop(ch)
  BY <1>4 DEF PumpStop
<1>. QED BY <1>1, <1>2, <1>3, <1>4, PumpAlone

\* A chain never ends silently under an open data phase.
THEOREM EndIsTold == Spec => NoSilentEnd
<1> DEFINE P == \A ch \in Channels : pump = ch /\ dma[ch].active /\ ~dma'[ch].active =>
                  phase' = "IDLE" \/ (intrq' /\ ~drq')
<1>1. IInv /\ [Next]_vars => [P]_vars
  <2> SUFFICES ASSUME IInv, Next, NEW ch \in Channels,
                      pump = ch, dma[ch].active, ~dma'[ch].active
               PROVE  phase' = "IDLE" \/ (intrq' /\ ~drq')
    OBVIOUS
  <2>1. DescDone(ch) /\ dma[ch].eox
    BY PumpDeactivates
  <2>2. CASE residual > 0
    <3>1. intrq' = TRUE /\ drq' = FALSE
      BY <2>1, <2>2 DEF DescDone, pause_transfer, Interrupt
    <3>. QED BY <3>1
  <2>3. CASE ~(residual > 0)
    <3>1. phase = "IDLE"
      <4>1. pos \in Nat /\ Len(buf) \in Nat
        BY TypeFacts DEF IInv, TypeOK
      <4>. QED BY <2>3, <4>1 DEF residual, IInv, DataPhase
    <3>2. phase' = phase
      BY <2>1, <2>3 DEF DescDone, chipVars, xferVars
    <3>. QED BY <3>1, <3>2
  <2>. QED BY <2>2, <2>3
<1>. QED BY <1>1, Inductive, PTL DEF Spec, NoSilentEnd

Continues ==
  /\ phase' = phase /\ pos' \in {pos, pos + 1} /\ wr_lba' = wr_lba
  /\ Len(buf') = Len(buf)
  /\ \A k \in 1..Len(buf) : buf'[k] # buf[k] => phase = "DATA_OUT" /\ k = pos + 1

\* The transfer as it was.
LEMMA KeptContinues ==
  ASSUME UNCHANGED <<phase, buf, pos, wr_lba>>
  PROVE  Continues
  BY DEF Continues

\* A command gives an open transfer up or resumes it where it stopped.
LEMMA CommandContinues ==
  ASSUME IInv, phase # "IDLE", pos > 0, phase' # "IDLE", NEW r, exec_command(r)
  PROVE  Continues
<1>1. CanResume
  BY DEF CanResume, IInv, TypeOK, ChipTypeOK, DataPhase, Phases
<1>2. CASE CommandReset(r)
  BY <1>2 DEF CommandReset, reset
<1>3. CASE select_and_transfer(r)
  <2>1. Resume(r)
    BY <1>1, <1>3 DEF select_and_transfer, SelectionTimeout, NoSuchLun, Decode
  <2>. QED BY <2>1, KeptContinues DEF Resume
<1>4. CASE UNCHANGED xferVars
  BY <1>4, KeptContinues DEF xferVars
<1>. QED BY <1>2, <1>3, <1>4 DEF exec_command

\* A byte of DMA moves the cursor by one and, in a WRITE, fills the byte there.
LEMMA ByteContinues ==
  ASSUME IInv, phase # "IDLE", phase' # "IDLE", NEW v \in Data, dma_r \/ dma_w(v)
  PROVE  Continues
<1>0. pos \in Nat /\ buf \in Seq(Data) /\ Len(buf) \in Nat
  BY TypeFacts DEF IInv, TypeOK
<1>1. CASE UNCHANGED chipVars
  BY <1>1, KeptContinues DEF chipVars, xferVars
<1>2. ASSUME NEW b, Advance(b), phase' # "IDLE"
      PROVE  buf' = b /\ pos' = pos + 1 /\ UNCHANGED <<phase, wr_lba>>
  BY <1>2 DEF Advance, finish
<1>3. CASE dma_r /\ Advance(buf)
  BY <1>2, <1>3 DEF Continues
<1>4. CASE phase = "DATA_OUT" /\ pos < Len(buf) /\ Advance([buf EXCEPT ![pos + 1] = v])
  <2> DEFINE b == [buf EXCEPT ![pos + 1] = v]
  <2>1. Len(b) = Len(buf) /\ \A k \in 1..Len(buf) : b[k] # buf[k] => k = pos + 1
    BY <1>0, <1>4
  <2>2. buf' = b /\ pos' = pos + 1 /\ UNCHANGED <<phase, wr_lba>>
    BY <1>2, <1>4
  <2> HIDE DEF b
  <2>. QED BY <1>4, <2>1, <2>2 DEF Continues
<1>. QED BY <1>1, <1>3, <1>4 DEF dma_r, dma_w

\* A transfer that has begun is continued where it is or given up; no command,
\* register write or chunk boundary rewinds it, re-reads the disk under it or
\* sends it to another block.
THEOREM TransferContinues == Spec => ResumeContinues
<1> DEFINE P == phase # "IDLE" /\ pos > 0 /\ phase' # "IDLE" =>
                  /\ phase' = phase /\ pos' \in {pos, pos + 1} /\ wr_lba' = wr_lba
                  /\ Len(buf') = Len(buf)
                  /\ \A k \in 1..Len(buf) : buf'[k] # buf[k] => phase = "DATA_OUT" /\ k = pos + 1
<1>1. IInv /\ [Next]_vars => [P]_vars
  <2> SUFFICES ASSUME IInv, Next, phase # "IDLE", pos > 0, phase' # "IDLE"
               PROVE  Continues
    BY DEF Continues
  <2>1. ASSUME NEW port, NEW v, PioWrite(port, v) PROVE Continues
    <3>1. pio_w(port, v)
      BY <2>1 DEF PioWrite
    <3>2. CASE exec_command([regs EXCEPT ![WD_COMMAND] = v])
      BY <3>2, CommandContinues
    <3>3. CASE UNCHANGED xferVars
      BY <3>3, KeptContinues DEF xferVars
    <3>. QED BY <3>1, <3>2, <3>3 DEF pio_w
  <2>2. CASE PioRead
    BY <2>2, KeptContinues DEF PioRead, pio_r, xferVars
  <2>3. CASE UNCHANGED chipVars
    BY <2>3, KeptContinues DEF chipVars, xferVars
  <2>4. ASSUME NEW ch \in Channels, NEW x, CtrlWrite(ch, x) PROVE Continues
    <3>1. CASE "CRESET" \in x
      BY <2>4, <3>1 DEF CtrlWrite, reset
    <3>2. CASE "CRESET" \notin x
      BY <2>3, <2>4, <3>2 DEF CtrlWrite
    <3>. QED BY <3>1, <3>2
  <2>5. ASSUME NEW ch \in Channels, XferByte(ch) PROVE Continues
    <3>1. dma[ch] \in Channel /\ dma[ch].cbp \in Nat /\ dma[ch].count \in Nat
          /\ dma[ch].cbp + dma[ch].count <= MemSize /\ dma[ch].count # 0
      BY <2>5 DEF XferByte, IInv, TypeOK, Channel
    <3>2. dma[ch].cbp \in Addr
      BY <3>1, MemAssumption DEF Addr
    <3>3. mem[dma[ch].cbp] \in Data
      BY <3>2 DEF IInv, TypeOK
    <3>4. dma_r \/ dma_w(mem[dma[ch].cbp])
      BY <2>5 DEF XferByte
    <3>. QED BY <3>3, <3>4, ByteContinues
  <2>6. ASSUME NEW ch \in Channels, DescDone(ch) PROVE Continues
    <3>1. CASE pause_transfer
      BY <3>1, KeptContinues DEF pause_transfer
    <3>. QED BY <2>3, <2>6, <3>1 DEF DescDone
  <2>. QED
    BY <2>1, <2>2, <2>3, <2>4, <2>5, <2>6
       DEF Next, Guest, scsi_run_dma, NbdpWrite, BcWrite, CtrlRead, Store,
           scsi_fetch_chain, XferDone, PumpStop
<1>. QED BY <1>1, Inductive, PTL DEF Spec, ResumeContinues
-----------------------------------------------------------------------------
(* The inductive invariant: where driver, chip and channel are together.   *)

hd == dma[HD0]
Total == req.n * BlockSize

\* The byte of the request that moves next.
Cursor == IF phase = "IDLE" THEN 0 ELSE pos

\* The k-th byte of the request's blocks on the disk.
DiskByte(k) == BlockRead(req.lba + ((k - 1) \div BlockSize))[((k - 1) % BlockSize) + 1]

\* The register file holds the request.
Programmed(r) ==
  /\ r[3] = req.op /\ r[5] = 0 /\ r[6] = 0 /\ r[7] = 0 /\ r[8] = req.lba
  /\ r[10] = 0 /\ r[11] = req.n /\ r[15] = 0 /\ r[21] = DISK_TARGET

\* It does so after the first k stores of the script.
ProgrammedTo(k) ==
  /\ sasr = CASE k = 0 -> sasr [] k \in 1 .. 10 -> k + 2 [] k = 11 -> 15 [] k = 12 -> 16 [] OTHER -> 21
  /\ k >= 2 => regs[3] = req.op
  /\ k >= 4 => regs[5] = 0
  /\ k >= 5 => regs[6] = 0
  /\ k >= 6 => regs[7] = 0
  /\ k >= 7 => regs[8] = req.lba
  /\ k >= 9 => regs[10] = 0
  /\ k >= 10 => regs[11] = req.n
  /\ k >= 12 => regs[15] = 0

\* The data phase of the request is open, and what has moved has moved rightly.
Moving ==
  /\ phase = IF IsWrite(req) THEN "DATA_OUT" ELSE "DATA_IN"
  /\ Len(buf) = Total
  /\ tgt_status = GOOD
  /\ IF IsWrite(req)
       THEN wr_lba = req.lba /\ \A k \in 1 .. pos : buf[k] = mem[req.base + k - 1]
       ELSE /\ \A k \in 1 .. Total : buf[k] = DiskByte(k)
            /\ \A k \in 1 .. pos : mem[req.base + k - 1] = buf[k]

\* A descriptor of a chunk that starts at an address.
Covered(c, d, a) == <<c, d>> \in Layout[req] /\ Desc[d].cbp = a

\* The channel works on a descriptor of the chunk, or is about to.
OnTrack ==
  /\ hd.active /\ hd.to_device = IsWrite(req)
  /\ \/ hd.state = "CH_FETCH" /\ Covered(chunk, hd.nbdp, req.base + Cursor)
     \/ /\ hd.state \in {"CH_XFER", "CH_DESC_DONE"}
        /\ hd.cbp = req.base + Cursor
        /\ hd.state = "CH_DESC_DONE" => hd.count = 0
        /\ "select" \in todo => hd.count # 0
        /\ \E d \in DOMAIN Desc :
             /\ <<chunk, d>> \in Layout[req] /\ Desc[d].cbp >= req.base
             /\ hd.eox = Desc[d].eox /\ hd.nbdp = Desc[d].nbdp
             /\ hd.cbp + hd.count = Desc[d].cbp + Desc[d].count

\* Armed and on track, or about to be armed.
Feeding ==
  IF "arm" \in todo THEN ~hd.active /\ Covered(chunk, hd.nbdp, req.base + Cursor) ELSE OnTrack

\* Before the SELECT of a chunk.
BeforeSelect ==
  /\ ~drq /\ ~intrq
  /\ IF chunk = 1 THEN phase = "IDLE" ELSE Moving /\ pos > 0

\* The chip has paused at the end of a chunk that is not the last.
PausedAt ==
  /\ Moving /\ pos > 0 /\ ~drq /\ intrq /\ ~hd.active
  /\ regs[WD_SCSI_STATUS] \in {ST_PAUSED_IN, ST_PAUSED_OUT}
  /\ chunk + 1 \in DOMAIN req.chains
  /\ Covered(chunk + 1, req.chains[chunk + 1], req.base + pos)

\* The command is done; what a read asked for is in the buffer.
Finished ==
  /\ phase = "IDLE" /\ ~drq
  /\ ~IsWrite(req) => \A k \in 1 .. Total : mem[req.base + k - 1] = DiskByte(k)
Success == Finished /\ intrq /\ regs[WD_SCSI_STATUS] = ST_SUCCESS

Quiet == phase = "IDLE" /\ ~drq /\ ~intrq /\ ~hd.active

AtIdle ==
  /\ at = "idle" /\ req = None /\ step = 0 /\ todo = {} /\ chunk = 1
  /\ Quiet /\ pump = NoPump
AtProgram ==
  /\ at = "program" /\ step \in 0 .. 13 /\ todo = {} /\ chunk = 1
  /\ Quiet /\ pump = NoPump /\ ProgrammedTo(step)
AtChain ==
  /\ at = "chain" /\ Programmed(regs) /\ pump = NoPump
  /\ BeforeSelect /\ ~hd.active
  /\ Covered(chunk, req.chains[chunk], req.base + Cursor)
AtIssue ==
  /\ at = "issue" /\ Programmed(regs) /\ todo \subseteq {"arm", "select"}
  /\ \/ "select" \in todo /\ BeforeSelect /\ Feeding
     \/ "select" \notin todo /\ Moving /\ drq /\ ~intrq /\ Feeding
     \/ todo = {} /\ PausedAt
     \/ "select" \notin todo /\ Success
AtStatus ==
  /\ at = "status" /\ Programmed(regs) /\ pump = NoPump /\ todo = {}
  /\ sasr = WD_SCSI_STATUS
  /\ PausedAt \/ Success
AtDone ==
  /\ at = "done" /\ pump = NoPump /\ Finished /\ ~intrq

Serving ==
  /\ req \in Requests
  /\ chunk \in DOMAIN req.chains
  /\ AtProgram \/ AtChain \/ AtIssue \/ AtStatus \/ AtDone

Common ==
  /\ pump \in {NoPump, HD0}
  /\ DirectWrite => DOMAIN overlay = {}

DrvInv == IInv /\ Common /\ (AtIdle \/ Serving)

LEMMA RequestFacts ==
  ASSUME NEW r \in Requests
  PROVE  /\ r # None /\ r.op \in {READ10, WRITE10} /\ r.op \in Byte
         /\ r.lba \in Nat /\ r.lba \in Byte /\ r.n \in Nat /\ r.n \in Byte
         /\ r.base \in Nat /\ r.n * BlockSize \in Nat
         /\ r.base + r.n * BlockSize <= MemSize
         /\ r.chains \in Seq(DOMAIN Desc)
         /\ 1 \in DOMAIN r.chains
         /\ \A c \in DOMAIN r.chains : c \in Nat /\ r.chains[c] \in DOMAIN Desc
<1>1. /\ r # None /\ r.op \in {READ10, WRITE10} /\ r.lba \in Byte /\ r.n \in Byte
      /\ r.base \in Nat /\ r.base + r.n * BlockSize <= MemSize
      /\ r.chains \in Seq(DOMAIN Desc)
  BY RequestAssumption
<1>2. r.lba \in Nat /\ r.n \in Nat
  <2>1. r.lba \in Byte /\ r.n \in Byte
    BY <1>1
  <2>. QED BY <2>1 DEF Byte
<1>3. r.n * BlockSize \in Nat
  BY <1>2, BlockSizeAssumption
<1>4. r.op \in Byte
  BY <1>1 DEF Byte, READ10, WRITE10
<1>5. 1 \in DOMAIN r.chains
  <2>1. Layout[r] \subseteq (DOMAIN r.chains) \X (DOMAIN Desc) /\ <<1, r.chains[1]>> \in Layout[r]
    BY LayoutAssumption, Zenon
  <2>. QED BY <2>1
<1>6. \A c \in DOMAIN r.chains : c \in Nat /\ r.chains[c] \in DOMAIN Desc
  BY <1>1
<1>. QED BY <1>1, <1>2, <1>3, <1>4, <1>5, <1>6

\* The chains begin at the buffer; each descriptor continues the one before it.
LEMMA LayoutStarts ==
  ASSUME NEW r \in Requests
  PROVE  /\ Layout[r] \subseteq (DOMAIN r.chains) \X (DOMAIN Desc)
         /\ <<1, r.chains[1]>> \in Layout[r] /\ Desc[r.chains[1]].cbp = r.base
  BY LayoutAssumption, Zenon

LEMMA LayoutContinues ==
  ASSUME NEW r \in Requests, NEW c, NEW d, <<c, d>> \in Layout[r]
  PROVE  /\ c \in DOMAIN r.chains /\ c \in Nat /\ d \in DOMAIN Desc
         /\ Desc[d] \in Descriptor /\ Desc[d].count > 0
         /\ Desc[d].cbp + Desc[d].count < r.base + r.n * BlockSize =>
              IF Desc[d].eox
                THEN /\ c + 1 \in DOMAIN r.chains /\ <<c + 1, r.chains[c + 1]>> \in Layout[r]
                     /\ Desc[r.chains[c + 1]].cbp = Desc[d].cbp + Desc[d].count
                ELSE /\ <<c, Desc[d].nbdp>> \in Layout[r]
                     /\ Desc[Desc[d].nbdp].cbp = Desc[d].cbp + Desc[d].count
<1>1. c \in DOMAIN r.chains /\ d \in DOMAIN Desc
  BY LayoutStarts
<1>2. c \in Nat
  BY <1>1, RequestFacts
<1>3. Desc[d] \in Descriptor
  BY <1>1, DescAssumption
<1>. QED BY <1>1, <1>2, <1>3, LayoutAssumption

LEMMA Hd0 == HD0 \in Channels /\ NoPump \notin Channels /\ HD0 # NoPump
  BY ChannelsAssumption

\* The predicates depend on nothing else.
LEMMA MovingSame ==
  ASSUME Moving, UNCHANGED <<phase, buf, pos, tgt_status, wr_lba, mem, req, image, overlay>>
  PROVE  Moving'
  BY DEF Moving, Total, DiskByte, BlockRead, IsWrite

LEMMA FinishedSame ==
  ASSUME Finished, UNCHANGED <<phase, drq, mem, req, image, overlay>>
  PROVE  Finished'
  BY DEF Finished, Total, DiskByte, BlockRead, IsWrite

LEMMA DrvInitially == DrvInit => DrvInv
<1> SUFFICES ASSUME DrvInit PROVE DrvInv
  OBVIOUS
<1>1. IInv
  BY InitInv DEF DrvInit
<1>2. Common
  BY DEF DrvInit, Init, HpcInit, ChipInit, Common
<1>3. ~hd.active
  BY Hd0 DEF DrvInit, Init, HpcInit, hd
<1>4. AtIdle
  BY <1>3 DEF DrvInit, Init, HpcInit, ChipInit, AtIdle, Quiet
<1>. QED BY <1>1, <1>2, <1>4 DEF DrvInv

LEMMA StartKeeps ==
  ASSUME DrvInv, NEW r \in Requests, Start(r)
  PROVE  DrvInv'
<1>1. AtIdle /\ req' = r /\ at' = "program" /\ UNCHANGED <<vars, step, todo, chunk>>
  BY DEF DrvInv, Start, Serving, AtProgram, AtChain, AtIssue, AtStatus, AtDone
<1>2. IInv' /\ Common'
  <2>1. IInv /\ UNCHANGED vars => IInv'
    BY NextInv
  <2>. QED BY <1>1, <2>1 DEF DrvInv, Common, vars, hpcVars, chipVars, diskVars
<1>3. Quiet' /\ pump' = NoPump
  BY <1>1 DEF AtIdle, Quiet, hd, vars, hpcVars, chipVars, xferVars
<1>4. ProgrammedTo(step)'
  BY <1>1 DEF AtIdle, ProgrammedTo
<1>5. req' \in Requests /\ chunk' \in DOMAIN req'.chains
  BY <1>1, RequestFacts DEF AtIdle
<1>. QED BY <1>1, <1>2, <1>3, <1>4, <1>5 DEF DrvInv, Serving, AtProgram, AtIdle

\* A store to a register that is neither COMMAND nor AUX STATUS.
LEMMA PlainStore ==
  ASSUME IInv, ~drq, NEW port \in {0, 1}, NEW v \in Byte, PioWrite(port, v),
         port = 1 => sasr # WD_COMMAND /\ sasr # WD_AUX_STATUS
  PROVE  /\ pump = NoPump /\ pump' = NoPump
         /\ IF port = 0 THEN regs' = regs /\ sasr' = v % 32
            ELSE regs' = [regs EXCEPT ![sasr] = v] /\ sasr' = (sasr + 1) % 32
         /\ UNCHANGED <<xferVars, intrq, sense, tgt_status, diskVars, dma, intstat, mem>>
         /\ IInv'
<1>1. IInv'
  BY PioWriteInv
<1>2. pump = NoPump /\ pio_w(port, v) /\ UNCHANGED <<dma, intstat, mem>>
      /\ pump' = IF dma[HD0].active /\ drq' THEN HD0 ELSE NoPump
  BY DEF PioWrite, CpuRuns
<1>3. /\ IF port = 0 THEN regs' = regs /\ sasr' = v % 32
         ELSE regs' = [regs EXCEPT ![sasr] = v] /\ sasr' = (sasr + 1) % 32
      /\ UNCHANGED <<xferVars, intrq, sense, tgt_status, diskVars>>
  BY <1>2 DEF pio_w
<1>4. pump' = NoPump
  BY <1>2, <1>3 DEF xferVars
<1>. QED BY <1>1, <1>2, <1>3, <1>4

LEMMA ProgramKeeps ==
  ASSUME DrvInv, Program
  PROVE  DrvInv' /\ UNCHANGED <<image, overlay, mem, intrq>>
<1>1. /\ AtProgram /\ req \in Requests /\ step \in 0 .. 13 /\ chunk \in DOMAIN req.chains
      /\ step' = step + 1 /\ UNCHANGED <<req, todo, chunk, reply>>
      /\ at' = IF step + 1 = 14 THEN "chain" ELSE "program"
  BY DEF DrvInv, Program, AtIdle, Serving, AtProgram, AtChain, AtIssue, AtStatus, AtDone, Script
<1>2. PICK port \in {0, 1}, v \in Byte :
         /\ PioWrite(port, v)
         /\ port = (IF step \in {0, 10, 12} THEN 0 ELSE 1)
         /\ v = CASE step = 0 -> WD_CDB [] step = 1 -> req.op [] step = 6 -> req.lba [] step = 9 -> req.n
                  [] step = 10 -> WD_TARGET_LUN [] step = 12 -> WD_DEST_ID [] step = 13 -> DISK_TARGET
                  [] OTHER -> 0
  <2>1. PICK w : w = Script(req)[step + 1] /\ PioWrite(w[1], w[2])
    BY DEF Program
  <2>2. /\ w[1] = (IF step \in {0, 10, 12} THEN 0 ELSE 1)
        /\ w[2] = CASE step = 0 -> WD_CDB [] step = 1 -> req.op [] step = 6 -> req.lba [] step = 9 -> req.n
                  [] step = 10 -> WD_TARGET_LUN [] step = 12 -> WD_DEST_ID [] step = 13 -> DISK_TARGET
                  [] OTHER -> 0
    BY <1>1, <2>1 DEF Script
  <2>3. w[2] \in Byte /\ w[1] \in {0, 1}
    <3>1. req.op \in Byte /\ req.lba \in Byte /\ req.n \in Byte
      BY <1>1, RequestFacts
    <3>2. 0 \in Byte /\ WD_CDB \in Byte /\ WD_TARGET_LUN \in Byte /\ WD_DEST_ID \in Byte /\ DISK_TARGET \in Byte
      BY DEF Byte, WD_CDB, WD_TARGET_LUN, WD_DEST_ID, DISK_TARGET
    <3>3. w[2] \in Byte
      BY <2>2, <3>1, <3>2
    <3>. QED BY <2>2, <3>3
  <2>. QED BY <2>1, <2>2, <2>3
<1>3. ~drq /\ IInv /\ regs \in [0 .. 30 -> Byte]
  BY <1>1 DEF AtProgram, Quiet, DrvInv, IInv, TypeOK, ChipTypeOK
<1>4. port = 1 => sasr \in 3 .. 21 /\ sasr # WD_COMMAND /\ sasr # WD_AUX_STATUS
  BY <1>1, <1>2 DEF AtProgram, ProgrammedTo, WD_COMMAND, WD_AUX_STATUS
<1>5. /\ pump = NoPump /\ pump' = NoPump
      /\ IF port = 0 THEN regs' = regs /\ sasr' = v % 32
         ELSE regs' = [regs EXCEPT ![sasr] = v] /\ sasr' = (sasr + 1) % 32
      /\ UNCHANGED <<xferVars, intrq, sense, tgt_status, diskVars, dma, intstat, mem>>
      /\ IInv'
  BY <1>2, <1>3, <1>4, PlainStore
<1>6. Common' /\ Quiet' /\ BeforeSelect' /\ Cursor' = 0
  BY <1>1, <1>5 DEF DrvInv, Common, diskVars, Quiet, AtProgram, hd, xferVars, BeforeSelect, Cursor
<1>7. CASE step < 13
  <2>1. ProgrammedTo(step)'
    <3>1. ProgrammedTo(step) /\ req' = req /\ step' = step + 1
      BY <1>1 DEF AtProgram
    <3>2. sasr' = CASE step + 1 \in 1 .. 10 -> step + 3 [] step + 1 = 11 -> 15 [] step + 1 = 12 -> 16 [] OTHER -> 21
      <4>1. CASE step \in {0, 10, 12}
        BY <1>2, <1>5, <3>1, <4>1, <1>7, <1>1 DEF WD_CDB, WD_TARGET_LUN, WD_DEST_ID
      <4>2. CASE step \notin {0, 10, 12}
        <5>1. sasr' = (sasr + 1) % 32 /\ step \in (1 .. 9) \cup {11}
          BY <1>1, <1>2, <1>5, <1>7, <4>2
        <5>2. sasr = IF step = 11 THEN 15 ELSE step + 2
          BY <3>1, <5>1 DEF ProgrammedTo
        <5>. QED BY <5>1, <5>2
      <4>. QED BY <4>1, <4>2
    <3>. QED BY <1>1, <1>2, <1>3, <1>4, <1>5, <1>7, <3>1, <3>2
         DEF ProgrammedTo, WD_CDB, WD_TARGET_LUN, WD_DEST_ID, DISK_TARGET
  <2>. QED BY <1>1, <1>5, <1>6, <1>7, <2>1 DEF DrvInv, Serving, AtProgram, diskVars
<1>8. CASE step = 13
  <2>1. Programmed(regs)'
    <3>1. /\ sasr = 21 /\ regs[3] = req.op /\ regs[5] = 0 /\ regs[6] = 0 /\ regs[7] = 0
          /\ regs[8] = req.lba /\ regs[10] = 0 /\ regs[11] = req.n /\ regs[15] = 0
      BY <1>1, <1>8 DEF AtProgram, ProgrammedTo
    <3>2. port = 1 /\ v = DISK_TARGET
      BY <1>2, <1>8
    <3>3. regs' = [regs EXCEPT ![21] = DISK_TARGET]
      BY <1>5, <3>1, <3>2
    <3>. QED BY <1>1, <1>3, <3>1, <3>3 DEF Programmed
  <2>2. (Covered(chunk, req.chains[chunk], req.base + Cursor))'
    <3>1. <<1, req.chains[1]>> \in Layout[req] /\ Desc[req.chains[1]].cbp = req.base /\ req.base \in Nat
      BY <1>1, LayoutStarts, RequestFacts
    <3>. QED BY <1>1, <1>6, <3>1 DEF Covered, AtProgram
  <2>3. at' = "chain" /\ ~hd'.active
    BY <1>1, <1>6, <1>8 DEF Quiet
  <2>. QED BY <1>1, <1>5, <1>6, <2>1, <2>2, <2>3 DEF DrvInv, Serving, AtChain, diskVars
<1>. QED BY <1>1, <1>7, <1>8

\* Where the driver is tells what holds.
LEMMA Places ==
  ASSUME DrvInv
  PROVE  /\ at # "idle" => Serving
         /\ at = "idle" => AtIdle
         /\ at = "program" => AtProgram
         /\ at = "chain" => AtChain
         /\ at = "issue" => AtIssue
         /\ at = "status" => AtStatus
         /\ at = "done" => AtDone
         /\ pump # NoPump => AtIssue /\ pump = HD0
  BY DEF DrvInv, Common, AtIdle, Serving, AtProgram, AtChain, AtIssue, AtStatus, AtDone

LEMMA CursorSame ==
  ASSUME UNCHANGED <<phase, pos>>
  PROVE  Cursor' = Cursor
  BY DEF Cursor

LEMMA BeforeSelectSame ==
  ASSUME BeforeSelect, chunk' = chunk,
         UNCHANGED <<drq, intrq, phase, buf, pos, tgt_status, wr_lba, mem, req, image, overlay>>
  PROVE  BeforeSelect'
  BY MovingSame DEF BeforeSelect

LEMMA OnTrackSame ==
  ASSUME OnTrack, hd' = hd, Cursor' = Cursor, UNCHANGED <<chunk, req>>,
         "select" \in todo' => "select" \in todo
  PROVE  OnTrack'
<1>1. CASE hd.state = "CH_FETCH" /\ Covered(chunk, hd.nbdp, req.base + Cursor)
  BY <1>1 DEF OnTrack, Covered, IsWrite
<1>2. CASE hd.state \in {"CH_XFER", "CH_DESC_DONE"}
  BY <1>2 DEF OnTrack, IsWrite
<1>. QED BY <1>1, <1>2 DEF OnTrack

LEMMA SetChainKeeps ==
  ASSUME DrvInv, SetChain
  PROVE  DrvInv'
<1>1. AtChain /\ Serving /\ req \in Requests /\ chunk \in DOMAIN req.chains
  BY Places DEF SetChain, Serving
<1>2. /\ NbdpWrite(HD0, req.chains[chunk]) /\ req.chains[chunk] \in DOMAIN Desc
      /\ at' = "issue" /\ todo' = {"arm", "select"} /\ UNCHANGED <<req, step, chunk, reply>>
  BY <1>1, RequestFacts DEF SetChain
<1>3. IInv'
  BY <1>2, Hd0, NbdpWriteInv DEF DrvInv
<1>4. /\ UNCHANGED <<chipVars, intstat, pump, mem>>
      /\ hd'.active = hd.active /\ hd'.nbdp = req.chains[chunk]
  <2>1. dma' = [dma EXCEPT ![HD0].nbdp = req.chains[chunk]] /\ UNCHANGED <<chipVars, intstat, pump, mem>>
    BY <1>2 DEF NbdpWrite
  <2>2. dma \in [Channels -> Channel]
    BY DEF DrvInv, IInv, TypeOK
  <2>. QED BY <2>1, <2>2, Hd0 DEF hd, Channel
<1>5. BeforeSelect' /\ Cursor' = Cursor
  BY <1>1, <1>2, <1>4, BeforeSelectSame, CursorSame DEF AtChain, chipVars, xferVars, diskVars
<1>6. Feeding'
  BY <1>1, <1>2, <1>4, <1>5 DEF AtChain, Feeding, Covered
<1>7. AtIssue'
  BY <1>1, <1>2, <1>4, <1>5, <1>6 DEF AtIssue, AtChain, chipVars, Programmed
<1>8. Common'
  BY <1>4 DEF DrvInv, Common, chipVars, diskVars
<1>. QED BY <1>1, <1>2, <1>3, <1>7, <1>8 DEF DrvInv, Serving

LEMMA PointKeeps ==
  ASSUME DrvInv, PointAtCommand
  PROVE  DrvInv'
<1>1. AtIssue /\ Serving /\ "select" \in todo
  BY Places DEF PointAtCommand
<1>2. BeforeSelect /\ Feeding
  BY <1>1 DEF AtIssue
<1>3. PioWrite(0, WD_COMMAND) /\ UNCHANGED drvVars
  BY DEF PointAtCommand
<1>4. WD_COMMAND \in Byte /\ IInv /\ ~drq
  BY <1>2 DEF WD_COMMAND, Byte, DrvInv, BeforeSelect
<1>5. /\ pump' = NoPump /\ IInv' /\ regs' = regs
      /\ UNCHANGED <<xferVars, intrq, sense, tgt_status, diskVars, dma, intstat, mem>>
  BY <1>3, <1>4, PlainStore
<1>6. BeforeSelect' /\ Cursor' = Cursor /\ hd' = hd
  BY <1>2, <1>3, <1>5, BeforeSelectSame, CursorSame DEF xferVars, diskVars, drvVars, hd
<1>7. Feeding'
  BY <1>2, <1>3, <1>6, OnTrackSame DEF Feeding, Covered, drvVars
<1>8. AtIssue' /\ Common'
  BY <1>1, <1>3, <1>5, <1>6, <1>7 DEF AtIssue, Programmed, drvVars, DrvInv, Common, diskVars
<1>. QED BY <1>1, <1>3, <1>5, <1>8 DEF DrvInv, Serving, drvVars

LEMMA ArmKeeps ==
  ASSUME DrvInv, Arm
  PROVE  DrvInv'
<1>1. AtIssue /\ Serving /\ "arm" \in todo
  BY Places DEF Arm
<1> DEFINE x == {"ACTIVE"} \cup (IF IsWrite(req) THEN {"DIR"} ELSE {})
<1>2. CtrlWrite(HD0, x) /\ todo' = todo \ {"arm"} /\ UNCHANGED <<req, at, step, chunk, reply>>
  BY DEF Arm
<1>3. x \in SUBSET CtrlBits
  BY DEF CtrlBits
<1>4. IInv'
  BY <1>2, <1>3, Hd0, CtrlWriteInv DEF DrvInv
<1>5. hd' = Armed(hd, x) /\ UNCHANGED <<chipVars, intstat, mem>>
      /\ pump' = IF Armed(hd, x).active THEN HD0 ELSE NoPump
  <2>1. dma \in [Channels -> Channel] /\ "CRESET" \notin x
    BY DEF DrvInv, IInv, TypeOK
  <2>. QED BY <1>2, <2>1, Hd0 DEF CtrlWrite, hd
<1>6. UNCHANGED <<regs, phase, pos, drq, intrq, buf, tgt_status, wr_lba, image, overlay>>
  BY <1>5 DEF chipVars, xferVars, diskVars
<1>7. Feeding => ~hd.active /\ Covered(chunk, hd.nbdp, req.base + Cursor)
  BY <1>1 DEF Feeding
<1>8. ASSUME ~hd.active
      PROVE  hd'.active /\ hd'.state = "CH_FETCH" /\ hd'.nbdp = hd.nbdp /\ hd'.to_device = IsWrite(req)
             /\ pump' = HD0
  <2>1. hd \in Channel
    BY Hd0 DEF DrvInv, IInv, TypeOK, hd
  <2>2. NewActive(hd, x) /\ "FLUSH" \notin x /\ ("DIR" \in x <=> IsWrite(req))
    BY DEF NewActive
  <2> HIDE DEF x
  <2>3. /\ hd'.active = (NewActive(hd, x) /\ ~("FLUSH" \in x))
        /\ hd'.state = (IF "FLUSH" \in x THEN "CH_IDLE"
                        ELSE IF ~hd.active /\ NewActive(hd, x) /\ ~("FLUSH" \in x) THEN "CH_FETCH" ELSE hd.state)
        /\ hd'.nbdp = hd.nbdp /\ hd'.to_device = ("DIR" \in x)
    BY <1>5, <2>1 DEF Armed, Channel
  <2>4. hd'.active /\ hd'.state = "CH_FETCH"
    BY <1>8, <2>2, <2>3
  <2>5. hd'.to_device = IsWrite(req)
    BY <2>2, <2>3 DEF IsWrite
  <2>. QED BY <1>5, <2>3, <2>4, <2>5
<1>9. ASSUME Feeding PROVE Feeding' /\ pump' = HD0
  <2>1. ~hd.active /\ Covered(chunk, hd.nbdp, req.base + Cursor)
    BY <1>7, <1>9
  <2>2. OnTrack'
    BY <1>2, <1>6, <1>8, <2>1 DEF OnTrack, Covered, Cursor, IsWrite
  <2>. QED BY <1>2, <1>8, <2>1, <2>2 DEF Feeding
<1>10. AtIssue'
  <2>1. CASE "select" \in todo /\ BeforeSelect /\ Feeding
    <3>1. BeforeSelect'
      BY <1>2, <1>5, <1>6, <2>1, BeforeSelectSame
    <3>. QED BY <1>1, <1>2, <1>6, <1>9, <2>1, <3>1 DEF AtIssue, Programmed
  <2>2. CASE "select" \notin todo /\ Moving /\ drq /\ ~intrq /\ Feeding
    <3>1. Moving'
      BY <1>2, <1>5, <1>6, <2>2, MovingSame
    <3>. QED BY <1>1, <1>2, <1>6, <1>9, <2>2, <3>1 DEF AtIssue, Programmed
  <2>3. CASE "select" \notin todo /\ Success
    <3>1. Success'
      BY <1>2, <1>5, <1>6, <2>3, FinishedSame DEF Success
    <3>. QED BY <1>1, <1>2, <1>6, <2>3, <3>1 DEF AtIssue, Programmed
  <2>. QED BY <1>1, <2>1, <2>2, <2>3 DEF AtIssue
<1>11. Common'
  BY <1>5, <1>6 DEF DrvInv, Common
<1>. QED BY <1>1, <1>2, <1>4, <1>10, <1>11 DEF DrvInv, Serving

LEMMA InterruptedKeeps ==
  ASSUME DrvInv, Interrupted
  PROVE  DrvInv'
<1>1. AtIssue /\ Serving /\ todo = {} /\ intrq
  BY Places DEF Interrupted
<1>2. PausedAt \/ Success
  BY <1>1 DEF AtIssue
<1>3. PioWrite(0, WD_SCSI_STATUS) /\ at' = "status" /\ UNCHANGED <<req, step, todo, chunk, reply>>
  BY DEF Interrupted
<1>4. WD_SCSI_STATUS \in Byte /\ IInv /\ ~drq
  BY <1>2 DEF WD_SCSI_STATUS, Byte, DrvInv, PausedAt, Success, Finished
<1>5. /\ pump' = NoPump /\ IInv' /\ regs' = regs /\ sasr' = WD_SCSI_STATUS % 32
      /\ UNCHANGED <<xferVars, intrq, sense, tgt_status, diskVars, dma, intstat, mem>>
  BY <1>3, <1>4, PlainStore
<1>6. sasr' = WD_SCSI_STATUS
  BY <1>5 DEF WD_SCSI_STATUS
<1>7. PausedAt' \/ Success'
  <2>1. UNCHANGED <<phase, pos, drq, buf, wr_lba, image, overlay>> /\ hd' = hd
    BY <1>5 DEF xferVars, diskVars, hd
  <2>2. CASE PausedAt
    <3>1. Moving'
      BY <1>3, <1>5, <2>1, <2>2, MovingSame DEF PausedAt
    <3>. QED BY <1>3, <1>5, <2>1, <2>2, <3>1 DEF PausedAt, Covered
  <2>3. CASE Success
    BY <1>3, <1>5, <2>1, <2>3, FinishedSame DEF Success
  <2>. QED BY <1>2, <2>2, <2>3
<1>8. AtStatus'
  BY <1>1, <1>3, <1>5, <1>6, <1>7 DEF AtStatus, AtIssue, Programmed
<1>9. Common'
  BY <1>5 DEF DrvInv, Common, diskVars
<1>. QED BY <1>1, <1>3, <1>5, <1>8, <1>9 DEF DrvInv, Serving

LEMMA ReadStatusKeeps ==
  ASSUME DrvInv, ReadStatus
  PROVE  DrvInv'
<1>1. AtStatus /\ Serving /\ req \in Requests /\ chunk \in DOMAIN req.chains
  BY Places DEF ReadStatus, Serving
<1>2. PioRead /\ UNCHANGED <<req, step, todo, reply>>
  BY DEF ReadStatus
<1>3. IInv'
  BY <1>2, PioReadInv DEF DrvInv
<1>4. ~intrq' /\ UNCHANGED <<regs, xferVars, tgt_status, diskVars, hpcVars>>
  BY <1>1, <1>2 DEF PioRead, pio_r, AtStatus
<1>5. UNCHANGED <<phase, pos, drq, buf, wr_lba, image, overlay, mem, pump>> /\ hd' = hd
  BY <1>4 DEF xferVars, diskVars, hpcVars, hd
<1>6. Common'
  BY <1>5 DEF DrvInv, Common
<1>7. CASE regs[WD_SCSI_STATUS] = ST_SUCCESS /\ at' = "done" /\ UNCHANGED chunk
  <2>1. Finished
    BY <1>1, <1>7 DEF AtStatus, PausedAt, Success, ST_SUCCESS, ST_PAUSED_IN, ST_PAUSED_OUT
  <2>2. Finished'
    BY <1>2, <1>5, <2>1, FinishedSame
  <2>3. AtDone'
    BY <1>1, <1>4, <1>5, <1>7, <2>2 DEF AtDone, AtStatus
  <2>. QED BY <1>1, <1>2, <1>3, <1>6, <1>7, <2>3 DEF DrvInv, Serving
<1>8. CASE /\ regs[WD_SCSI_STATUS] \in {ST_PAUSED_IN, ST_PAUSED_OUT}
           /\ at' = "chain" /\ chunk' = chunk + 1
  <2>1. PausedAt
    BY <1>1, <1>8 DEF AtStatus, PausedAt, Success, ST_SUCCESS, ST_PAUSED_IN, ST_PAUSED_OUT
  <2>2. Moving' /\ pos' > 0 /\ ~drq' /\ ~hd'.active
    BY <1>2, <1>4, <1>5, <2>1, MovingSame DEF PausedAt
  <2>3. chunk \in Nat /\ chunk >= 1 /\ chunk' # 1
    <3>1. req.chains \in Seq(DOMAIN Desc)
      BY <1>1, RequestFacts
    <3>2. chunk \in 1 .. Len(req.chains)
      BY <1>1, <3>1
    <3>. QED BY <1>8, <3>2
  <2>4. BeforeSelect'
    BY <1>4, <2>2, <2>3 DEF BeforeSelect
  <2>5. Cursor' = pos
    BY <1>5, <2>1 DEF Cursor, PausedAt, Moving
  <2>6. Covered(chunk, req.chains[chunk], req.base + Cursor)' /\ chunk' \in DOMAIN req'.chains
    BY <1>2, <1>5, <1>8, <2>1, <2>5 DEF Covered, PausedAt
  <2>7. AtChain'
    BY <1>1, <1>2, <1>4, <1>5, <1>8, <2>2, <2>4, <2>6 DEF AtChain, AtStatus, Programmed
  <2>. QED BY <1>1, <1>2, <1>3, <1>6, <2>6, <2>7 DEF DrvInv, Serving
<1>. QED BY <1>7, <1>8 DEF ReadStatus

\* FLUSH stops the channel.
LEMMA Flushes ==
  ASSUME DrvInv, NEW x \in SUBSET CtrlBits, "FLUSH" \in x, CtrlWrite(HD0, x)
  PROVE  ~hd'.active /\ pump' = NoPump /\ pump = NoPump /\ IInv' /\ UNCHANGED <<mem, intstat>>
<1>1. hd \in Channel /\ dma \in [Channels -> Channel]
  BY Hd0 DEF DrvInv, IInv, TypeOK, hd
<1>2. ~Armed(hd, x).active
  BY <1>1 DEF Armed, Channel
<1>3. hd' = Armed(hd, x)
  BY <1>1, Hd0 DEF CtrlWrite, hd
<1>. QED BY <1>2, <1>3, CtrlWriteInv, Hd0 DEF CtrlWrite, CpuRuns, DrvInv, hd

LEMMA FlushKeeps ==
  ASSUME DrvInv, Flush
  PROVE  DrvInv' /\ UNCHANGED <<mem, image, overlay>>
<1>1. AtDone
  BY Places DEF Flush
<1>2. CtrlWrite(HD0, {"FLUSH"}) /\ req' = None /\ at' = "idle" /\ step' = 0 /\ todo' = {} /\ chunk' = 1
  BY DEF Flush
<1>3. ~hd'.active /\ pump' = NoPump /\ IInv' /\ UNCHANGED mem
  BY <1>2, Flushes DEF CtrlBits
<1>4. UNCHANGED chipVars
  BY <1>2 DEF CtrlWrite
<1>. QED
  BY <1>1, <1>2, <1>3, <1>4
     DEF DrvInv, Common, AtIdle, Quiet, AtDone, Finished, chipVars, xferVars, diskVars

LEMMA AbortKeeps ==
  ASSUME DrvInv, Abort
  PROVE  DrvInv' /\ UNCHANGED <<mem, image, overlay>>
<1>1. /\ CtrlWrite(HD0, {"CRESET", "FLUSH"}) /\ UNCHANGED reply
      /\ req' = None /\ at' = "idle" /\ step' = 0 /\ todo' = {} /\ chunk' = 1
  BY DEF Abort
<1>2. ~hd'.active /\ pump' = NoPump /\ IInv' /\ UNCHANGED mem
  BY <1>1, Flushes DEF CtrlBits
<1>3. reset(regs, {}, FALSE)
  BY <1>1 DEF CtrlWrite
<1>4. phase' = "IDLE" /\ ~drq' /\ ~intrq' /\ UNCHANGED <<image, overlay>>
  BY <1>3 DEF reset, diskVars
<1>. QED BY <1>1, <1>2, <1>4 DEF DrvInv, Common, AtIdle, Quiet

LEMMA FillKeeps ==
  ASSUME DrvInv, Fill
  PROVE  DrvInv'
<1>1. AtIdle /\ UNCHANGED drvVars
  BY Places DEF Fill
<1>2. PICK a \in Fills, v \in Data : Store(a, v)
  BY DEF Fill
<1>3. IInv'
  BY <1>2, FillAssumption, StoreInv DEF DrvInv
<1>. QED
  BY <1>1, <1>2, <1>3
     DEF DrvInv, Common, AtIdle, Quiet, drvVars, Store, chipVars, xferVars, diskVars, hd

\* What the chip reads out of the programmed registers.
LEMMA ProgrammedFields ==
  ASSUME NEW r \in [0 .. 30 -> Byte], Programmed(r), req \in Requests
  PROVE  Op(r) = req.op /\ Lba(r) = req.lba /\ Blocks(r) = req.n /\ Lun(r) = 0 /\ Target(r) = DISK_TARGET
<1>1. req.lba \in Nat /\ req.n \in Nat
  BY RequestFacts
<1>. QED BY <1>1 DEF Programmed, Op, Lba, Blocks, Lun, Target, WD_CDB, WD_TARGET_LUN, WD_DEST_ID, DISK_TARGET

LEMMA TotalFacts ==
  ASSUME req \in Requests
  PROVE  Total \in Nat /\ Total = req.n * BlockSize /\ (Total = 0 <=> req.n = 0)
<1>1. req.n \in Nat /\ Total = req.n * BlockSize /\ Total \in Nat
  BY RequestFacts DEF Total
<1>2. req.n # 0 => Total # 0
  BY <1>1, BlockSizeAssumption
<1>. QED BY <1>1, <1>2, BlockSizeAssumption

\* finish() posts the success status and leaves the request programmed.
LEMMA FinishPosts ==
  ASSUME NEW r \in [0 .. 30 -> Byte], Programmed(r), NEW b, NEW lba,
         finish(r, b, lba, GOOD), req' = req
  PROVE  /\ phase' = "IDLE" /\ ~drq' /\ intrq' /\ Programmed(regs)'
         /\ regs'[WD_SCSI_STATUS] = ST_SUCCESS
<1>1. /\ phase' = "IDLE" /\ ~drq' /\ intrq'
      /\ regs' = [ZeroCount(r) EXCEPT ![WD_SCSI_STATUS] = ST_SUCCESS, ![WD_TARGET_LUN] = GOOD,
                                      ![WD_COMMAND_PHASE] = 96]
  BY DEF finish, complete, Interrupt
<1>2. ZeroCount(r) \in [0 .. 30 -> Byte]
  BY ZeroCountType
<1>3. \A i \in {3, 5, 6, 7, 8, 10, 11, 21} : regs'[i] = r[i]
  BY <1>1, <1>2 DEF ZeroCount, WD_SCSI_STATUS, WD_TARGET_LUN, WD_COMMAND_PHASE, WD_XFER_CNT_MSB
<1>4. regs'[15] = 0 /\ regs'[WD_SCSI_STATUS] = ST_SUCCESS
  BY <1>1, <1>2 DEF WD_SCSI_STATUS, WD_TARGET_LUN, WD_COMMAND_PHASE, GOOD
<1>. QED BY <1>1, <1>3, <1>4 DEF Programmed

LEMMA SelectEffect ==
  ASSUME DrvInv, Select
  PROVE  /\ Programmed(regs)' /\ UNCHANGED <<image, overlay>>
         /\ \/ /\ Moving' /\ Cursor' = Cursor /\ drq' /\ ~intrq'
            \/ /\ chunk = 1 /\ req.n = 0 /\ Success'
<1>1. AtIssue /\ Serving /\ "select" \in todo /\ sasr = WD_COMMAND /\ req \in Requests
  BY Places DEF Select, Serving
<1>2. BeforeSelect /\ Programmed(regs) /\ regs \in [0 .. 30 -> Byte] /\ ChipTypeOK
  BY <1>1 DEF AtIssue, DrvInv, IInv, TypeOK, ChipTypeOK
<1>3. PICK r : r = [regs EXCEPT ![WD_COMMAND] = 8]
  OBVIOUS
<1>4. /\ UNCHANGED <<req, at, step, chunk, reply, mem, dma>> /\ todo' = todo \ {"select"}
      /\ pio_w(1, 8)
  BY DEF Select, PioWrite
<1>5. exec_command(r)
  BY <1>1, <1>3, <1>4 DEF pio_w
<1>6. r \in [0 .. 30 -> Byte] /\ r[WD_COMMAND] = 8 /\ Programmed(r)
  BY <1>2, <1>3 DEF Programmed, WD_COMMAND, Byte
<1>7. select_and_transfer(r)
  BY <1>5, <1>6 DEF exec_command, CMD_SEL, CMD_RESET
<1>8. Op(r) = req.op /\ Lba(r) = req.lba /\ Blocks(r) = req.n /\ Lun(r) = 0 /\ Target(r) = DISK_TARGET
  BY <1>1, <1>6, ProgrammedFields
<1>9. req' = req /\ Total' = Total /\ IsWrite(req)' = IsWrite(req)
  BY <1>4 DEF Total, IsWrite
<1>10. Resume(r) \/ Decode(r)
  BY <1>7, <1>8 DEF select_and_transfer, SelectionTimeout, NoSuchLun, AbsentLun
<1>11. CASE chunk = 1
  <2>1. phase = "IDLE" /\ ~intrq
    BY <1>2, <1>11 DEF BeforeSelect
  <2>2. Decode(r)
    BY <1>10, <2>1 DEF Resume, CanResume
  <2>3. req.op \in {READ10, WRITE10} /\ req.n \in Nat /\ Total \in Nat /\ (Total = 0 <=> req.n = 0)
        /\ Total = req.n * BlockSize
    BY <1>1, RequestFacts, TotalFacts
  <2>4. PICK dir, b, lba :
          /\ begin_data(r, dir, b, lba)
          /\ dir = (IF IsWrite(req) THEN "DATA_OUT" ELSE "DATA_IN")
          /\ b = (IF IsWrite(req) THEN Zeros(Total) ELSE ReadBuffer(r))
          /\ IsWrite(req) => lba = req.lba
    <3>1. CASE req.op = READ10
      BY <1>8, <2>2, <3>1 DEF Decode, DataIn, IsWrite, DataOps, REQUEST_SENSE, INQUIRY, MODE_SELECT,
         MODE_SENSE, READ_CAPACITY, READ10, WRITE10
    <3>2. CASE req.op = WRITE10
      BY <1>8, <2>2, <2>3, <3>2 DEF Decode, IsWrite, DataOps, REQUEST_SENSE, INQUIRY, MODE_SELECT,
         MODE_SENSE, READ_CAPACITY, READ10, WRITE10
    <3>. QED BY <2>3, <3>1, <3>2
  <2>5. b \in Seq(Data) /\ Len(b) = Total
    <3>1. CASE IsWrite(req)
      <4>1. Zeros(Total) \in [1 .. Total -> Data]
        BY DataAssumption DEF Zeros
      <4>. QED BY <2>3, <2>4, <3>1, <4>1, SeqOfFun
    <3>2. CASE ~IsWrite(req)
      BY <1>2, <1>6, <1>8, <2>3, <2>4, <3>2, ReadBufferType
    <3>. QED BY <3>1, <3>2
  <2>6. CASE b = <<>>
    <3>1. finish(r, b, lba, GOOD) /\ Total = 0
      BY <2>4, <2>5, <2>6 DEF begin_data
    <3>2. /\ phase' = "IDLE" /\ ~drq' /\ intrq' /\ UNCHANGED <<image, overlay>>
          /\ Programmed(regs)' /\ regs'[WD_SCSI_STATUS] = ST_SUCCESS
      BY <1>6, <1>9, <2>1, <3>1, FinishPosts DEF finish, diskVars
    <3>3. Success'
      BY <1>9, <3>1, <3>2 DEF Success, Finished
    <3>. QED BY <1>11, <2>3, <3>1, <3>2, <3>3
  <2>7. CASE b # <<>>
    <3>1. /\ pos' = 0 /\ phase' = dir /\ drq' /\ buf' = b /\ wr_lba' = lba /\ tgt_status' = GOOD
          /\ regs' = r /\ UNCHANGED <<intrq, image, overlay>>
      BY <2>4, <2>7 DEF begin_data, diskVars
    <3>2. Programmed(regs)'
      BY <1>6, <1>9, <3>1 DEF Programmed
    <3>3. Cursor' = Cursor
      BY <2>1, <3>1 DEF Cursor
    <3>4. ~IsWrite(req) => \A k \in 1 .. Total : b[k] = DiskByte(k)
      BY <1>8, <2>3, <2>4 DEF ReadBuffer, DiskByte
    <3>5. \A k : DiskByte(k)' = DiskByte(k)
      BY <1>9, <3>1 DEF DiskByte, BlockRead
    <3>6. Moving'
      BY <1>9, <2>4, <2>5, <3>1, <3>4, <3>5 DEF Moving
    <3>. QED BY <2>1, <3>1, <3>2, <3>3, <3>6
  <2>. QED BY <2>6, <2>7
<1>12. CASE chunk # 1
  <2>1. Moving /\ pos > 0 /\ ~intrq
    BY <1>2, <1>12 DEF BeforeSelect
  <2>2. CanResume
    BY <2>1 DEF Moving, CanResume, DrvInv, IInv, DataPhase
  <2>3. Resume(r)
    BY <1>10, <2>2 DEF Decode
  <2>4. UNCHANGED <<phase, buf, pos, intrq, wr_lba, tgt_status, image, overlay>> /\ drq' /\ regs' = r
    BY <2>3 DEF Resume, diskVars
  <2>5. Moving' /\ Cursor' = Cursor
    BY <1>4, <2>1, <2>4, MovingSame, CursorSame
  <2>6. Programmed(regs)'
    BY <1>6, <1>9, <2>4 DEF Programmed
  <2>. QED BY <2>1, <2>4, <2>5, <2>6
<1>. QED BY <1>11, <1>12

LEMMA SelectKeeps ==
  ASSUME DrvInv, Select
  PROVE  DrvInv'
<1>1. AtIssue /\ Serving /\ "select" \in todo /\ Feeding /\ todo \subseteq {"arm", "select"}
  BY Places DEF Select, AtIssue
<1>2. /\ UNCHANGED <<req, at, step, chunk, reply, mem, dma>> /\ todo' = todo \ {"select"}
      /\ PioWrite(1, 8) /\ pump' \in {HD0, NoPump}
  BY DEF Select, PioWrite
<1>3. IInv'
  BY <1>2, PioWriteInv DEF DrvInv, Byte
<1>4. /\ Programmed(regs)' /\ UNCHANGED <<image, overlay>>
      /\ \/ /\ Moving' /\ Cursor' = Cursor /\ drq' /\ ~intrq'
         \/ Success'
  BY SelectEffect
<1>5. hd' = hd
  BY <1>2 DEF hd
<1>6. Cursor' = Cursor => Feeding'
  BY <1>1, <1>2, <1>5, OnTrackSame DEF Feeding, Covered
<1>7. AtIssue'
  BY <1>1, <1>2, <1>4, <1>6 DEF AtIssue
<1>8. Common'
  BY <1>2, <1>4 DEF DrvInv, Common
<1>. QED BY <1>1, <1>2, <1>3, <1>7, <1>8 DEF DrvInv, Serving

-----------------------------------------------------------------------------
(* The pump's steps. *)

LEMMA HdFacts ==
  ASSUME DrvInv
  PROVE  /\ hd \in Channel /\ dma \in [Channels -> Channel]
         /\ hd.cbp \in Nat /\ hd.count \in Nat /\ hd.nbdp \in DOMAIN Desc
         /\ pos \in Nat /\ Cursor \in Nat
<1>1. dma \in [Channels -> Channel] /\ pos \in Nat
  BY DEF DrvInv, IInv, TypeOK, ChipTypeOK
<1>2. hd \in Channel
  BY <1>1, Hd0 DEF hd
<1>3. Cursor \in Nat
  BY <1>1 DEF Cursor
<1>. QED BY <1>1, <1>2, <1>3 DEF Channel

LEMMA PumpIsHd0 ==
  ASSUME DrvInv, Pump
  PROVE  /\ AtIssue /\ Serving /\ UNCHANGED drvVars /\ pump = HD0
         /\ scsi_fetch_chain(HD0) \/ XferByte(HD0) \/ XferDone(HD0) \/ DescDone(HD0) \/ PumpStop(HD0)
<1>1. PICK ch \in Channels : \/ scsi_fetch_chain(ch) \/ XferByte(ch) \/ XferDone(ch)
                             \/ DescDone(ch) \/ PumpStop(ch)
  BY DEF Pump, scsi_run_dma
<1>2. pump = ch
  BY <1>1 DEF scsi_fetch_chain, XferByte, XferDone, DescDone, PumpStop, Pumping
<1>3. ch = HD0 /\ AtIssue
  BY <1>2, Hd0, Places
<1>4. Serving
  BY <1>3, Places DEF AtIssue
<1>. QED BY <1>1, <1>2, <1>3, <1>4 DEF Pump

\* A step that changes only the channel keeps the place if it keeps the track.
LEMMA ChannelKeeps ==
  ASSUME DrvInv, AtIssue, Serving, UNCHANGED drvVars, IInv', UNCHANGED <<chipVars, mem>>,
         pump' \in {HD0, NoPump}, hd.active, OnTrack /\ ~PausedAt /\ ~Success => OnTrack'
  PROVE  DrvInv'
<1>1. UNCHANGED <<regs, phase, pos, drq, intrq, buf, tgt_status, wr_lba, image, overlay>>
  BY DEF chipVars, xferVars, diskVars
<1>2. UNCHANGED <<req, at, step, todo, chunk>>
  BY DEF drvVars
<1>3. ~PausedAt
  BY DEF PausedAt
<1>4. Feeding => OnTrack /\ "arm" \notin todo
  BY DEF Feeding
<1>5. ASSUME Feeding, ~Success PROVE Feeding'
  BY <1>2, <1>3, <1>4, <1>5 DEF Feeding
<1>6. AtIssue'
  <2>1. CASE "select" \in todo /\ BeforeSelect /\ Feeding /\ ~Success
    <3>1. BeforeSelect'
      BY <1>1, <1>2, <2>1, BeforeSelectSame
    <3>. QED BY <1>1, <1>2, <1>5, <2>1, <3>1 DEF AtIssue, Programmed
  <2>2. CASE "select" \notin todo /\ Moving /\ drq /\ ~intrq /\ Feeding
    <3>1. Moving'
      BY <1>1, <1>2, <2>2, MovingSame
    <3>2. ~Success
      BY <2>2 DEF Success
    <3>. QED BY <1>1, <1>2, <1>5, <2>2, <3>1, <3>2 DEF AtIssue, Programmed
  <2>3. CASE "select" \notin todo /\ Success
    <3>1. Success'
      BY <1>1, <1>2, <2>3, FinishedSame DEF Success
    <3>. QED BY <1>1, <1>2, <2>3, <3>1 DEF AtIssue, Programmed
  <2>. QED BY <1>3, <2>1, <2>2, <2>3 DEF AtIssue, BeforeSelect, Success
<1>7. Common'
  BY <1>1 DEF DrvInv, Common
<1>. QED BY <1>2, <1>6, <1>7 DEF DrvInv, Serving

LEMMA FetchKeeps ==
  ASSUME DrvInv, Pump, scsi_fetch_chain(HD0)
  PROVE  DrvInv'
<1>1. AtIssue /\ Serving /\ UNCHANGED drvVars /\ req \in Requests
  BY PumpIsHd0 DEF Serving
<1> DEFINE e == Desc[hd.nbdp]
           c == [hd EXCEPT !.cbp = e.cbp, !.count = e.count, !.eox = e.eox,
                           !.xie = e.xie, !.nbdp = e.nbdp, !.state = "CH_XFER"]
<1>2. dma' = [dma EXCEPT ![HD0] = c] /\ UNCHANGED <<chipVars, intstat, pump, mem>> /\ pump = HD0
      /\ hd.active /\ hd.state = "CH_FETCH"
  BY DEF scsi_fetch_chain, Pumping, hd
<1>3. hd' = c
  BY <1>2, HdFacts, Hd0 DEF hd
<1> HIDE DEF e
<1>4. /\ hd'.cbp = e.cbp /\ hd'.count = e.count /\ hd'.eox = e.eox /\ hd'.nbdp = e.nbdp
      /\ hd'.state = "CH_XFER" /\ hd'.active = hd.active /\ hd'.to_device = hd.to_device
  BY <1>3, HdFacts DEF Channel
<1> HIDE DEF c
<1>5. OnTrack => OnTrack'
  <2> SUFFICES ASSUME OnTrack PROVE OnTrack'
    OBVIOUS
  <2>1. Covered(chunk, hd.nbdp, req.base + Cursor)
    BY <1>2 DEF OnTrack
  <2>2. PICK d : d = hd.nbdp /\ <<chunk, d>> \in Layout[req] /\ Desc[d].cbp = req.base + Cursor
                 /\ e = Desc[d]
    BY <2>1 DEF Covered, e
  <2>3. Desc[d] \in Descriptor /\ Desc[d].count > 0 /\ d \in DOMAIN Desc
    BY <1>1, <2>2, LayoutContinues
  <2>4. UNCHANGED <<chunk, req, todo>> /\ Cursor' = Cursor /\ IsWrite(req)' = IsWrite(req)
    BY <1>1, <1>2, CursorSame DEF drvVars, chipVars, xferVars, IsWrite
  <2>5. Desc[d].cbp >= req.base /\ Desc[d].count # 0
    <3>1. req.base \in Nat /\ Cursor \in Nat
      BY <1>1, RequestFacts, HdFacts
    <3>. QED BY <2>2, <2>3, <3>1
  <2>6. hd'.active /\ hd'.to_device = IsWrite(req)' /\ hd'.state = "CH_XFER"
    BY <1>4, <2>4 DEF OnTrack
  <2>. QED BY <1>4, <2>2, <2>3, <2>4, <2>5, <2>6 DEF OnTrack
<1>6. IInv'
  BY Hd0, FetchInv DEF DrvInv
<1>. QED BY <1>1, <1>2, <1>5, <1>6, ChannelKeeps

LEMMA XferDoneKeeps ==
  ASSUME DrvInv, Pump, XferDone(HD0)
  PROVE  DrvInv'
<1>1. AtIssue /\ Serving /\ UNCHANGED drvVars
  BY PumpIsHd0
<1>2. /\ dma' = [dma EXCEPT ![HD0].state = "CH_DESC_DONE"] /\ UNCHANGED <<chipVars, intstat, pump, mem>>
      /\ hd.active /\ hd.state = "CH_XFER" /\ hd.count = 0 /\ pump = HD0
  BY DEF XferDone, Pumping, hd
<1>3. hd' = [hd EXCEPT !.state = "CH_DESC_DONE"]
  BY <1>2, HdFacts, Hd0 DEF hd
<1>4. /\ hd'.cbp = hd.cbp /\ hd'.count = 0 /\ hd'.eox = hd.eox /\ hd'.nbdp = hd.nbdp
      /\ hd'.state = "CH_DESC_DONE" /\ hd'.active = hd.active /\ hd'.to_device = hd.to_device
  BY <1>2, <1>3, HdFacts DEF Channel
<1>5. OnTrack => OnTrack'
  <2> SUFFICES ASSUME OnTrack PROVE OnTrack'
    OBVIOUS
  <2>1. UNCHANGED <<chunk, req, todo>> /\ Cursor' = Cursor /\ IsWrite(req)' = IsWrite(req)
    BY <1>1, <1>2, CursorSame DEF drvVars, chipVars, xferVars, IsWrite
  <2>. QED BY <1>2, <1>4, <2>1 DEF OnTrack
<1>6. IInv'
  BY Hd0, XferDoneInv DEF DrvInv
<1>. QED BY <1>1, <1>2, <1>5, <1>6, ChannelKeeps

LEMMA PumpStopKeeps ==
  ASSUME DrvInv, Pump, PumpStop(HD0)
  PROVE  DrvInv'
<1>1. AtIssue /\ Serving /\ UNCHANGED drvVars
  BY PumpIsHd0
<1>2. UNCHANGED <<chipVars, dma, mem>> /\ pump' = NoPump
  BY DEF PumpStop
<1>3. IInv'
  BY Hd0, PumpStopInv DEF DrvInv
<1>4. CASE hd.active
  <2>1. OnTrack => OnTrack'
    BY <1>1, <1>2, OnTrackSame, CursorSame DEF drvVars, chipVars, xferVars, hd
  <2>. QED BY <1>1, <1>2, <1>3, <1>4, <2>1, ChannelKeeps
<1>5. CASE ~hd.active
  <2>1. UNCHANGED <<regs, phase, pos, drq, intrq, buf, tgt_status, wr_lba, image, overlay>> /\ hd' = hd
    BY <1>2 DEF chipVars, xferVars, diskVars, hd
  <2>2. UNCHANGED <<req, at, step, todo, chunk>> /\ Cursor' = Cursor
    BY <1>1, <2>1, CursorSame DEF drvVars
  <2>3. AtIssue'
    <3>1. Feeding => Feeding'
      BY <1>5, <2>1, <2>2 DEF Feeding, OnTrack, Covered
    <3>2. BeforeSelect => BeforeSelect'
      BY <1>2, <2>1, <2>2, BeforeSelectSame
    <3>3. Moving => Moving'
      BY <1>2, <2>1, <2>2, MovingSame
    <3>4. PausedAt => PausedAt'
      BY <2>1, <2>2, <3>3 DEF PausedAt, Covered
    <3>5. Success => Success'
      BY <1>2, <2>1, <2>2, FinishedSame DEF Success
    <3>. QED BY <1>1, <2>1, <2>2, <3>1, <3>2, <3>3, <3>4, <3>5 DEF AtIssue, Programmed
  <2>. QED BY <1>1, <1>2, <1>3, <2>1, <2>2, <2>3 DEF DrvInv, Common, Serving
<1>. QED BY <1>4, <1>5

\* At the end of a descriptor of an open data phase more of the buffer follows.
LEMMA AtDescriptorEnd ==
  ASSUME DrvInv, AtIssue, Serving, OnTrack, ~Success, hd.active, hd.state = "CH_DESC_DONE"
  PROVE  /\ "select" \notin todo /\ Moving /\ drq /\ Feeding /\ pos > 0 /\ Cursor = pos
         /\ pos < Len(buf)
         /\ IF hd.eox
              THEN /\ chunk + 1 \in DOMAIN req.chains
                   /\ Covered(chunk + 1, req.chains[chunk + 1], req.base + pos)
              ELSE Covered(chunk, hd.nbdp, req.base + pos)
<1>1. "select" \notin todo /\ hd.count = 0
  BY DEF OnTrack
<1>2. Moving /\ drq /\ Feeding
  BY <1>1 DEF AtIssue, PausedAt
<1>3. phase # "IDLE" /\ Cursor = pos /\ Len(buf) = Total /\ pos < Len(buf)
  BY <1>2 DEF Moving, Cursor, DrvInv, IInv, DataPhase
<1>4. PICK d \in DOMAIN Desc :
         /\ <<chunk, d>> \in Layout[req] /\ Desc[d].cbp >= req.base
         /\ hd.eox = Desc[d].eox /\ hd.nbdp = Desc[d].nbdp
         /\ hd.cbp + hd.count = Desc[d].cbp + Desc[d].count
  BY DEF OnTrack
<1>5. hd.cbp = req.base + pos /\ req \in Requests
  BY <1>3 DEF OnTrack, Serving
<1>6. /\ Desc[d].count > 0 /\ Desc[d].cbp \in Nat /\ Desc[d].count \in Nat /\ req.base \in Nat
      /\ Total = req.n * BlockSize /\ Total \in Nat /\ pos \in Nat
  BY <1>4, <1>5, LayoutContinues, RequestFacts, TotalFacts, HdFacts DEF Descriptor
<1>7. Desc[d].cbp + Desc[d].count = req.base + pos
  BY <1>1, <1>4, <1>5, <1>6
<1>8. pos > 0 /\ Desc[d].cbp + Desc[d].count < req.base + req.n * BlockSize
  BY <1>3, <1>4, <1>6, <1>7
<1>9. IF Desc[d].eox
        THEN /\ chunk + 1 \in DOMAIN req.chains /\ <<chunk + 1, req.chains[chunk + 1]>> \in Layout[req]
             /\ Desc[req.chains[chunk + 1]].cbp = req.base + pos
        ELSE <<chunk, Desc[d].nbdp>> \in Layout[req] /\ Desc[Desc[d].nbdp].cbp = req.base + pos
  BY <1>4, <1>5, <1>7, <1>8, LayoutContinues
<1>. QED BY <1>1, <1>2, <1>3, <1>4, <1>8, <1>9 DEF Covered

LEMMA DescDoneKeeps ==
  ASSUME DrvInv, Pump, DescDone(HD0)
  PROVE  DrvInv' /\ UNCHANGED <<image, overlay, mem>> /\ UNCHANGED drvVars
         /\ \/ UNCHANGED <<intrq, regs>>
            \/ ~intrq /\ intrq' /\ regs'[WD_SCSI_STATUS] # ST_SUCCESS
<1>1. AtIssue /\ Serving /\ UNCHANGED drvVars
  BY PumpIsHd0
<1>2. UNCHANGED <<req, at, step, todo, chunk>> /\ IsWrite(req)' = IsWrite(req)
  BY <1>1 DEF drvVars, IsWrite
<1>3. hd.active /\ hd.state = "CH_DESC_DONE" /\ UNCHANGED <<pump, mem>> /\ pump = HD0
  BY DEF DescDone, Pumping, hd
<1>4. IInv'
  BY Hd0, DescDoneInv DEF DrvInv
<1>6. CASE ~hd.eox
  <2>1. dma' = [dma EXCEPT ![HD0].state = "CH_FETCH"] /\ UNCHANGED chipVars
    BY <1>6 DEF DescDone, hd
  <2>2. hd' = [hd EXCEPT !.state = "CH_FETCH"]
    BY <2>1, HdFacts, Hd0 DEF hd
  <2>3. hd'.nbdp = hd.nbdp /\ hd'.state = "CH_FETCH" /\ hd'.active = hd.active /\ hd'.to_device = hd.to_device
    BY <2>2, HdFacts DEF Channel
  <2>4. OnTrack /\ ~Success => OnTrack'
    <3> SUFFICES ASSUME OnTrack, ~Success PROVE OnTrack'
      OBVIOUS
    <3>1. Covered(chunk, hd.nbdp, req.base + pos) /\ Cursor = pos
      BY <1>1, <1>3, <1>6, AtDescriptorEnd
    <3>2. Cursor' = Cursor
      BY <2>1, CursorSame DEF chipVars, xferVars
    <3>. QED BY <1>2, <2>3, <3>1, <3>2 DEF OnTrack, Covered
  <2>5. DrvInv'
    BY <1>1, <1>3, <1>4, <2>1, <2>4, ChannelKeeps
  <2>. QED BY <1>1, <1>3, <2>1, <2>5 DEF chipVars, diskVars
<1>7. CASE hd.eox
  <2>1. /\ dma' = [dma EXCEPT ![HD0].active = FALSE, ![HD0].state = "CH_IDLE",
                              ![HD0].ctrl = @ \ {"ACTIVE"}]
        /\ IF residual > 0 THEN pause_transfer ELSE UNCHANGED chipVars
    BY <1>7 DEF DescDone, hd
  <2>2. ~hd'.active
    BY <2>1, HdFacts, Hd0 DEF hd, Channel
  <2>3. CASE Success
    <3>1. UNCHANGED chipVars
      BY <2>1, <2>3 DEF Success, Finished, residual
    <3>2. UNCHANGED <<regs, phase, pos, drq, intrq, buf, tgt_status, wr_lba, image, overlay>>
      BY <3>1 DEF chipVars, xferVars, diskVars
    <3>3. Success'
      BY <1>2, <1>3, <2>3, <3>2, FinishedSame DEF Success
    <3>4. "select" \notin todo
      BY <1>1, <2>3 DEF AtIssue, BeforeSelect, Success, Moving, PausedAt
    <3>5. AtIssue'
      BY <1>1, <1>2, <3>2, <3>3, <3>4 DEF AtIssue, Programmed
    <3>. QED BY <1>1, <1>2, <1>3, <1>4, <3>2, <3>5 DEF DrvInv, Common, Serving
  <2>4. CASE ~Success
    <3>1. Feeding /\ "arm" \notin todo /\ OnTrack
      BY <1>1, <1>3, <2>4 DEF AtIssue, PausedAt, Feeding
    <3>2. /\ "select" \notin todo /\ Moving /\ drq /\ pos > 0 /\ Cursor = pos /\ pos < Len(buf)
          /\ chunk + 1 \in DOMAIN req.chains
          /\ Covered(chunk + 1, req.chains[chunk + 1], req.base + pos)
      BY <1>1, <1>3, <1>7, <2>4, <3>1, AtDescriptorEnd
    <3>3. todo = {} /\ ~intrq
      BY <1>1, <3>1, <3>2 DEF AtIssue, BeforeSelect, PausedAt, Success, Finished
    <3>4. residual > 0
      <4>1. pos \in Nat /\ Len(buf) \in Nat
        BY HdFacts, TypeFacts DEF DrvInv, IInv, TypeOK
      <4>. QED BY <3>2, <4>1 DEF residual, Moving
    <3>5. pause_transfer
      BY <2>1, <3>4
    <3>6. /\ ~drq' /\ intrq' /\ UNCHANGED <<phase, buf, pos, wr_lba, tgt_status, image, overlay>>
          /\ regs' = [ZeroCount(regs) EXCEPT
                        ![WD_SCSI_STATUS] = IF phase = "DATA_OUT" THEN ST_PAUSED_OUT ELSE ST_PAUSED_IN,
                        ![WD_COMMAND_PHASE] = 70]
      BY <3>5 DEF pause_transfer, Interrupt, diskVars
    <3>7. regs \in [0 .. 30 -> Byte] /\ ZeroCount(regs) \in [0 .. 30 -> Byte]
      BY ZeroCountType DEF DrvInv, IInv, TypeOK, ChipTypeOK
    <3>8. /\ \A i \in {3, 5, 6, 7, 8, 10, 11, 15, 21} : regs'[i] = regs[i]
          /\ regs'[WD_SCSI_STATUS] \in {ST_PAUSED_IN, ST_PAUSED_OUT}
      BY <3>6, <3>7 DEF ZeroCount, WD_SCSI_STATUS, WD_COMMAND_PHASE, WD_XFER_CNT_MSB
    <3>9. Moving'
      BY <1>2, <1>3, <3>2, <3>6, MovingSame
    <3>10. PausedAt'
      BY <1>2, <2>2, <3>2, <3>6, <3>8, <3>9 DEF PausedAt, Covered
    <3>11. Programmed(regs)'
      BY <1>1, <1>2, <3>8 DEF AtIssue, Programmed
    <3>12. AtIssue'
      BY <1>1, <1>2, <3>3, <3>10, <3>11 DEF AtIssue
    <3>13. regs'[WD_SCSI_STATUS] # ST_SUCCESS
      BY <3>8 DEF ST_PAUSED_IN, ST_PAUSED_OUT, ST_SUCCESS
    <3>. QED BY <1>1, <1>2, <1>3, <1>4, <3>3, <3>6, <3>12, <3>13 DEF DrvInv, Common, Serving
  <2>. QED BY <2>3, <2>4
<1>. QED BY <1>6, <1>7

\* A byte moves only in the open data phase, at the cursor.
LEMMA AtByte ==
  ASSUME DrvInv, Pump, XferByte(HD0)
  PROVE  /\ AtIssue /\ Serving /\ UNCHANGED drvVars /\ req \in Requests
         /\ "select" \notin todo /\ Moving /\ drq /\ ~intrq /\ "arm" \notin todo /\ OnTrack
         /\ phase # "IDLE" /\ Cursor = pos /\ pos \in Nat /\ pos < Total /\ Len(buf) = Total
         /\ Total \in Nat /\ buf \in Seq(Data)
         /\ hd.cbp = req.base + pos /\ hd.cbp \in Addr /\ req.base \in Nat
         /\ \A k \in 1 .. Total : req.base + k - 1 \in Addr
<1>1. AtIssue /\ Serving /\ UNCHANGED drvVars /\ req \in Requests
  BY PumpIsHd0 DEF Serving
<1>2. hd.active /\ hd.state = "CH_XFER" /\ drq
  BY DEF XferByte, Pumping, hd
<1>3. "select" \notin todo /\ Moving /\ ~intrq /\ Feeding
  BY <1>1, <1>2 DEF AtIssue, BeforeSelect, PausedAt, Success, Finished
<1>4. "arm" \notin todo /\ OnTrack
  BY <1>2, <1>3 DEF Feeding
<1>5. phase # "IDLE" /\ Cursor = pos /\ Len(buf) = Total /\ pos < Total /\ pos \in Nat /\ buf \in Seq(Data)
  BY <1>3 DEF Moving, Cursor, DrvInv, IInv, DataPhase, TypeOK, ChipTypeOK
<1>6. hd.cbp = req.base + pos
  BY <1>2, <1>4, <1>5 DEF OnTrack
<1>7. /\ req.base \in Nat /\ Total \in Nat /\ req.base + Total <= MemSize
  BY <1>1, RequestFacts, TotalFacts
<1>8. \A k \in 1 .. Total : req.base + k - 1 \in Addr
  BY <1>7, MemAssumption DEF Addr
<1>9. hd.cbp \in Addr
  BY <1>5, <1>6, <1>7, MemAssumption DEF Addr
<1>. QED BY <1>1, <1>2, <1>3, <1>4, <1>5, <1>6, <1>7, <1>8, <1>9

\* The request is still in hand and the channel on track after the byte.
LEMMA ByteTrack ==
  ASSUME DrvInv, Pump, XferByte(HD0), pos' = pos + 1, phase' = phase
  PROVE  OnTrack'
<1>1. /\ UNCHANGED drvVars /\ OnTrack /\ phase # "IDLE" /\ Cursor = pos /\ pos \in Nat
      /\ hd.cbp = req.base + pos /\ req.base \in Nat /\ "select" \notin todo
  BY AtByte
<1>2. UNCHANGED <<req, chunk, todo>> /\ IsWrite(req)' = IsWrite(req) /\ Cursor' = pos + 1
  BY <1>1 DEF drvVars, IsWrite, Cursor
<1>3. hd.count # 0 /\ hd.state = "CH_XFER"
  BY DEF XferByte, hd
<1> DEFINE cb == hd.cbp + 1
           ct == hd.count - 1
<1>4. dma' = [dma EXCEPT ![HD0] = [hd EXCEPT !.cbp = cb, !.count = ct]]
  BY DEF XferByte, hd
<1>5. cb = req.base + (pos + 1) /\ cb + ct = hd.cbp + hd.count
  BY <1>1, <1>3, HdFacts
<1> HIDE DEF cb, ct
<1>6. hd' = [hd EXCEPT !.cbp = cb, !.count = ct]
  BY <1>4, HdFacts, Hd0 DEF hd
<1>7. /\ hd'.cbp = cb /\ hd'.count = ct /\ hd'.eox = hd.eox /\ hd'.nbdp = hd.nbdp
      /\ hd'.state = hd.state /\ hd'.active = hd.active /\ hd'.to_device = hd.to_device
  BY <1>6, HdFacts DEF Channel
<1>8. PICK d \in DOMAIN Desc :
             /\ <<chunk, d>> \in Layout[req] /\ Desc[d].cbp >= req.base
             /\ hd.eox = Desc[d].eox /\ hd.nbdp = Desc[d].nbdp
             /\ hd.cbp + hd.count = Desc[d].cbp + Desc[d].count
  BY <1>1, <1>3 DEF OnTrack
<1>9. hd'.cbp = req.base + Cursor' /\ hd'.cbp + hd'.count = Desc[d].cbp + Desc[d].count
  BY <1>2, <1>5, <1>7, <1>8
<1>. QED BY <1>1, <1>2, <1>3, <1>7, <1>8, <1>9 DEF OnTrack

\* What a byte does to chip and memory.
LEMMA ByteEffect ==
  ASSUME DrvInv, Pump, XferByte(HD0)
  PROVE  \E b \in Seq(Data) :
           /\ Len(b) = Total /\ Advance(b)
           /\ IF IsWrite(req)
                THEN /\ \A k \in 1 .. (pos + 1) : b[k] = mem[req.base + k - 1]
                     /\ mem' = mem /\ wr_lba = req.lba
                ELSE /\ \A k \in 1 .. Total : b[k] = DiskByte(k)
                     /\ \A k \in 1 .. (pos + 1) : mem'[req.base + k - 1] = b[k]
<1>1. /\ Moving /\ OnTrack /\ pos \in Nat /\ pos < Total /\ Len(buf) = Total /\ Total \in Nat
      /\ buf \in Seq(Data) /\ hd.cbp = req.base + pos /\ hd.cbp \in Addr /\ req.base \in Nat
      /\ \A k \in 1 .. Total : req.base + k - 1 \in Addr
  BY AtByte
<1>2. mem \in [Addr -> Data]
  BY DEF DrvInv, IInv, TypeOK
<1>3. CASE IsWrite(req)
  <2>1. PICK v : v = mem[hd.cbp]
    OBVIOUS
  <2>2. v \in Data /\ v = mem[req.base + (pos + 1) - 1]
    BY <1>1, <1>2, <2>1
  <2>3. dma_w(v) /\ mem' = mem
    BY <1>1, <1>3, <2>1 DEF XferByte, OnTrack, hd
  <2>4. PICK b : b = [buf EXCEPT ![pos + 1] = v]
    OBVIOUS
  <2>5. Advance(b)
    BY <1>1, <1>3, <2>3, <2>4 DEF dma_w, Moving
  <2>6. b \in Seq(Data) /\ Len(b) = Total /\ b[pos + 1] = v /\ \A k \in 1 .. pos : b[k] = buf[k]
    BY <1>1, <2>2, <2>4
  <2>7. \A k \in 1 .. pos : buf[k] = mem[req.base + k - 1]
    BY <1>1, <1>3 DEF Moving
  <2>8. wr_lba = req.lba
    BY <1>1, <1>3 DEF Moving
  <2>9. ASSUME NEW k \in 1 .. (pos + 1) PROVE b[k] = mem[req.base + k - 1]
    <3>1. CASE k = pos + 1
      BY <2>2, <2>6, <3>1
    <3>2. CASE k # pos + 1
      <4>1. k \in 1 .. pos
        BY <1>1, <3>2
      <4>. QED BY <2>6, <2>7, <4>1
    <3>. QED BY <3>1, <3>2
  <2>. QED BY <1>3, <2>3, <2>5, <2>6, <2>8, <2>9
<1>4. CASE ~IsWrite(req)
  <2>1. dma_r /\ mem' = [mem EXCEPT ![hd.cbp] = dma_r_value]
    BY <1>1, <1>4 DEF XferByte, OnTrack, hd
  <2>2. Advance(buf) /\ dma_r_value = buf[pos + 1]
    BY <1>1, <1>4, <2>1 DEF dma_r, dma_r_value, Moving
  <2>3. (\A k \in 1 .. Total : buf[k] = DiskByte(k)) /\ (\A k \in 1 .. pos : mem[req.base + k - 1] = buf[k])
    BY <1>1, <1>4 DEF Moving
  <2>4. ASSUME NEW k \in 1 .. (pos + 1) PROVE mem'[req.base + k - 1] = buf[k]
    <3>1. CASE k = pos + 1
      <4>1. req.base + k - 1 = hd.cbp
        BY <1>1, <3>1
      <4>. QED BY <1>1, <1>2, <2>1, <2>2, <3>1, <4>1
    <3>2. CASE k # pos + 1
      <4>1. k \in 1 .. pos /\ k \in 1 .. Total /\ req.base + k - 1 # hd.cbp
        BY <1>1, <3>2
      <4>2. mem'[req.base + k - 1] = mem[req.base + k - 1]
        BY <1>1, <1>2, <2>1, <4>1
      <4>. QED BY <2>3, <4>1, <4>2
    <3>. QED BY <3>1, <3>2
  <2>. QED BY <1>1, <1>4, <2>2, <2>3, <2>4
<1>. QED BY <1>3, <1>4

\* The blocks a drained WRITE takes to the disk are the buffer's.
Drained(b) ==
  Len(b) = Total /\ \A k \in 1 .. Total : b[k] = mem[req.base + k - 1]

LEMMA ByteKeeps ==
  ASSUME DrvInv, Pump, XferByte(HD0)
  PROVE  /\ DrvInv' /\ UNCHANGED drvVars /\ ~intrq /\ (IsWrite(req) => mem' = mem)
         /\ \/ UNCHANGED <<intrq, regs, image, overlay>>
            \/ /\ Success'
               /\ IF IsWrite(req) THEN \E b \in Seq(Data) : Drained(b) /\ BlockWrite(b, req.lba)
                  ELSE UNCHANGED <<image, overlay>>
<1>1. /\ AtIssue /\ Serving /\ UNCHANGED drvVars /\ req \in Requests /\ "select" \notin todo
      /\ Moving /\ drq /\ ~intrq /\ "arm" \notin todo /\ pos \in Nat /\ pos < Total /\ Total \in Nat
  BY AtByte
<1>2. UNCHANGED <<req, at, step, todo, chunk>> /\ Total' = Total /\ IsWrite(req)' = IsWrite(req)
  BY <1>1 DEF drvVars, IsWrite, Total
<1>3. Programmed(regs) /\ regs \in [0 .. 30 -> Byte] /\ pump = HD0 /\ pump' = HD0
  BY <1>1, PumpIsHd0 DEF AtIssue, DrvInv, IInv, TypeOK, ChipTypeOK, XferByte
<1>4. PICK b \in Seq(Data) :
           /\ Len(b) = Total /\ Advance(b)
           /\ IF IsWrite(req)
                THEN /\ \A k \in 1 .. (pos + 1) : b[k] = mem[req.base + k - 1]
                     /\ mem' = mem /\ wr_lba = req.lba
                ELSE /\ \A k \in 1 .. Total : b[k] = DiskByte(k)
                     /\ \A k \in 1 .. (pos + 1) : mem'[req.base + k - 1] = b[k]
  BY ByteEffect
<1>5. IInv' /\ pos' = pos + 1
  BY <1>4, Hd0, XferByteInv DEF DrvInv, Advance
<1>6. CASE pos + 1 < Total
  <2>0. Advance(b) /\ ~(pos + 1 >= Len(b))
    BY <1>1, <1>4, <1>6
  <2>1. buf' = b /\ UNCHANGED <<regs, phase, drq, intrq, wr_lba, tgt_status, image, overlay>>
    BY <2>0 DEF Advance, diskVars
  <2>2. \A k : DiskByte(k)' = DiskByte(k)
    BY <1>2, <2>1 DEF DiskByte, BlockRead
  <2>3. Moving'
    <3>1. CASE IsWrite(req)
      BY <1>1, <1>2, <1>4, <1>5, <2>1, <3>1 DEF Moving
    <3>2. CASE ~IsWrite(req)
      BY <1>1, <1>2, <1>4, <1>5, <2>1, <2>2, <3>2 DEF Moving
    <3>. QED BY <3>1, <3>2
  <2>4. Feeding'
    BY <1>1, <1>2, <1>5, <2>1, ByteTrack DEF Feeding
  <2>5. AtIssue'
    BY <1>1, <1>2, <1>3, <2>1, <2>3, <2>4 DEF AtIssue, Programmed
  <2>6. Common'
    BY <1>3, <2>1 DEF DrvInv, Common
  <2>. QED BY <1>1, <1>2, <1>4, <1>5, <2>1, <2>5, <2>6 DEF DrvInv, Serving
<1>7. CASE ~(pos + 1 < Total)
  <2>1. pos + 1 = Total
    BY <1>1, <1>7
  <2>0. Advance(b) /\ pos + 1 >= Len(b)
    BY <1>1, <1>4, <2>1
  <2>2. finish(regs, b, wr_lba, GOOD)
    <3>1. finish(regs, b, wr_lba, tgt_status)
      BY <2>0 DEF Advance
    <3>2. tgt_status = GOOD
      BY <1>1 DEF Moving
    <3>. QED BY <3>1, <3>2, Zenon
  <2>3. phase' = "IDLE" /\ ~drq' /\ intrq' /\ Programmed(regs)' /\ regs'[WD_SCSI_STATUS] = ST_SUCCESS
    BY <1>2, <1>3, <2>2, FinishPosts
  <2>4. Op(regs) = req.op
    BY <1>1, <1>3, ProgrammedFields
  <2>5. CASE IsWrite(req)
    <3>1. BlockWrite(b, req.lba) /\ mem' = mem /\ Drained(b)
      BY <1>1, <1>4, <2>1, <2>2, <2>4, <2>5 DEF finish, IsWrite, Moving, Drained
    <3>2. Success'
      BY <1>2, <2>3, <2>5 DEF Success, Finished
    <3>3. Common'
      BY <1>3, <3>1 DEF DrvInv, Common, BlockWrite
    <3>4. AtIssue'
      BY <1>1, <1>2, <2>3, <3>2 DEF AtIssue
    <3>. QED BY <1>1, <1>2, <1>5, <2>5, <3>1, <3>2, <3>3, <3>4 DEF DrvInv, Serving
  <2>6. CASE ~IsWrite(req)
    <3>1. UNCHANGED <<image, overlay>>
      BY <2>2, <2>4, <2>6 DEF finish, IsWrite, diskVars
    <3>2. \A k : DiskByte(k)' = DiskByte(k)
      BY <1>2, <3>1 DEF DiskByte, BlockRead
    <3>3. \A k \in 1 .. Total : mem'[req.base + k - 1] = DiskByte(k)
      BY <1>4, <2>1, <2>6
    <3>4. Success'
      BY <1>2, <2>3, <3>2, <3>3 DEF Success, Finished
    <3>5. Common'
      BY <1>3, <3>1 DEF DrvInv, Common
    <3>6. AtIssue'
      BY <1>1, <1>2, <2>3, <3>4 DEF AtIssue
    <3>. QED BY <1>1, <1>2, <1>5, <2>6, <3>1, <3>4, <3>5, <3>6 DEF DrvInv, Serving
  <2>. QED BY <2>5, <2>6
<1>. QED BY <1>6, <1>7

LEMMA DrvStep ==
  ASSUME DrvInv, [DrvNext]_allVars
  PROVE  DrvInv'
<1>1. CASE \E r \in Requests : Start(r)
  BY <1>1, StartKeeps
<1>2. CASE Serve
  BY <1>2, ProgramKeeps, SetChainKeeps, ArmKeeps, PointKeeps, SelectKeeps, InterruptedKeeps,
     ReadStatusKeeps, FlushKeeps DEF Serve
<1>3. CASE Abort
  BY <1>3, AbortKeeps
<1>4. CASE Fill
  BY <1>4, FillKeeps
<1>5. CASE Pump
  BY <1>5, PumpIsHd0, FetchKeeps, ByteKeeps, XferDoneKeeps, DescDoneKeeps, PumpStopKeeps
<1>6. CASE UNCHANGED allVars
  <2>1. UNCHANGED <<regs, aux, sasr, phase, buf, pos, drq, intrq, wr_lba, sense, tgt_status, image, overlay,
                    dma, intstat, pump, mem, req, at, step, todo, chunk>>
    BY <1>6 DEF allVars, vars, chipVars, xferVars, diskVars, hpcVars, drvVars
  <2>2. IInv'
    BY <1>6, NextInv DEF DrvInv, allVars
  <2>3. BeforeSelect => BeforeSelect'
    BY <2>1, BeforeSelectSame
  <2>4. Moving => Moving'
    BY <2>1, MovingSame
  <2>5. Finished => Finished'
    BY <2>1, FinishedSame
  <2>6. hd' = hd /\ Cursor' = Cursor
    BY <2>1 DEF hd, Cursor
  <2>7. Feeding => Feeding'
    BY <2>1, <2>6, OnTrackSame DEF Feeding, Covered
  <2>8. PausedAt => PausedAt'
    BY <2>1, <2>4, <2>6 DEF PausedAt, Covered
  <2>9. Success => Success'
    BY <2>1, <2>5 DEF Success
  <2>10. AtIdle => AtIdle'
    BY <2>1, <2>6 DEF AtIdle, Quiet
  <2>11. Serving => Serving'
    <3>1. AtProgram => AtProgram'
      BY <2>1, <2>6 DEF AtProgram, Quiet, ProgrammedTo
    <3>2. AtChain => AtChain'
      BY <2>1, <2>3, <2>6 DEF AtChain, Programmed, Covered
    <3>3. AtIssue => AtIssue'
      BY <2>1, <2>3, <2>4, <2>7, <2>8, <2>9 DEF AtIssue, Programmed
    <3>4. AtStatus => AtStatus'
      BY <2>1, <2>8, <2>9 DEF AtStatus, Programmed
    <3>5. AtDone => AtDone'
      BY <2>1, <2>5 DEF AtDone
    <3>. QED BY <2>1, <3>1, <3>2, <3>3, <3>4, <3>5 DEF Serving
  <2>. QED BY <2>1, <2>2, <2>10, <2>11 DEF DrvInv, Common
<1>. QED BY <1>1, <1>2, <1>3, <1>4, <1>5, <1>6 DEF DrvNext

\* Driver, channel and chip stay together (the inductive invariant).
THEOREM DriverInductive == DrvSpec => []DrvInv
<1>1. DrvInit => DrvInv
  BY DrvInitially
<1>2. DrvInv /\ [DrvNext]_allVars => DrvInv'
  BY DrvStep
<1>. QED BY <1>1, <1>2, PTL DEF DrvSpec

\* The driver never runs out of chunks: pause_transfer() and EOX come only where
\* a chunk ends short of the request.
THEOREM ChunksAreEnough == DrvSpec => []ChunksSuffice
<1>1. DrvInv => ChunksSuffice
  <2> SUFFICES ASSUME DrvInv, at # "idle" PROVE chunk <= Len(req.chains)
    BY DEF ChunksSuffice
  <2>1. req \in Requests /\ chunk \in DOMAIN req.chains
    BY Places DEF Serving
  <2>2. req.chains \in Seq(DOMAIN Desc)
    BY <2>1, RequestFacts
  <2>. QED BY <2>1, <2>2
<1>. QED BY <1>1, DriverInductive, PTL

\* A finished or aborted request leaves the chip idle and the channel stopped.
THEOREM IdleIsClean == DrvSpec => []CleanIdle
<1>1. DrvInv => CleanIdle
  BY Places DEF CleanIdle, AtIdle, Quiet, hd
<1>. QED BY <1>1, DriverInductive, PTL

-----------------------------------------------------------------------------
(* The refinement: every step is a step of BlockDevice or leaves it alone. *)

LEMMA MulLe ==
  ASSUME NEW a \in Nat, NEW b \in Nat
  PROVE  a * BlockSize <= b * BlockSize <=> a <= b
<1>1. a <= b => a * BlockSize <= b * BlockSize
  <2> SUFFICES ASSUME a <= b PROVE a * BlockSize <= b * BlockSize
    OBVIOUS
  <2>1. PICK c \in Nat : b = a + c
    <3>1. b - a \in Nat /\ b = a + (b - a)
      OBVIOUS
    <3>. QED BY <3>1
  <2>2. b * BlockSize = a * BlockSize + c * BlockSize /\ c * BlockSize \in Nat /\ a * BlockSize \in Nat
    BY <2>1, BlockSizeAssumption
  <2>. QED BY <2>2
<1>2. a > b => a * BlockSize > b * BlockSize
  <2> SUFFICES ASSUME a > b PROVE a * BlockSize > b * BlockSize
    OBVIOUS
  <2>1. PICK c \in Nat : a = b + 1 + c
    <3>1. a - b - 1 \in Nat /\ a = b + 1 + (a - b - 1)
      OBVIOUS
    <3>. QED BY <3>1
  <2>2. a * BlockSize = b * BlockSize + BlockSize + c * BlockSize /\ c * BlockSize >= 0 /\ b * BlockSize \in Nat
    BY <2>1, BlockSizeAssumption
  <2>. QED BY <2>2, BlockSizeAssumption
<1>. QED BY <1>1, <1>2, BlockSizeAssumption

\* Byte j of block i of a buffer.
LEMMA InBlock ==
  ASSUME NEW n \in Nat, NEW i \in 0 .. (n - 1), NEW j \in 1 .. BlockSize
  PROVE  \E p \in 1 .. n * BlockSize :
           p = i * BlockSize + j /\ (p - 1) \div BlockSize = i /\ (p - 1) % BlockSize = j - 1
<1>1. i + 1 <= n /\ i + 1 \in Nat /\ i \in Nat /\ BlockSize \in Nat \ {0}
  BY BlockSizeAssumption
<1>2. (i + 1) * BlockSize <= n * BlockSize
  BY <1>1, MulLe
<1>3. PICK x : x = i * BlockSize
  OBVIOUS
<1>4. x \in Nat /\ (i + 1) * BlockSize = x + BlockSize /\ n * BlockSize \in Nat
  BY <1>1, <1>3
<1>5. x + j \in 1 .. n * BlockSize
  BY <1>2, <1>4, BlockSizeAssumption
<1>5a. PICK p : p = x + j
  OBVIOUS
<1>6. PICK k : k = p - 1
  OBVIOUS
<1>7. k \in Nat /\ k = i * BlockSize + (j - 1) /\ j - 1 \in 0 .. (BlockSize - 1)
  BY <1>3, <1>4, <1>5a, <1>6, BlockSizeAssumption
<1>8. PICK q, m : q = k \div BlockSize /\ m = k % BlockSize
  OBVIOUS
<1>9. q \in Nat /\ m \in 0 .. (BlockSize - 1) /\ k = q * BlockSize + m
  BY <1>7, <1>8, BlockSizeAssumption
<1>10. q = i
  <2>1. ~(q < i)
    <3> SUFFICES ASSUME q < i PROVE FALSE
      OBVIOUS
    <3>1. q + 1 <= i /\ q + 1 \in Nat
      BY <1>1, <1>9
    <3>2. (q + 1) * BlockSize <= i * BlockSize
      BY <1>1, <3>1, MulLe
    <3>3. (q + 1) * BlockSize = q * BlockSize + BlockSize /\ q * BlockSize \in Nat
      BY <1>9, BlockSizeAssumption
    <3>. QED BY <1>1, <1>3, <1>4, <1>7, <1>9, <3>2, <3>3
  <2>2. ~(q > i)
    <3> SUFFICES ASSUME q > i PROVE FALSE
      OBVIOUS
    <3>1. i + 1 <= q
      BY <1>1, <1>9
    <3>2. (i + 1) * BlockSize <= q * BlockSize
      BY <1>1, <1>9, <3>1, MulLe
    <3>3. q * BlockSize \in Nat
      BY <1>9, BlockSizeAssumption
    <3>. QED BY <1>1, <1>3, <1>4, <1>7, <1>9, <3>2, <3>3
  <2>. QED BY <1>1, <1>9, <2>1, <2>2
<1>11. m = j - 1
  BY <1>3, <1>4, <1>7, <1>9, <1>10, BlockSizeAssumption
<1>12. p \in 1 .. n * BlockSize /\ p = i * BlockSize + j
  BY <1>3, <1>5, <1>5a
<1>13. (p - 1) \div BlockSize = i /\ (p - 1) % BlockSize = j - 1
  BY <1>6, <1>8, <1>10, <1>11, Zenon
<1>. QED BY <1>12, <1>13

\* A drained WRITE puts the buffer on the disk and touches no other block.
LEMMA WriteLands ==
  ASSUME DrvInv, req \in Requests, IsWrite(req), NEW b \in Seq(Data), Drained(b), BlockWrite(b, req.lba),
         NEW l \in Nat
  PROVE  BlockRead(l)' = IF l - req.lba \in 0 .. (req.n - 1) THEN Buffer(req)[l - req.lba] ELSE BlockRead(l)
<1>1. /\ req.lba \in Nat /\ req.n \in Nat /\ Total = req.n * BlockSize /\ Total \in Nat /\ Len(b) = Total
      /\ \A k \in 1 .. Total : b[k] = mem[req.base + k - 1]
      /\ req.base \in Nat
  BY RequestFacts, TotalFacts DEF Drained
<1>2. l \in Span(b, req.lba) <=> l - req.lba \in 0 .. (req.n - 1)
  <2>1. \A k \in Nat : (k + 1) * BlockSize <= Len(b) <=> k + 1 <= req.n
    BY <1>1, MulLe
  <2>2. ASSUME l \in Span(b, req.lba) PROVE l - req.lba \in 0 .. (req.n - 1)
    <3>1. PICK k \in 0 .. Len(b) : (k + 1) * BlockSize <= Len(b) /\ l = req.lba + k
      BY <2>2 DEF Span
    <3>. QED BY <1>1, <2>1, <3>1
  <2>3. ASSUME l - req.lba \in 0 .. (req.n - 1) PROVE l \in Span(b, req.lba)
    <3>1. PICK k \in Nat : k = l - req.lba /\ k + 1 <= req.n
      BY <1>1, <2>3
    <3>2. (k + 1) * BlockSize <= Len(b) /\ l = req.lba + k
      BY <1>1, <2>1, <3>1
    <3>3. k <= Len(b)
      <4>1. k <= k * BlockSize /\ (k + 1) * BlockSize = k * BlockSize + BlockSize /\ k * BlockSize \in Nat
        <5>1. 1 <= BlockSize
          BY BlockSizeAssumption
        <5>2. PICK c \in Nat : BlockSize = 1 + c
          <6>1. BlockSize - 1 \in Nat /\ BlockSize = 1 + (BlockSize - 1)
            BY BlockSizeAssumption
          <6>. QED BY <6>1
        <5>3. k * BlockSize = k + k * c /\ k * c >= 0
          BY <5>2
        <5>. QED BY <5>3, BlockSizeAssumption
      <4>2. PICK x : x = k * BlockSize
        OBVIOUS
      <4>3. x \in Nat /\ k <= x /\ x + BlockSize <= Len(b) /\ Len(b) \in Nat /\ BlockSize \in Nat
        BY <1>1, <3>2, <4>1, <4>2, BlockSizeAssumption
      <4>. QED BY <4>3
    <3>. QED BY <1>1, <3>1, <3>2, <3>3 DEF Span
  <2>. QED BY <2>2, <2>3
<1>3. ASSUME l - req.lba \in 0 .. (req.n - 1) PROVE BlockOf(b, l - req.lba) = Buffer(req)[l - req.lba]
  <2>1. PICK i \in 0 .. (req.n - 1) : i = l - req.lba
    BY <1>3
  <2>2. ASSUME NEW j \in 1 .. BlockSize
        PROVE  b[i * BlockSize + j] = mem[req.base + i * BlockSize + j - 1]
    <3>1. i * BlockSize + j \in 1 .. Total
      BY <1>1, InBlock
    <3>2. i * BlockSize \in Nat
      BY BlockSizeAssumption
    <3>. QED BY <1>1, <3>1, <3>2
  <2>. QED BY <2>1, <2>2 DEF BlockOf, Buffer
<1>4. CASE DirectWrite
  <2>1. /\ image' = [m \in DOMAIN image |->
                      IF m \in Span(b, req.lba) THEN BlockOf(b, m - req.lba) ELSE image[m]]
        /\ overlay' = overlay
    BY <1>4 DEF BlockWrite
  <2>2. DOMAIN overlay = {} /\ DOMAIN image = 0 .. (NBlocks - 1)
    BY <1>4 DEF DrvInv, Common, IInv, TypeOK, ChipTypeOK
  <2>3. req.lba + req.n <= NBlocks
    BY <1>4, RequestAssumption DEF IsWrite
  <2>4. l - req.lba \in 0 .. (req.n - 1) => l < NBlocks
    BY <1>1, <2>3, NBlocksAssumption
  <2>5. l < NBlocks => l \in DOMAIN image
    BY <2>2, NBlocksAssumption
  <2>. QED BY <1>2, <1>3, <2>1, <2>2, <2>4, <2>5 DEF BlockRead
<1>5. CASE ~DirectWrite
  <2>1. /\ overlay' = [m \in DOMAIN overlay \cup Span(b, req.lba) |->
                        IF m \in Span(b, req.lba) THEN BlockOf(b, m - req.lba) ELSE overlay[m]]
        /\ image' = image
    BY <1>5 DEF BlockWrite
  <2>. QED BY <1>2, <1>3, <2>1 DEF BlockRead
<1>. QED BY <1>4, <1>5

LEMMA DiskByteIs ==
  ASSUME NEW k, NEW i, NEW m, (k - 1) \div BlockSize = i, (k - 1) % BlockSize = m
  PROVE  DiskByte(k) = BlockRead(req.lba + i)[m + 1]
  BY DEF DiskByte

\* When a READ is done the buffer holds the disk's blocks.
LEMMA BufferRead ==
  ASSUME DrvInv, req \in Requests, ~IsWrite(req), Finished
  PROVE  Buffer(req) = [i \in 0 .. (req.n - 1) |-> BlockRead(req.lba + i)]
<1>1. /\ req.lba \in Nat /\ req.n \in Nat /\ Total = req.n * BlockSize /\ req.base \in Nat
      /\ \A k \in 1 .. Total : mem[req.base + k - 1] = DiskByte(k)
  BY RequestFacts, TotalFacts DEF Finished
<1>2. ASSUME NEW i \in 0 .. (req.n - 1)
      PROVE  [j \in 1 .. BlockSize |-> mem[req.base + i * BlockSize + j - 1]] = BlockRead(req.lba + i)
  <2>1. BlockRead(req.lba + i) \in [1 .. BlockSize -> Data]
    BY <1>1, BlockReadType DEF Block, DrvInv, IInv, TypeOK
  <2>2. ASSUME NEW j \in 1 .. BlockSize
        PROVE  mem[req.base + i * BlockSize + j - 1] = BlockRead(req.lba + i)[j]
    <3>1. PICK k \in 1 .. req.n * BlockSize :
            k = i * BlockSize + j /\ (k - 1) \div BlockSize = i /\ (k - 1) % BlockSize = j - 1
      BY <1>1, InBlock
    <3>2. mem[req.base + k - 1] = DiskByte(k)
      BY <1>1
    <3>3. DiskByte(k) = BlockRead(req.lba + i)[(j - 1) + 1]
      BY <3>1, DiskByteIs
    <3>4. i * BlockSize \in Nat
      BY BlockSizeAssumption
    <3>5. req.base + i * BlockSize + j - 1 = req.base + k - 1 /\ (j - 1) + 1 = j
      BY <1>1, <3>1, <3>4
    <3>. QED BY <3>2, <3>3, <3>5
  <2>. QED BY <2>1, <2>2
<1>. QED BY <1>2 DEF Buffer

LEMMA DataSame ==
  ASSUME req' = req, IsWrite(req) => mem' = mem
  PROVE  BdData' = BdData
<1>1. IsWrite(req)' = IsWrite(req)
  BY DEF IsWrite
<1>2. IsWrite(req) => Buffer(req)' = Buffer(req)
  BY DEF Buffer
<1>. QED BY <1>1, <1>2 DEF BdData

LEMMA StoreSame ==
  ASSUME UNCHANGED <<image, overlay>>
  PROVE  BdStore' = BdStore
  BY DEF BdStore, BlockRead

\* A step that leaves disk, request and stage alone is invisible.
LEMMA Invisible ==
  ASSUME UNCHANGED <<image, overlay, req, reply>>, IsWrite(req) => mem' = mem, BdStage' = BdStage
  PROVE  UNCHANGED BD!bdVars
  BY DataSame, StoreSame DEF BD!bdVars

\* A request is open until its status is posted.
LEMMA Open ==
  ASSUME req # None, at # "done", ~intrq \/ regs[WD_SCSI_STATUS] # ST_SUCCESS
  PROVE  BdStage = "open"
  BY DEF BdStage

LEMMA InHand ==
  ASSUME DrvInv
  PROVE  /\ at = "idle" <=> req = None
         /\ at # "idle" => req \in Requests
         /\ at \in {"idle", "program", "chain"} => ~intrq
         /\ at = "issue" /\ "select" \in todo => ~intrq
<1>1. at # "idle" => req \in Requests /\ req # None
  BY Places, RequestFacts DEF Serving
<1>2. at = "idle" => req = None /\ ~intrq
  BY Places DEF AtIdle, Quiet
<1>3. at = "program" => ~intrq
  BY Places DEF AtProgram, Quiet
<1>4. at = "chain" => ~intrq
  BY Places DEF AtChain, BeforeSelect
<1>5. at = "issue" /\ "select" \in todo => ~intrq
  BY Places DEF AtIssue, BeforeSelect, PausedAt
<1>. QED BY <1>1, <1>2, <1>3, <1>4, <1>5

LEMMA StartRefines ==
  ASSUME DrvInv, NEW r \in Requests, Start(r)
  PROVE  BD!Next
<1>1. /\ req = None /\ req' = r /\ at' = "program" /\ reply' = None /\ ~intrq'
      /\ UNCHANGED <<image, overlay, mem>> /\ req' # None
  BY InHand, RequestFacts DEF Start, vars, chipVars, diskVars, hpcVars
<1>2. BdStage = "idle" /\ BdStage' = "open" /\ BdStore' = BdStore
  BY <1>1, StoreSame DEF BdStage
<1>3. BdData' = IF IsWrite(r) THEN Buffer(r) ELSE None
  BY <1>1 DEF BdData, Buffer, IsWrite
<1>4. Buffer(r) \in [0 .. (r.n - 1) -> Block]
  <2>1. ASSUME NEW i \in 0 .. (r.n - 1), NEW j \in 1 .. BlockSize
        PROVE  mem[r.base + i * BlockSize + j - 1] \in Data
    <3>1. r.n \in Nat /\ r.base \in Nat /\ r.base + r.n * BlockSize <= MemSize /\ r.n * BlockSize \in Nat
      BY RequestFacts
    <3>2. PICK k \in 1 .. r.n * BlockSize : k = i * BlockSize + j
      BY <3>1, InBlock
    <3>3. i * BlockSize \in Nat
      BY BlockSizeAssumption
    <3>4. r.base + i * BlockSize + j - 1 = r.base + k - 1 /\ r.base + k - 1 \in Addr
      BY <3>1, <3>2, <3>3, MemAssumption DEF Addr
    <3>5. mem \in [Addr -> Data]
      BY DEF DrvInv, IInv, TypeOK
    <3>. QED BY <3>4, <3>5
  <2>. QED BY <2>1 DEF Buffer, Block
<1>5. PICK d : d = BdData' /\ d \in IF IsWrite(r) THEN [0 .. (r.n - 1) -> Block] ELSE {None}
  BY <1>3, <1>4
<1>6. BD!Submit(r, d)
  BY <1>1, <1>2, <1>5 DEF BD!Submit
<1>. QED BY <1>5, <1>6 DEF BD!Next

LEMMA ServeRefines ==
  ASSUME DrvInv, Serve
  PROVE  BD!Next \/ UNCHANGED BD!bdVars
<1>1. CASE Program
  <2>1. /\ UNCHANGED <<image, overlay, mem, req, reply>> /\ req # None
        /\ at = "program" /\ at' \in {"program", "chain"} /\ ~intrq /\ ~intrq'
    BY <1>1, ProgramKeeps, InHand DEF Program
  <2>2. BdStage = "open" /\ BdStage' = "open"
    BY <2>1 DEF BdStage
  <2>. QED BY <2>1, <2>2, Invisible
<1>2. CASE SetChain
  <2>1. /\ UNCHANGED <<image, overlay, mem, req, reply>> /\ req # None
        /\ at = "chain" /\ at' = "issue" /\ ~intrq /\ ~intrq'
    BY <1>2, InHand DEF SetChain, NbdpWrite, chipVars, diskVars
  <2>2. BdStage = "open" /\ BdStage' = "open"
    BY <2>1 DEF BdStage
  <2>. QED BY <2>1, <2>2, Invisible
<1>3. CASE Arm
  <2>1. UNCHANGED chipVars /\ UNCHANGED <<mem, req, at, reply>>
    BY <1>3 DEF Arm, CtrlWrite
  <2>2. BdStage' = BdStage /\ UNCHANGED <<image, overlay>>
    BY <2>1 DEF BdStage, chipVars, diskVars
  <2>. QED BY <2>1, <2>2, Invisible
<1>4. CASE PointAtCommand
  <2>1. UNCHANGED <<regs, intrq, image, overlay>> /\ UNCHANGED <<mem, req, at, reply>>
    BY <1>4 DEF PointAtCommand, PioWrite, pio_w, drvVars, diskVars
  <2>2. BdStage' = BdStage
    BY <2>1 DEF BdStage
  <2>. QED BY <2>1, <2>2, Invisible
<1>5. CASE Select
  <2>1. /\ UNCHANGED <<image, overlay, mem, req, at, reply>> /\ req # None /\ req \in Requests
        /\ at = "issue" /\ ~intrq /\ (~intrq' \/ (req.n = 0 /\ Success'))
    BY <1>5, InHand, SelectEffect DEF Select, PioWrite
  <2>2. BdStage = "open"
    BY <2>1 DEF BdStage
  <2>3. CASE ~intrq'
    <3>1. BdStage' = "open"
      BY <2>1, <2>3 DEF BdStage
    <3>. QED BY <2>1, <2>2, <3>1, Invisible
  <2>4. CASE req.n = 0 /\ Success'
    <3>1. BdStage' = "performed"
      BY <2>1, <2>4 DEF BdStage, Success
    <3>2. BdStore' = BdStore /\ BdData' = BdData
      BY <2>1, DataSame, StoreSame
    <3>3. BdStore' = [l \in DiskLbas |->
                        IF IsWrite(req) /\ l - req.lba \in 0 .. (req.n - 1) THEN BdData[l - req.lba]
                        ELSE BdStore[l]]
      BY <2>4, <3>2 DEF BdStore
    <3>4. BD!Perform
      BY <2>1, <2>2, <3>1, <3>2, <3>3 DEF BD!Perform
    <3>. QED BY <3>4 DEF BD!Next
  <2>. QED BY <2>1, <2>3, <2>4
<1>6. CASE Interrupted
  <2>1. UNCHANGED <<regs, intrq, image, overlay>> /\ UNCHANGED <<mem, req, reply>> /\ at = "issue" /\ at' = "status"
    BY <1>6 DEF Interrupted, PioWrite, pio_w, diskVars
  <2>2. BdStage' = BdStage
    BY <2>1 DEF BdStage
  <2>. QED BY <2>1, <2>2, Invisible
<1>7. CASE ReadStatus
  <2>1. UNCHANGED <<regs, image, overlay, mem, req, reply>> /\ at = "status" /\ req # None
    BY <1>7, InHand DEF ReadStatus, PioRead, pio_r, hpcVars, diskVars
  <2>2. CASE regs[WD_SCSI_STATUS] = ST_SUCCESS /\ at' = "done"
    <3>1. intrq
      BY <2>1, <2>2, Places DEF AtStatus, PausedAt, Success
    <3>2. BdStage = "performed" /\ BdStage' = "performed"
      BY <2>1, <2>2, <3>1 DEF BdStage
    <3>. QED BY <2>1, <3>2, Invisible
  <2>3. CASE regs[WD_SCSI_STATUS] \in {ST_PAUSED_IN, ST_PAUSED_OUT} /\ at' = "chain"
    <3>1. regs[WD_SCSI_STATUS] # ST_SUCCESS
      BY <2>3 DEF ST_PAUSED_IN, ST_PAUSED_OUT, ST_SUCCESS
    <3>2. BdStage = "open" /\ BdStage' = "open"
      BY <2>1, <2>3, <3>1 DEF BdStage
    <3>. QED BY <2>1, <3>2, Invisible
  <2>. QED BY <1>7, <2>2, <2>3 DEF ReadStatus
<1>8. CASE Flush
  <2>1. /\ UNCHANGED <<image, overlay, mem>> /\ at = "done" /\ req # None /\ req \in Requests /\ req' = None
        /\ reply' = IF IsWrite(req) THEN None ELSE Buffer(req)
    BY <1>8, FlushKeeps, InHand DEF Flush
  <2>2. BdStage = "performed" /\ BdStage' = "idle" /\ BdData' = None /\ BdStore' = BdStore
    BY <2>1, StoreSame DEF BdStage, BdData
  <2>3. ~IsWrite(req) => Buffer(req) = [i \in 0 .. (req.n - 1) |-> BdStore[BD!Target(req, i)]]
    <3> SUFFICES ASSUME ~IsWrite(req) PROVE Buffer(req) = [i \in 0 .. (req.n - 1) |-> BdStore[BD!Target(req, i)]]
      OBVIOUS
    <3>1. Buffer(req) = [i \in 0 .. (req.n - 1) |-> BlockRead(req.lba + i)]
      BY <2>1, BufferRead, Places DEF AtDone
    <3>2. ASSUME NEW i \in 0 .. (req.n - 1) PROVE BdStore[BD!Target(req, i)] = BlockRead(req.lba + i)
      <4>1. req.lba + i \in req.lba .. (req.lba + req.n - 1)
        BY <2>1, RequestFacts
      <4>2. req.lba + i \in DiskLbas
        BY <2>1, <4>1 DEF DiskLbas
      <4>. QED BY <4>2 DEF BdStore, BD!Target
    <3>. QED BY <3>1, <3>2
  <2>4. BD!Complete
    BY <2>1, <2>2, <2>3 DEF BD!Complete
  <2>. QED BY <2>4 DEF BD!Next
<1>. QED BY <1>1, <1>2, <1>3, <1>4, <1>5, <1>6, <1>7, <1>8 DEF Serve

LEMMA AbortRefines ==
  ASSUME DrvInv, Abort
  PROVE  BD!Next
<1>1. UNCHANGED <<image, overlay, reply>> /\ req' = None /\ req # None
  BY AbortKeeps, InHand DEF Abort
<1>2. BdStage # "idle" /\ BdStage' = "idle" /\ BdData' = None /\ BdStore' = BdStore
  BY <1>1, StoreSame DEF BdStage, BdData
<1>3. BD!GiveUp
  BY <1>1, <1>2 DEF BD!GiveUp
<1>. QED BY <1>3 DEF BD!Next

LEMMA PumpRefines ==
  ASSUME DrvInv, Pump
  PROVE  BD!Next \/ UNCHANGED BD!bdVars
<1>1. AtIssue /\ UNCHANGED <<req, at, reply>> /\ req \in Requests /\ req # None /\ at = "issue"
  BY PumpIsHd0, RequestFacts DEF drvVars, Serving, AtIssue
<1>2. CASE scsi_fetch_chain(HD0) \/ XferDone(HD0) \/ PumpStop(HD0)
  <2>1. UNCHANGED <<regs, intrq, image, overlay, mem>>
    BY <1>2 DEF scsi_fetch_chain, XferDone, PumpStop, chipVars, diskVars
  <2>2. BdStage' = BdStage
    BY <1>1, <2>1 DEF BdStage
  <2>. QED BY <1>1, <2>1, <2>2, Invisible
<1>3. CASE DescDone(HD0)
  <2>1. UNCHANGED <<image, overlay, mem>>
        /\ \/ UNCHANGED <<intrq, regs>>
           \/ ~intrq /\ intrq' /\ regs'[WD_SCSI_STATUS] # ST_SUCCESS
    BY <1>3, DescDoneKeeps
  <2>2. BdStage' = BdStage
    BY <1>1, <2>1 DEF BdStage
  <2>. QED BY <1>1, <2>1, <2>2, Invisible
<1>4. CASE XferByte(HD0)
  <2>1. ~intrq /\ (IsWrite(req) => mem' = mem)
        /\ \/ UNCHANGED <<intrq, regs, image, overlay>>
           \/ /\ Success'
              /\ IF IsWrite(req) THEN \E b \in Seq(Data) : Drained(b) /\ BlockWrite(b, req.lba)
                 ELSE UNCHANGED <<image, overlay>>
    BY <1>4, ByteKeeps
  <2>2. CASE UNCHANGED <<intrq, regs, image, overlay>>
    <3>1. BdStage' = BdStage
      BY <1>1, <2>2 DEF BdStage
    <3>. QED BY <1>1, <2>1, <2>2, <3>1, Invisible
  <2>3. CASE /\ Success'
             /\ IF IsWrite(req) THEN \E b \in Seq(Data) : Drained(b) /\ BlockWrite(b, req.lba)
                ELSE UNCHANGED <<image, overlay>>
    <3>1. BdStage = "open" /\ BdStage' = "performed" /\ BdData' = BdData
      BY <1>1, <2>1, <2>3, DataSame DEF BdStage, Success
    <3>2. BdStore' = [l \in DiskLbas |->
                        IF IsWrite(req) /\ l - req.lba \in 0 .. (req.n - 1) THEN BdData[l - req.lba]
                        ELSE BdStore[l]]
      <4>1. CASE ~IsWrite(req)
        <5>1. BdStore' = BdStore
          BY <2>3, <4>1, StoreSame
        <5>. QED BY <4>1, <5>1 DEF BdStore
      <4>2. CASE IsWrite(req)
        <5>1. PICK b \in Seq(Data) : Drained(b) /\ BlockWrite(b, req.lba)
          BY <2>3, <4>2
        <5>2. ASSUME NEW l \in DiskLbas
              PROVE  BlockRead(l)' = IF l - req.lba \in 0 .. (req.n - 1) THEN BdData[l - req.lba] ELSE BlockRead(l)
          <6>1. l \in Nat
            <7>1. PICK r \in Requests : l \in r.lba .. (r.lba + r.n - 1)
              BY DEF DiskLbas
            <7>. QED BY <7>1, RequestFacts
          <6>2. BdData = Buffer(req)
            BY <1>1, <4>2 DEF BdData
          <6>. QED BY <1>1, <4>2, <5>1, <6>1, <6>2, WriteLands
        <5>. QED BY <4>2, <5>2 DEF BdStore
      <4>. QED BY <4>1, <4>2
    <3>3. BD!Perform
      BY <1>1, <3>1, <3>2 DEF BD!Perform
    <3>. QED BY <3>3 DEF BD!Next
  <2>. QED BY <2>1, <2>2, <2>3
<1>. QED BY <1>2, <1>3, <1>4, PumpIsHd0

LEMMA StepRefines ==
  ASSUME DrvInv, [DrvNext]_allVars
  PROVE  [BD!Next]_BD!bdVars
<1>1. CASE \E r \in Requests : Start(r)
  BY <1>1, StartRefines
<1>2. CASE Fill
  <2>1. UNCHANGED <<regs, intrq, image, overlay, req, at, reply>> /\ req = None
    BY <1>2, InHand DEF Fill, Store, drvVars, chipVars, diskVars
  <2>2. BdStage' = BdStage /\ BdData' = BdData /\ BdStore' = BdStore
    BY <2>1, StoreSame DEF BdStage, BdData
  <2>. QED BY <2>1, <2>2 DEF BD!bdVars
<1>3. CASE UNCHANGED allVars
  <2>1. UNCHANGED <<regs, intrq, image, overlay, mem, req, at, reply>>
    BY <1>3 DEF allVars, vars, chipVars, diskVars, hpcVars, drvVars
  <2>2. BdStage' = BdStage
    BY <2>1 DEF BdStage
  <2>. QED BY <2>1, <2>2, Invisible
<1>. QED BY <1>1, <1>2, <1>3, ServeRefines, AbortRefines, PumpRefines DEF DrvNext

LEMMA InitRefines ==
  ASSUME DrvInit
  PROVE  BD!Init
<1>1. DrvInv
  BY DrvInitially
<1>2. ASSUME NEW l \in DiskLbas PROVE BlockRead(l) \in Block
  <2>1. PICK r \in Requests : l \in r.lba .. (r.lba + r.n - 1)
    BY DEF DiskLbas
  <2>2. l \in Nat
    BY <2>1, RequestFacts
  <2>. QED BY <1>1, <2>2, BlockReadType DEF DrvInv, IInv, TypeOK
<1>3. BdStore \in [DiskLbas -> Block]
  BY <1>2 DEF BdStore
<1>4. req = None /\ reply = None /\ BdStage = "idle" /\ BdData = None
  BY DEF DrvInit, BdStage, BdData
<1>. QED BY <1>3, <1>4 DEF BD!Init

\* Chip, channel and driver are a block device: a write reaches the disk whole or
\* not at all, a read returns the disk's blocks, across chunks and resets.
THEOREM DriverImplements == DrvSpec => ImplementsBlockDevice
<1>1. DrvInit => BD!Init
  BY InitRefines
<1>2. DrvInv /\ [DrvNext]_allVars => [BD!Next]_BD!bdVars
  BY StepRefines
<1>. QED BY <1>1, <1>2, DriverInductive, PTL DEF DrvSpec, ImplementsBlockDevice, BD!Spec
=============================================================================
