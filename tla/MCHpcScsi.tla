------------------------------ MODULE MCHpcScsi ------------------------------
(***************************************************************************)
(* Small instances of HpcScsi for TLC: an arbitrary guest that programs    *)
(* the chip and the channels in any order.  Payload bytes are all alike    *)
(* (the data itself is followed in ScsiDriver), so the state space is that *)
(* of the control.                                                         *)
(***************************************************************************)
EXTENDS HpcScsi

MCImage == [l \in 0..(NBlocks - 1) |-> ZeroBlock]
MCSense == [s \in {"NO_SENSE", "ILLEGAL_REQUEST"} |-> <<Zero>>]
MCReply == <<Zero, Zero>>
MCBcWrites == {<<FALSE, FALSE>>, <<TRUE, TRUE>>}
MCPioReads == {WD_SCSI_STATUS}
MCCtrlWrites == {{"ACTIVE"}, {"ACTIVE", "DIR"}, {"FLUSH"}, {"CRESET", "AMASK"}}
CmdCtrlWrites == {{"ACTIVE"}, {"ACTIVE", "DIR"}, {"FLUSH"}}

\* A two-descriptor chain, a one-descriptor chain that shares its tail, and one of
\* its own without an interrupt.
MCDesc ==
  [d \in 0..2 |->
     [cbp |-> d % 2, count |-> 1, eox |-> d > 0, xie |-> d = 1, nbdp |-> IF d = 0 THEN 1 ELSE d]]

\* Opcode, length, LUN, target and command registers.
LongPioWrites ==
  {<<WD_CDB, WRITE10>>, <<WD_CDB, READ10>>, <<WD_CDB + 8, 3>>,
   <<WD_TARGET_LUN, 1>>, <<WD_DEST_ID, DISK_TARGET>>, <<WD_COMMAND, 0>>, <<WD_COMMAND, 8>>}

\* Every command the disk decodes, one block or byte each.
AllOps == DataOps \cup {0}
CmdPioWrites ==
  {<<WD_CDB, op>> : op \in AllOps}
    \cup {<<WD_CDB + 4, 1>>, <<WD_CDB + 8, 1>>, <<WD_DEST_ID, DISK_TARGET>>, <<WD_COMMAND, 9>>}

MCPioWrites == LongPioWrites \cup CmdPioWrites

\* A READ of the disk, and selects of a target that is not there.
ProbePioWrites ==
  {<<WD_CDB, READ10>>, <<WD_CDB + 8, 2>>, <<WD_DEST_ID, DISK_TARGET>>, <<WD_DEST_ID, 2>>, <<WD_COMMAND, 8>>}

\* Chains that end, that run in a circle through bytes and an empty descriptor, and
\* that run in a circle of nothing.
RingDesc ==
  [d \in 0..3 |->
     [cbp |-> 0, count |-> IF d < 2 THEN 1 ELSE 0, eox |-> d = 1, xie |-> FALSE,
      nbdp |-> CASE d = 0 -> 2 [] d = 2 -> 0 [] OTHER -> d]]
RingPioWrites ==
  {<<WD_CDB, READ10>>, <<WD_CDB, WRITE10>>, <<WD_CDB + 8, 3>>, <<WD_DEST_ID, DISK_TARGET>>, <<WD_COMMAND, 8>>}
=============================================================================
