-------------------------------- MODULE Ioc2 ---------------------------------
(***************************************************************************)
(* The interrupt controller of IOC2 (sgi_hpc) over the devices behind it:  *)
(* live status, masks, the mappable cascade, and the CPU lines IP2 and     *)
(* IP3.  The serial, keyboard and Ethernet devices are the modules this    *)
(* one extends; SCSI, the graphics DMA and the vertical retrace are levels *)
(* here (HpcScsi and Graphics model the devices).                          *)
(*                                                                         *)
(* The devices share nothing but the status registers, so a behaviour      *)
(* drives the ones in "driven" and leaves the others as reset; "ops"       *)
(* bounds what the program does beside its interrupt handlers.             *)
(***************************************************************************)
EXTENDS Scc, Ps2, I8254, Enet

CONSTANTS
  SccBytes,    \* bytes written to the serial control registers
  DrivenSets,  \* which devices a behaviour exercises
  Configs,     \* the masks as the system software has set them
  MaxOps       \* bound: register writes of the program, by the devices exercised

VARIABLES ioc, level, driven, ops

ioVars == <<ioc, level, driven, ops>>
vars == <<sccVars, ps2Vars, t2Vars, enetVars, ioVars>>
-----------------------------------------------------------------------------
(* Status *)

\* Mappable interrupts.
ioc2_vmeistat_live ==
  (IF int_pending THEN {"SCC"} ELSE {}) \cup (IF irq THEN {"PS2"} ELSE {})

Cascade(m) == ioc2_vmeistat_live \cap ioc.cmeimask[m] # {}

\* Seeded fault: the chip's own interrupt is routed to the CPU as well.
ioc2_local0_live_SeeqToo ==
  (level \cap {"SCSI", "MCDMA"})
    \cup (IF enet.rx_irq \/ enet.tx_irq \/ seeq_intpend THEN {"ENET"} ELSE {})
    \cup (IF Cascade(0) THEN {"LIO2"} ELSE {})

\* Local interrupts; the status registers themselves are never written.
ioc2_local0_live ==
  (level \cap {"SCSI", "MCDMA"})
    \cup (IF enet.rx_irq \/ enet.tx_irq THEN {"ENET"} ELSE {})
    \cup (IF Cascade(0) THEN {"LIO2"} ELSE {})

ioc2_local1_live ==
  (level \cap {"RETRACE"}) \cup (IF Cascade(1) THEN {"LIO3"} ELSE {})

IP2 == ioc2_local0_live \cap ioc.local_mask[0] # {}
IP3 == ioc.local_mask[1] # {} /\ ioc2_local1_live \cap ioc.local_mask[1] # {}
-----------------------------------------------------------------------------
IocInit ==
  /\ level = {}
  /\ driven \in DrivenSets
  /\ ioc \in IF "levels" \in driven
              THEN {[local_mask |-> [m \in 0 .. 1 |-> {}], cmeimask |-> [m \in 0 .. 1 |-> {}]]}
              ELSE Configs
  /\ ops = 0

Ethernet == driven \cap {"receive", "transmit"} # {}

Init ==
  /\ SccInit /\ Ps2Init /\ T2Init /\ EnetInit /\ IocInit
  /\ Ethernet \/ enet.opt.lat = 0

\* Masks are written as a whole.
MaskWrite ==
  /\ "levels" \in driven
  /\ \/ \E m \in 0 .. 1, on \in BOOLEAN :
          ioc' = [ioc EXCEPT !.local_mask[m] =
                    IF ~on THEN {} ELSE IF m = 0 THEN {"SCSI", "ENET", "MCDMA", "LIO2"}
                                                 ELSE {"RETRACE", "LIO3"}]
     \/ \E m \in 0 .. 1, s \in SUBSET {"SCC", "PS2"} : ioc' = [ioc EXCEPT !.cmeimask[m] = s]
  /\ UNCHANGED <<sccVars, ps2Vars, t2Vars, enetVars, level>>

\* A device of another module raises its line.
Raise ==
  /\ "levels" \in driven
  /\ \E l \in {"SCSI", "MCDMA"} : level' = level \cup {l}
  /\ UNCHANGED <<sccVars, ps2Vars, t2Vars, enetVars, ioc>>
-----------------------------------------------------------------------------
(* The interrupt handlers: read status and mask, serve one cause through    *)
(* the registers of its device.                                             *)

ServeMapped(m) ==
  \/ /\ "SCC" \in ioc2_vmeistat_live \cap ioc.cmeimask[m]
     /\ SccServe
     /\ UNCHANGED <<ps2Vars, t2Vars, enetVars, ioc, level>>
  \/ /\ "PS2" \in ioc2_vmeistat_live \cap ioc.cmeimask[m]
     /\ ReadKbd
     /\ UNCHANGED <<sccVars, t2Vars, enetVars, ioc, level>>

\* The read or write by which a handler clears a level: the status register of the
\* WD33C93 (SCSI), a zero written to DMA_CAUSE of the memory controller (MCDMA),
\* STATUS of the Newport (RETRACE).
ClearLevel(l) ==
  /\ level' = level \ {l}
  /\ UNCHANGED <<sccVars, ps2Vars, t2Vars, enetVars, ioc>>

ServeIP2 ==
  /\ \/ \E l \in {"SCSI", "MCDMA"} \cap ioc2_local0_live \cap ioc.local_mask[0] : ClearLevel(l)
     \/ /\ "ENET" \in ioc2_local0_live \cap ioc.local_mask[0]
        /\ ClearIrq
        /\ UNCHANGED <<sccVars, ps2Vars, t2Vars, ioc, level>>
     \/ /\ "LIO2" \in ioc2_local0_live \cap ioc.local_mask[0]
        /\ ServeMapped(0)
  /\ UNCHANGED <<driven, ops>>

ServeIP3 ==
  /\ IP3
  /\ \/ "RETRACE" \in level /\ ClearLevel("RETRACE")
     \/ "LIO3" \in ioc2_local1_live /\ ServeMapped(1)
  /\ UNCHANGED <<driven, ops>>
-----------------------------------------------------------------------------
(* Time, and the world outside *)

SerialTick ==
  /\ "serial" \in driven
  /\ tick
  /\ UNCHANGED <<ps2Vars, t2Vars, enetVars, ioVars>>

\* Vertical retrace: the keyboard controller is served and the line goes up.
VRetrace ==
  /\ "keyboard" \in driven
  /\ service
  /\ level' = level \cup {"RETRACE"}
  /\ UNCHANGED <<sccVars, t2Vars, enetVars, ioc, driven, ops>>

NetPoll ==
  /\ Ethernet
  /\ enet_poll
  /\ UNCHANGED <<sccVars, ps2Vars, t2Vars, ioVars>>

Outside ==
  \/ /\ "serial" \in driven
     /\ \E c \in Chars : HostType(c)
     /\ UNCHANGED <<ps2Vars, t2Vars, enetVars, ioVars>>
  \/ /\ "keyboard" \in driven
     /\ \/ \E k \in Keys, down \in BOOLEAN : HostKey(k, down)
        \/ \E d \in Motions : HostMouse(d)
     /\ UNCHANGED <<sccVars, t2Vars, enetVars, ioVars>>
  \/ /\ "receive" \in driven
     /\ \E f \in Frames : NetSend(f)
     /\ UNCHANGED <<sccVars, ps2Vars, t2Vars, ioVars>>
-----------------------------------------------------------------------------
(* The program *)

SerialOp ==
  /\ "serial" \in driven
  /\ \/ ReadData
     \/ \E ch \in Chan : ReadCtrl(ch) \/ WriteData(ch)
     \/ \E ch \in Chan, b \in SccBytes : WriteCtrl(ch, b)
  /\ UNCHANGED <<ps2Vars, t2Vars, enetVars, ioc, level>>

KeyboardOp ==
  /\ "keyboard" \in driven
  /\ \/ \E v \in CtlCmds : WriteCmd(v)
     \/ \E v \in DataBytes : WriteKbd(v)
     \/ ReadKbd
  /\ UNCHANGED <<sccVars, t2Vars, enetVars, ioc, level>>

EnetOp ==
  /\ Ethernet
  /\ SetupSeeq \/ ResetEnet
  /\ UNCHANGED <<sccVars, ps2Vars, t2Vars, ioc, level>>

\* The Ethernet driver's part of the rings, which follows from its state.
RxDriver == /\ "receive" \in driven
            /\ ArmRx \/ TakeRx
            /\ UNCHANGED <<sccVars, ps2Vars, t2Vars, ioVars>>
TxDriver == /\ "transmit" \in driven
            /\ KickTx \/ ReapTx
            /\ UNCHANGED <<sccVars, ps2Vars, t2Vars, ioVars>>
TxQueue == /\ "transmit" \in driven
           /\ (\E s \in Shapes : QueueTx(s)) \/ HaltTx
           /\ UNCHANGED <<sccVars, ps2Vars, t2Vars, ioVars>>

TimerOp ==
  /\ "timer" \in driven
  /\ Calibrate
  /\ UNCHANGED <<sccVars, ps2Vars, enetVars, ioVars>>

Program1 ==
  /\ ops < MaxOps[driven]
  /\ ops' = ops + 1
  /\ MaskWrite \/ SerialOp \/ KeyboardOp \/ EnetOp \/ Raise
  /\ UNCHANGED driven

Next ==
  \/ ServeIP2 \/ ServeIP3
  \/ SerialTick \/ VRetrace \/ NetPoll \/ Outside
  \/ RxDriver \/ TxDriver \/ TxQueue \/ TimerOp
  \/ Program1

\* The CPU executes (so the HPC polls the network), the handler of IP2 runs
\* when its line is up, and the driver looks at its transmit ring.
Fairness == WF_vars(ServeIP2) /\ WF_vars(NetPoll) /\ WF_vars(TxDriver)

Spec == Init /\ [][Next]_vars /\ Fairness
-----------------------------------------------------------------------------
\* No interrupt storm: once a handler serves what the status registers name,
\* IP2 goes down (ioc2_local0_live, int_pending, irq and the clear paths of
\* the devices: a data read, RES_Tx_P, a status read, CLRIRQ, a zero cause).
NoStorm == IP2 ~> ~IP2
=============================================================================
