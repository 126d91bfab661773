---------------------------- MODULE MCScsiGuests -----------------------------
(***************************************************************************)
(* Two guests of HpcScsi: a behaviour is about transfers longer than their *)
(* chains, on one channel, or about every command the disk decodes, with   *)
(* both channels on the one chip.                                          *)
(***************************************************************************)
EXTENDS MCHpcScsi

VARIABLE about

RegisterWrites(writes) ==
  \E w \in writes : PioWrite(0, w[1]) \/ (sasr = w[1] /\ PioWrite(1, w[2]))

LongGuest ==
  \/ RegisterWrites(LongPioWrites)
  \/ \E r \in PioReads : PioWrite(0, r) \/ (sasr = r /\ PioRead)
  \/ \E d \in 0..1 : NbdpWrite(HD0, d)
  \/ \E f \in BcWrites : BcWrite(HD0, f[1], f[2])
  \/ \E x \in CtrlWrites : CtrlWrite(HD0, x)
  \/ CtrlRead(HD0)

CmdGuest ==
  \/ RegisterWrites(CmdPioWrites)
  \/ \E ch \in Channels :
       \/ NbdpWrite(ch, 2)
       \/ \E x \in CmdCtrlWrites : CtrlWrite(ch, x)
       \/ CtrlRead(ch)

MCNext ==
  /\ \/ about = "long" /\ LongGuest
     \/ about = "commands" /\ CmdGuest
     \/ scsi_run_dma
  /\ UNCHANGED about

\* The channels as Init and a write of each nbdp leave them.
CmdInit ==
  /\ ChipInit
  /\ dma = [ch \in Channels |->
        [cbp |-> 0, count |-> 0, eox |-> FALSE, xie |-> FALSE, nbdp |-> 2,
         ctrl |-> {}, active |-> FALSE, to_device |-> FALSE, state |-> "CH_IDLE"]]
  /\ intstat = {} /\ pump = NoPump /\ mem = [a \in Addr |-> Zero]

MCInit == \/ about = "long" /\ Init
          \/ about = "commands" /\ CmdInit
MCSpec == MCInit /\ [][MCNext]_<<vars, about>>
=============================================================================
