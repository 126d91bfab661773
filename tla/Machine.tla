------------------------------- MODULE Machine -------------------------------
(***************************************************************************)
(* The emulator as one process: the devices behind IOC2, the graphics      *)
(* board with the memory controller, and the services the host gets from   *)
(* it: lockstep, the disk's sidecar, checkpoints and the debugger.  They   *)
(* meet in the run loop, which does one thing at a time.                   *)
(*                                                                         *)
(* As in Ioc2, a behaviour exercises the parts in "driven"; the others     *)
(* stay in one of their initial states.                                    *)
(***************************************************************************)
EXTENDS Ioc2, Graphics, Lockstep, Delta, Checkpoint, GdbStub

hostVars == <<lockVars, deltaVars, ckptVars, gdbVars>>
machineVars == <<vars, gfxVars, hostVars>>

NoJob == [kind |-> "none"]

GraphicsInit ==
  IF "graphics" \in driven THEN GfxInit
  ELSE gfx = [job |-> NoJob, pc |-> 1, fast |-> <<>>, oracle |-> <<>>, retraced |-> FALSE]

LockstepInit ==
  /\ LockInit
  /\ "lockstep" \notin driven =>
       /\ shm = NoSegment /\ differ = [regs |-> {}, mem |-> {}]
       /\ server.limit = MaxSteps /\ client.limit = MaxSteps

CheckpointInit ==
  /\ CkptInit
  /\ "checkpoint" \notin driven => options = [at |-> 0, next |-> 0, every |-> 0, icnt |-> 0]

MachineInit == Init /\ GraphicsInit /\ LockstepInit /\ DeltaInit /\ CheckpointInit /\ GdbInit

Devices == Next /\ UNCHANGED <<gfxVars, hostVars>>

Board ==
  /\ "graphics" \in driven
  /\ GfxNext
  /\ UNCHANGED <<vars, hostVars>>

CoSimulation ==
  /\ "lockstep" \in driven
  /\ LockNext
  /\ UNCHANGED <<vars, gfxVars, deltaVars, ckptVars, gdbVars>>

Sidecar ==
  /\ "delta" \in driven
  /\ DeltaNext
  /\ UNCHANGED <<vars, gfxVars, lockVars, ckptVars, gdbVars>>

Checkpoints ==
  /\ "checkpoint" \in driven
  /\ CkptNext
  /\ UNCHANGED <<vars, gfxVars, lockVars, deltaVars, gdbVars>>

Debugger ==
  /\ "debugger" \in driven
  /\ GdbNext
  /\ UNCHANGED <<vars, gfxVars, lockVars, deltaVars, ckptVars>>

MachineNext == Devices \/ Board \/ CoSimulation \/ Sidecar \/ Checkpoints \/ Debugger

MachineSpec == MachineInit /\ [][MachineNext]_machineVars /\ Fairness
=============================================================================
