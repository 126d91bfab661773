----------------------------- MODULE BlockDevice -----------------------------
(***************************************************************************)
(* What a disk promises its driver: requests are served one at a time, a   *)
(* write reaches the store as a whole or not at all, a read returns what   *)
(* the store holds, and giving a request up never leaves half a write.     *)
(* ScsiDriver implements this with the WD33C93, the HPC3 DMA channel and   *)
(* the chunked-transfer protocol between them.                             *)
(***************************************************************************)
EXTENDS Integers, Sequences

CONSTANTS Lbas, Contents, Requests, Writes(_), None

VARIABLES
  store,  \* the disk, block by block
  req,    \* the request being served
  stage,  \* "idle", "open" (not yet performed), "performed"
  data,   \* the blocks a write request carries
  reply   \* the blocks the last read returned

bdVars == <<store, req, stage, data, reply>>

Target(r, i) == r.lba + i

Init ==
  /\ store \in [Lbas -> Contents]
  /\ req = None /\ stage = "idle" /\ data = None /\ reply = None

Submit(r, d) ==
  /\ stage = "idle"
  /\ req' = r /\ data' = d /\ stage' = "open" /\ reply' = None
  /\ UNCHANGED store

Perform ==
  /\ stage = "open"
  /\ store' = [l \in Lbas |->
                 IF Writes(req) /\ l - req.lba \in 0..(req.n - 1) THEN data[l - req.lba]
                 ELSE store[l]]
  /\ stage' = "performed"
  /\ UNCHANGED <<req, data, reply>>

Complete ==
  /\ stage = "performed"
  /\ reply' = IF Writes(req) THEN None ELSE [i \in 0..(req.n - 1) |-> store[Target(req, i)]]
  /\ stage' = "idle" /\ req' = None /\ data' = None
  /\ UNCHANGED store

GiveUp ==
  /\ stage # "idle"
  /\ stage' = "idle" /\ req' = None /\ data' = None
  /\ UNCHANGED <<store, reply>>

Next ==
  \/ \E r \in Requests :
       \E d \in IF Writes(r) THEN [0..(r.n - 1) -> Contents] ELSE {None} : Submit(r, d)
  \/ Perform \/ Complete \/ GiveUp

Spec == Init /\ [][Next]_bdVars
=============================================================================
