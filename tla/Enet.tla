-------------------------------- MODULE Enet ---------------------------------
(***************************************************************************)
(* Ethernet: the Seeq 8003 (sgi_seeq) and the two HPC3 channels that walk  *)
(* descriptor rings for it (enet_run_dma, enet_poll and the registers at   *)
(* 0x14000 and 0x16000 of sgi_hpc), with the driver's side of the rings.   *)
(*                                                                         *)
(* A received byte is <<frame, position>>, a pad byte or the status byte;  *)
(* a transmitted one is <<packet, position>>.  A chain holds one packet,   *)
(* in one or two descriptors.  The logging switches are left out; the two  *)
(* that change the protocol (ENET_TX_LATENCY, ENET_HEADETXD) are options   *)
(* chosen in the initial state.                                            *)
(***************************************************************************)
EXTENDS Naturals, Sequences, SequencesExt

CONSTANTS
  NRx, NTx,    \* descriptors of the two rings
  BufSize,     \* bytes of a receive buffer
  MinFrame,    \* shortest frame looked at: 14 bytes
  EthMin,      \* frames are padded to this length: 60
  Frames,      \* the frames the network may send: [dst, len] records
  Shapes,      \* how the driver splits a packet: byte counts of its descriptors
  Options,     \* [lat, head]: ENET_TX_LATENCY and ENET_HEADETXD
  MaxRx,       \* bound: frames sent by the network
  MaxTx        \* bound: packets sent by the driver

ASSUME EnetAssumption ==
  /\ NRx \in Nat \ {0} /\ NTx \in Nat \ {0}
  /\ BufSize \in Nat /\ MinFrame \in Nat \ {0} /\ EthMin \in Nat
  /\ Frames \subseteq [dst : {"station", "broadcast", "multicast", "other"}, len : Nat]
  /\ Options \subseteq [lat : Nat, head : BOOLEAN]
  /\ MaxRx \in Nat /\ MaxTx \in Nat

\* The sum of a sequence of numbers.
TotalOf(s) == FoldLeft(LAMBDA n, c : n + c, 0, s)

\* The driver sends no runt, which the chip would drop.
ASSUME ShapeAssumption ==
  \A s \in Shapes : s \in Seq(Nat) /\ s # <<>> /\ TotalOf(s) >= MinFrame

VARIABLES
  seeq,   \* the chip, and the tap device behind it
  enet,   \* the two DMA channels and their interrupts
  rings,  \* the descriptors and buffers in memory
  drv,    \* the driver's pointers into the rings
  wire    \* what is under way: packets queued and not sent, bytes received and
          \* not taken, frames sent that were not the oldest queued packet, and
          \* whether a reset tore a packet

enetVars == <<seeq, enet, rings, drv, wire>>

\* Op(v), with v evaluated once however often Op uses it.
Once(Op(_), v) == CHOOSE t \in {Op(u) : u \in {v}} : TRUE

SeeqReset(q) ==
  [q EXCEPT !.match = "none", !.ien = FALSE, !.rx_new = FALSE, !.bank = 0, !.tx_new = FALSE,
            !.tx_frame = <<>>, !.rx_queue = <<>>, !.rx_cur = <<>>]

RxOwned == [i \in 0 .. NRx - 1 |-> [own |-> TRUE, data |-> <<>>]]
TxFree == [i \in 0 .. NTx - 1 |-> [eox |-> FALSE, etxd |-> TRUE, data |-> <<>>]]

EnetInit ==
  /\ seeq = [tap |-> <<>>, match |-> "none", ien |-> FALSE, bank |-> 0, station |-> FALSE,
             rx_new |-> FALSE, tx_new |-> FALSE,
             tx_frame |-> <<>>, rx_queue |-> <<>>, rx_cur |-> <<>>]
  /\ \E o \in Options :
       enet = [opt |-> o, rx |-> [active |-> FALSE, nbdp |-> 0], tx |-> [active |-> FALSE, nbdp |-> 0],
               rx_irq |-> FALSE, tx_irq |-> FALSE, crbdp |-> 0, tx_crbdp |-> 0, hold |-> 0,
               s_head |-> NTx]
  /\ rings = [rx |-> RxOwned, tx |-> TxFree]
  /\ drv = [rx |-> 0, tail |-> 0, kick |-> <<>>, reap |-> <<>>, packets |-> 0]
  /\ wire = [frames |-> 0, unsent |-> <<>>, stray |-> <<>>, due |-> <<>>, torn |-> FALSE]
-----------------------------------------------------------------------------
(* The Seeq *)

address_filter(f) ==
  CASE seeq.match = "none" -> FALSE
    [] seeq.match = "promiscuous" -> TRUE
    [] seeq.match = "station+broadcast" -> f.dst = "broadcast" \/ (f.dst = "station" /\ seeq.station)
    [] OTHER -> f.dst \in {"broadcast", "multicast"} \/ (f.dst = "station" /\ seeq.station)

\* A frame as it is staged for DMA: two pad bytes, the frame, filled up to the
\* shortest legal length, and the status byte.
Staged(f) ==
  <<"pad", "pad">>
    \o [j \in 1 .. f.len |-> <<f.id, j>>]
    \o [j \in 1 .. (IF f.len < EthMin THEN EthMin - f.len ELSE 0) |-> "fill"]
    \o <<"status">>

\* rx_avail(): a frame is staged, or can be.  Staging takes it off the queue.
Stage(q) ==
  IF q.rx_cur = <<>> /\ q.rx_queue # <<>>
    THEN [q EXCEPT !.rx_cur = Staged(Head(q.rx_queue)), !.rx_queue = Tail(@)]
    ELSE q
rx_avail(q) == q.rx_cur # <<>> \/ q.rx_queue # <<>>

\* Take every frame off the tap that the filter lets through.
Wanted(q) == FlattenSeq([i \in DOMAIN q |-> IF q[i].len >= MinFrame /\ address_filter(q[i]) THEN <<q[i]>> ELSE <<>>])
PollTap(q) == [q EXCEPT !.tap = <<>>, !.rx_queue = @ \o Wanted(q.tap)]

\* Send what has been gathered; too short a frame is dropped.
Flushed(q) == [q EXCEPT !.tx_frame = <<>>, !.tx_new = @ \/ q.tx_frame # <<>>]
Sent(w, f) ==
  IF Len(f) < MinFrame THEN w
  ELSE IF w.unsent # <<>> /\ f = Head(w.unsent) THEN [w EXCEPT !.unsent = Tail(@)]
  ELSE [w EXCEPT !.stray = <<f>>]

\* Register writes: receive command, transmit command (the bank), the station
\* address, which only bank 0 reaches.  Reads of a status mark it stale.
SeeqWriteRx(m, e) == seeq' = [seeq EXCEPT !.match = m, !.ien = e]
SeeqWriteTx(b) == seeq' = [seeq EXCEPT !.bank = b]
SeeqWriteStation == seeq' = [seeq EXCEPT !.station = @ \/ seeq.bank = 0]
SeeqReadStat == seeq' = [seeq EXCEPT !.rx_new = FALSE, !.tx_new = FALSE]

\* INTRQ of the chip, which the HPC keeps to itself.
seeq_intpend == (seeq.rx_new /\ seeq.ien) \/ seeq.tx_new
-----------------------------------------------------------------------------
(* Receive channel: one descriptor *)

\* Seeded fault: the channel fills a descriptor the CPU still owns.
RxStep_IgnoreOwn(st) ==
  LET q == Stage(st.q)
      i == st.e.rx.nbdp
      n == IF Len(q.rx_cur) < BufSize THEN Len(q.rx_cur) ELSE BufSize
  IN IF ~(rx_avail(st.q) /\ st.e.rx.active) \/ st.stop THEN [st EXCEPT !.stop = TRUE]
     ELSE [q |-> [q EXCEPT !.rx_cur = SubSeq(@, n + 1, Len(@)), !.rx_new = TRUE],
           e |-> [st.e EXCEPT !.rx.nbdp = (i + 1) % NRx, !.crbdp = i, !.rx_irq = TRUE],
           r |-> [st.r EXCEPT !.rx[i] = [own |-> FALSE, data |-> SubSeq(q.rx_cur, 1, n)]],
           stop |-> i = NRx - 1]

\* One descriptor of the receive ring: filled from the staged frame, taken
\* from the HPC, counted.
RxStep(st) ==
  LET q == Stage(st.q)
      i == st.e.rx.nbdp
      n == IF Len(q.rx_cur) < BufSize THEN Len(q.rx_cur) ELSE BufSize
      last == n = Len(q.rx_cur)
  IN IF ~(rx_avail(st.q) /\ st.e.rx.active) \/ st.stop THEN [st EXCEPT !.stop = TRUE]
     ELSE IF ~st.r.rx[i].own THEN [st EXCEPT !.q = q, !.stop = TRUE]
     ELSE [q |-> [q EXCEPT !.rx_cur = SubSeq(@, n + 1, Len(@)), !.rx_new = @ \/ last],
           e |-> [st.e EXCEPT !.rx.nbdp = (i + 1) % NRx, !.crbdp = i, !.rx_irq = TRUE],
           r |-> [st.r EXCEPT !.rx[i] = [own |-> FALSE, data |-> SubSeq(q.rx_cur, 1, n)]],
           stop |-> i = NRx - 1]    \* EOR is on the last descriptor of the ring

\* The walk: descriptors until nothing is staged, the CPU owns the next one or
\* the ring ends.
RxWalk(st) == FoldLeft(LAMBDA s, i : Once(RxStep, s), [st EXCEPT !.stop = FALSE], [i \in 1 .. NRx |-> i])
-----------------------------------------------------------------------------
(* Transmit channel *)

\* Seeded fault: every buffer is sent as a frame of its own.
TxStep_PerBuffer(st) ==
  LET i == st.e.tx.nbdp
      d == st.r.tx[i]
      q == [st.q EXCEPT !.tx_frame = @ \o d.data]
  IN IF ~st.e.tx.active \/ st.stop THEN st
     ELSE [q |-> Flushed(q),
           e |-> [st.e EXCEPT !.tx_crbdp = i, !.tx_irq = TRUE, !.tx.nbdp = (i + 1) % NTx,
                              !.tx.active = ~(d.eox /\ st.e.opt.lat = 0),
                              !.hold = IF d.eox THEN st.e.opt.lat ELSE @],
           r |-> [st.r EXCEPT !.tx[i].etxd = TRUE],
           w |-> Sent(st.w, q.tx_frame),
           stop |-> d.eox \/ st.e.opt.lat # 0]

\* One descriptor: its bytes go to the chip, its ETXD is set (the head's only
\* at the end of the packet when ENET_HEADETXD is on), and at EOX the frame is
\* sent.  The channel then stops, or drains for a while.
TxStep(st) ==
  LET i == st.e.tx.nbdp
      d == st.r.tx[i]
      head == IF st.e.s_head = NTx THEN i ELSE st.e.s_head
      late == st.e.opt.head /\ i = head
      q == [st.q EXCEPT !.tx_frame = @ \o d.data]
      marked == [st.r.tx EXCEPT ![i].etxd = @ \/ ~late]
  IN IF ~st.e.tx.active \/ st.stop THEN st
     ELSE [q |-> IF d.eox THEN Flushed(q) ELSE q,
           e |-> [st.e EXCEPT !.tx_crbdp = i, !.tx_irq = TRUE,
                              !.s_head = IF d.eox THEN NTx ELSE head,
                              !.tx.nbdp = (i + 1) % NTx,
                              !.tx.active = ~(d.eox /\ st.e.opt.lat = 0),
                              !.hold = IF d.eox THEN st.e.opt.lat ELSE @],
           r |-> [st.r EXCEPT !.tx = IF d.eox /\ st.e.opt.head THEN [marked EXCEPT ![head].etxd = TRUE]
                                                              ELSE marked],
           w |-> IF d.eox THEN Sent(st.w, q.tx_frame) ELSE st.w,
           stop |-> d.eox \/ st.e.opt.lat # 0]

\* The walk: the whole chain at once, or one descriptor when a latency is set.
TxWalk(st) == FoldLeft(LAMBDA s, i : Once(TxStep, s), [st EXCEPT !.stop = FALSE], [i \in 1 .. NTx |-> i])

ApplyTx(q, e) ==
  \E st \in {TxWalk([q |-> q, e |-> e, r |-> rings, w |-> wire, stop |-> FALSE])} :
    /\ seeq' = st.q
    /\ enet' = st.e
    /\ rings' = st.r
    /\ wire' = st.w
-----------------------------------------------------------------------------
(* The poll, once every 1024 instructions *)

AcceptedBytes(q) == FlattenSeq([k \in DOMAIN q |-> Staged(q[k])])

\* The transmit half: a chain that drains counts down, one that does not goes
\* on; with no latency there is nothing to do here.
TxPoll(st) ==
  LET draining == st.e.tx.active /\ st.e.hold # 0
  IN IF draining THEN [st EXCEPT !.e.hold = @ - 1, !.e.tx.active = st.e.hold # 1]
     ELSE IF st.e.opt.lat # 0 /\ st.e.tx.active THEN TxWalk(st)
     ELSE st

enet_poll ==
  \E q \in {PollTap(seeq)} :
  \E rx \in {RxWalk([q |-> q, e |-> enet, r |-> rings, stop |-> FALSE])} :
  \E tx \in {TxPoll([q |-> rx.q, e |-> rx.e, r |-> rx.r, w |-> wire, stop |-> FALSE])} :
    /\ seeq' = tx.q
    /\ enet' = tx.e
    /\ rings' = tx.r
    /\ wire' = [tx.w EXCEPT !.due = @ \o AcceptedBytes(SubSeq(q.rx_queue, Len(seeq.rx_queue) + 1, Len(q.rx_queue)))]
    /\ UNCHANGED drv

\* The network sends a frame to the tap.
NetSend(f) ==
  /\ wire.frames < MaxRx
  /\ seeq' = [seeq EXCEPT !.tap = Append(@, [id |-> wire.frames + 1, dst |-> f.dst, len |-> f.len])]
  /\ wire' = [wire EXCEPT !.frames = @ + 1]
  /\ UNCHANGED <<enet, rings, drv>>
-----------------------------------------------------------------------------
(* The driver, through the channel registers *)

\* Arm the receive channel where the driver expects the next frame.
ArmRx ==
  /\ ~enet.rx.active
  /\ LET st == RxWalk([q |-> seeq, r |-> rings, stop |-> FALSE,
                       e |-> [enet EXCEPT !.rx = [active |-> TRUE, nbdp |-> drv.rx]]])
     IN seeq' = st.q /\ enet' = st.e /\ rings' = st.r
  /\ UNCHANGED <<drv, wire>>

\* Take a filled buffer and give it back.
TakeRx ==
  /\ ~rings.rx[drv.rx].own
  /\ wire' = [wire EXCEPT !.due = SubSeq(@, Len(rings.rx[drv.rx].data) + 1, Len(@))]
  /\ rings' = [rings EXCEPT !.rx[drv.rx] = [own |-> TRUE, data |-> <<>>]]
  /\ drv' = [drv EXCEPT !.rx = (@ + 1) % NRx]
  /\ UNCHANGED <<seeq, enet>>

\* Queue a packet in free descriptors of the transmit ring: it fits when the
\* ring has room besides the packets not yet reclaimed.
UsedTx == LET q == drv.kick \o drv.reap IN TotalOf([i \in DOMAIN q |-> q[i].len])
QueueTx(shape) ==
  /\ drv.packets < MaxTx
  /\ UsedTx + Len(shape) <= NTx
  /\ LET p == drv.packets + 1
         Before(k) == TotalOf(SubSeq(shape, 1, k - 1))
         Slot(k) == (drv.tail + k - 1) % NTx
     IN /\ rings' = [rings EXCEPT !.tx =
                       [i \in DOMAIN @ |->
                          IF \E k \in DOMAIN shape : Slot(k) = i
                            THEN LET k == CHOOSE k \in DOMAIN shape : Slot(k) = i
                                 IN [eox |-> k = Len(shape), etxd |-> FALSE,
                                     data |-> [j \in 1 .. shape[k] |-> <<p, Before(k) + j>>]]
                            ELSE @[i]]]
        /\ drv' = [drv EXCEPT !.packets = p, !.tail = (@ + Len(shape)) % NTx,
                              !.kick = Append(@, [id |-> p, head |-> drv.tail, len |-> Len(shape)])]
        /\ wire' = [wire EXCEPT !.unsent = Append(@, [j \in 1 .. Before(Len(shape) + 1) |-> <<p, j>>])]
  /\ UNCHANGED <<seeq, enet>>

\* Seeded fault: the drain of the chain before goes on counting.
TxCtrl_KeepHold(e, on) == [e EXCEPT !.tx.active = on]

\* Start the next packet when the channel reads idle.  An edge of ACTIVE
\* cancels a drain that is still counting.
TxCtrl(e, on) == [e EXCEPT !.tx.active = on, !.hold = IF e.tx.active # on THEN 0 ELSE @]

KickTx ==
  /\ drv.kick # <<>>
  /\ ~enet.tx.active
  /\ ApplyTx(seeq, [TxCtrl(enet, TRUE) EXCEPT !.tx.nbdp = Head(drv.kick).head])
  /\ drv' = [drv EXCEPT !.kick = Tail(@), !.reap = Append(@, Head(drv.kick))]

\* The resync of a driver that sees everything sent and the channel active:
\* halt it.
HaltTx ==
  /\ enet.tx.active /\ enet.hold # 0
  /\ enet' = TxCtrl(enet, FALSE)
  /\ UNCHANGED <<seeq, rings, drv, wire>>

\* Reclaim the oldest packet once its head descriptor says it was sent.
ReapTx ==
  /\ drv.reap # <<>>
  /\ rings.tx[Head(drv.reap).head].etxd
  /\ drv' = [drv EXCEPT !.reap = Tail(@)]
  /\ UNCHANGED <<seeq, enet, rings, wire>>

\* CLRIRQ, when the reset register shows an interrupt, and CRESET, after which
\* the driver sets up its rings again.
ClearIrq ==
  /\ enet.rx_irq \/ enet.tx_irq
  /\ enet' = [enet EXCEPT !.rx_irq = FALSE, !.tx_irq = FALSE]
  /\ UNCHANGED <<seeq, rings, drv, wire>>
ResetEnet ==
  /\ enet.rx.active \/ enet.tx.active
  /\ seeq' = SeeqReset(seeq)
  /\ enet' = [enet EXCEPT !.rx.active = FALSE, !.tx.active = FALSE,
                          !.rx_irq = FALSE, !.tx_irq = FALSE]
  /\ rings' = [rx |-> RxOwned, tx |-> TxFree]
  /\ drv' = [drv EXCEPT !.rx = 0, !.tail = 0, !.kick = <<>>, !.reap = <<>>]
  /\ wire' = [wire EXCEPT !.due = <<>>, !.unsent = <<>>, !.torn = @ \/ enet.s_head # NTx]

\* The driver programs the chip.
SetupSeeq ==
  /\ \/ \E m \in {"promiscuous", "station+broadcast", "station+multicast"} : SeeqWriteRx(m, TRUE)
     \/ \E b \in {0, 1} : SeeqWriteTx(b)
     \/ SeeqWriteStation
     \/ SeeqReadStat
  /\ UNCHANGED <<enet, rings, drv, wire>>
-----------------------------------------------------------------------------
\* The bytes in receive buffers the driver has not taken, in ring order.
InRing ==
  FlattenSeq([k \in 1 .. NRx |->
                LET d == rings.rx[(drv.rx + k - 1) % NRx] IN IF d.own THEN <<>> ELSE d.data])

\* Reception (enet_run_dma and the staging of sgi_seeq): the bytes in buffers the driver
\* has not looked at, the rest of the staged frame and the queued frames are,
\* in this order, what it has still to get of the accepted frames, padded and
\* with their status: no frame is lost, repeated, torn or overwritten when
\* the ring is full, frames span buffers or the channel stalls in a frame.
RxStream ==
  wire.due = InRing \o seeq.rx_cur \o AcceptedBytes(seeq.rx_queue)

\* Transmission: every frame on the wire is the oldest packet the driver has
\* queued and the wire has not seen, whole, and a packet whose head shows ETXD
\* (which is when the driver reclaims it) is out.  A reset in the middle of a
\* packet excepted: the head that ENET_HEADETXD remembers survives it.
TxInOrder ==
  wire.torn \/
    /\ wire.stray = <<>>
    /\ \A k \in DOMAIN drv.reap :
         rings.tx[drv.reap[k].head].etxd /\ (enet.opt.lat = 0 \/ enet.opt.head)
           => \A n \in DOMAIN wire.unsent : wire.unsent[n][1][1] # drv.reap[k].id

\* Whatever the drain, the resync and the resets do, a packet the driver has
\* queued is sent and reclaimed (enet_tx_hold and ACTIVE of sgi_hpc): the
\* channel is not left waiting, and no drain ends a chain it does not belong to.
PacketsLeave == drv.kick \o drv.reap # <<>> ~> drv.kick \o drv.reap = <<>>
=============================================================================
