--------------------------------- MODULE Scc ---------------------------------
(***************************************************************************)
(* The Z8530 serial controller (sgi_scc): the two-step register pointer,   *)
(* transmit timing with its one-shot Tx interrupt, and the receive ring    *)
(* filled from the host's standard input.  Channel 0 is B, 1 is A.         *)
(*                                                                         *)
(* Times are kept as ticks left (drain_at - clk, rx_poll_at - clk).  WR9   *)
(* is stored by the code and never read, so it is left out.                *)
(***************************************************************************)
EXTENDS Naturals, Sequences

CONSTANTS
  RxFifo,          \* sizeof(rx_fifo): 8 in the code
  TX_DRAIN_TICKS,  \* instructions a character takes to shift out: 1024
  RxPollTicks,     \* instructions between two looks at stdin: 65536
  Chars,           \* what the host may type
  NoChar,          \* what a slot of the ring holds before its first character
  MaxTyped         \* bound: characters the host types in a behaviour

ASSUME SccAssumption ==
  /\ RxFifo \in Nat \ {0}
  /\ TX_DRAIN_TICKS \in Nat \ {0}
  /\ RxPollTicks \in Nat \ {0}
  /\ NoChar \notin Chars
  /\ MaxTyped \in Nat

VARIABLES
  scc,    \* the controller
  stdin,  \* characters typed on the host and not yet read by rx_poll
  typed,  \* every character typed so far
  got     \* every character a data read has returned

sccVars == <<scc, stdin, typed, got>>

Chan == 0 .. 1

\* Bits of WR1 and the WR0 commands; a byte is decoded where it is used.
TxINT_ENAB(b) == (b \div 2) % 2 = 1
rx_int_en(b) == (b \div 8) % 4 # 0
PointOf(b) == (b % 8) + (IF (b \div 8) % 8 = 1 THEN 8 ELSE 0)
IsResTxP(b) == (b \div 8) % 8 = 5

SccInit ==
  /\ scc = [ptr |-> [ch \in Chan |-> 0], wr1 |-> [ch \in Chan |-> 0],
            tx_busy |-> [ch \in Chan |-> FALSE], drain |-> [ch \in Chan |-> 0],
            tx_ip |-> [ch \in Chan |-> FALSE],
            rx_fifo |-> [i \in 0 .. RxFifo - 1 |-> NoChar],
            rx_wptr |-> 0, rx_rptr |-> 0, rx_count |-> 0, poll |-> 0]
  /\ stdin = <<>>
  /\ typed = <<>>
  /\ got = <<>>
-----------------------------------------------------------------------------
(* Interrupts *)

tx_int(ch) == TxINT_ENAB(scc.wr1[ch]) /\ scc.tx_ip[ch]
RxPending(ch) == scc.rx_count > 0 /\ rx_int_en(scc.wr1[ch])

\* Chip-wide interrupt-pending register, as the causes whose bit is set.
RR3 == {<<"Tx", ch>> : ch \in {c \in Chan : tx_int(c)}}
         \cup {<<"Rx", ch>> : ch \in {c \in Chan : RxPending(c)}}

int_pending ==
  \/ scc.rx_count > 0 /\ (rx_int_en(scc.wr1[0]) \/ rx_int_en(scc.wr1[1]))
  \/ tx_int(0)
  \/ tx_int(1)
-----------------------------------------------------------------------------
(* The clock *)

Smaller(a, b) == IF a < b THEN a ELSE b

\* The host types.
HostType(c) ==
  /\ Len(typed) < MaxTyped
  /\ stdin' = Append(stdin, c)
  /\ typed' = Append(typed, c)
  /\ UNCHANGED <<scc, got>>

\* Seeded fault: the ring is filled without looking at how much it holds.
rx_poll_Overrun(s) ==
  LET n == Smaller(RxFifo, Len(stdin))
      Slot(i) == (s.rx_wptr + i - 1) % RxFifo
  IN [s EXCEPT !.rx_fifo = [k \in DOMAIN @ |->
                              IF \E i \in 1 .. n : Slot(i) = k
                                THEN stdin[CHOOSE i \in 1 .. n : Slot(i) = k]
                                ELSE @[k]],
               !.rx_wptr = (@ + n) % RxFifo,
               !.rx_count = Smaller(@ + n, RxFifo),
               !.poll = RxPollTicks]

\* The receive part of a tick: move what the host has typed into the ring, as
\* far as there is room.
rx_poll(s) ==
  LET n == Smaller(RxFifo - s.rx_count, Len(stdin))
      Slot(i) == (s.rx_wptr + i - 1) % RxFifo
  IN [s EXCEPT !.rx_fifo = [k \in DOMAIN @ |->
                              IF \E i \in 1 .. n : Slot(i) = k
                                THEN stdin[CHOOSE i \in 1 .. n : Slot(i) = k]
                                ELSE @[k]],
               !.rx_wptr = (@ + n) % RxFifo,
               !.rx_count = @ + n,
               !.poll = RxPollTicks]

\* A character that has shifted out raises its channel's Tx interrupt.
Drained(s) ==
  LET done == {ch \in Chan : s.tx_busy[ch] /\ s.drain[ch] <= 1}
  IN [s EXCEPT !.drain = [ch \in Chan |-> IF @[ch] = 0 THEN 0 ELSE @[ch] - 1],
               !.tx_busy = [ch \in Chan |-> @[ch] /\ ch \notin done],
               !.tx_ip = [ch \in Chan |-> @[ch] \/ ch \in done]]

\* One instruction.
tick ==
  LET due == scc.poll <= 1
      s == IF due THEN rx_poll(scc) ELSE [scc EXCEPT !.poll = @ - 1]
  IN /\ scc' = Drained(s)
     /\ stdin' = SubSeq(stdin, s.rx_count - scc.rx_count + 1, Len(stdin))
     /\ UNCHANGED <<typed, got>>
-----------------------------------------------------------------------------
(* Register accesses.  Each is a function of the controller, so that an     *)
(* interrupt handler can make several in a row.                             *)

\* Data read: the front of the ring, whichever channel is addressed.
DataRead(s) ==
  IF s.rx_count > 0
    THEN [s EXCEPT !.rx_rptr = (@ + 1) % RxFifo, !.rx_count = @ - 1]
    ELSE s

DataReadValue(s) == IF s.rx_count > 0 THEN <<s.rx_fifo[s.rx_rptr]>> ELSE <<>>

\* Control read: RR[pointer], and the pointer goes back to 0.
CtrlRead(s, ch) == [s EXCEPT !.ptr[ch] = 0]

\* What RR0 says of the transmitter: the buffer is empty, all has been sent.
RR0TxEmpty(ch) == ~scc.tx_busy[ch]

\* Data write: the character starts to shift out and the interrupt is re-armed.
DataWrite(s, ch) ==
  [s EXCEPT !.tx_ip[ch] = FALSE, !.tx_busy[ch] = TRUE, !.drain[ch] = TX_DRAIN_TICKS]

\* Control write: WR0 when the pointer is 0, else WR[pointer].
CtrlWrite(s, ch, b) ==
  IF s.ptr[ch] = 0
    THEN [s EXCEPT !.tx_ip[ch] = @ /\ ~IsResTxP(b), !.ptr[ch] = PointOf(b)]
    ELSE [s EXCEPT !.wr1[ch] = IF s.ptr[ch] = 1 THEN b ELSE @, !.ptr[ch] = 0]

\* A program's accesses, one at a time and in any order.  A character is
\* written when RR0 says the transmitter is empty.
ReadData == /\ scc' = DataRead(scc)
            /\ got' = got \o DataReadValue(scc)
            /\ UNCHANGED <<stdin, typed>>
ReadCtrl(ch) == scc' = CtrlRead(scc, ch) /\ UNCHANGED <<stdin, typed, got>>
WriteData(ch) == /\ RR0TxEmpty(ch)
                 /\ scc' = DataWrite(scc, ch)
                 /\ UNCHANGED <<stdin, typed, got>>
WriteCtrl(ch, b) == scc' = CtrlWrite(scc, ch, b) /\ UNCHANGED <<stdin, typed, got>>

\* The interrupt handler: bring the pointer to 0, select and read RR3 through
\* channel A, then serve one cause it shows.
SccSync == CtrlWrite(CtrlRead(scc, 1), 1, 3)
SccServe ==
  LET s == CtrlRead(SccSync, 1) IN
  \E c \in RR3 :
    /\ IF c[1] = "Rx"
         THEN scc' = DataRead(s) /\ got' = got \o DataReadValue(s)
         ELSE scc' = CtrlWrite(CtrlRead(s, c[2]), c[2], 40) /\ UNCHANGED got
    /\ UNCHANGED <<stdin, typed>>
-----------------------------------------------------------------------------
\* The characters in the ring, oldest first.
Ring == [i \in 1 .. scc.rx_count |-> scc.rx_fifo[(scc.rx_rptr + i - 1) % RxFifo]]

\* Console input: what the guest has read, what is in the ring (rx_rptr,
\* rx_wptr and rx_count of sgi_scc) and what still waits on the host's stdin
\* are together what was typed: nothing is lost when the ring is full,
\* repeated or reordered, however reads and polls interleave.
ConsoleInOrder ==
  /\ typed = got \o Ring \o stdin
  /\ scc.rx_wptr = (scc.rx_rptr + scc.rx_count) % RxFifo
=============================================================================
