---------------------------------- MODULE Mc ---------------------------------
(***************************************************************************)
(* The memory controller (sgi_mc): its register file and the GIO64 graphics*)
(* DMA, which moves lines of bytes between memory, through a four-entry    *)
(* translation buffer, and the Newport host port.  A machine "m" is        *)
(* [b, mc, mem]: board, controller, memory.                                *)
(***************************************************************************)
EXTENDS Newport

CONSTANTS
  Region,   \* bytes a translation entry maps (4 MB in the code)
  PageSize, \* bytes of a page
  Ptes      \* page tables: table, page -> frame, as they stand in memory

NewMc == [memadr |-> 0, size |-> [lines |-> 0, width |-> 0], stride |-> [zoom |-> 0, step |-> 0],
          count |-> [zoom |-> 0, bytes |-> 0], mode |-> [to_host |-> FALSE, fill |-> FALSE, up |-> FALSE],
          gio |-> {}, go |-> FALSE, tlb |-> <<>>, ctl |-> FALSE, run |-> FALSE, cause |-> FALSE,
          irq |-> FALSE, regs |-> [r \in {"cpuctrl0", "cpuctrl1", "memcfg0", "memcfg1", "giopar"} |-> 0],
          ee |-> [bits |-> <<>>, rom |-> <<>>]]

\* First matching entry; an address no entry maps is taken as physical.
dma_translate(mc, va) ==
  LET hit == {i \in DOMAIN mc.tlb : mc.tlb[i].hi = va \div Region}
  IN  IF hit = {} THEN va
      ELSE PageSize * Ptes[mc.tlb[CHOOSE i \in hit : \A j \in hit : i <= j].table][(va % Region) \div PageSize]
             + (va % PageSize)

Step(mc, adr, n) == IF mc.mode.up THEN adr + n ELSE adr - n

\* Byte i of a 64-bit word, the first one on top.
Byte(w, i) == Low(Shr(w, 56 - 8 * i), 8)

Chunk(n) == IF n < 8 THEN n ELSE 8

\* Memory is filled with the GIO address register, a word at a time.
FillWord(m, adr) ==
  LET pa == dma_translate(m.mc, adr)
  IN  [m EXCEPT !.mem = [a \in pa .. pa + 3 |-> Byte(Shl(m.mc.gio, 32), a - pa)] @@ @]

\* Up to eight bytes from the board, of its answer r, ...
Arrived(m, adr, n, r) ==
  LET pa(i) == dma_translate(m.mc, Step(m.mc, adr, i))
  IN  [m EXCEPT !.b = r.b,
                !.mem = [a \in {pa(i) : i \in 0 .. n - 1} |->
                           Byte(r.val, CHOOSE i \in 0 .. n - 1 : pa(i) = a)] @@ @]

FromBoard(m, adr, n) == Arrived(m, adr, n, rex3_r(m.b, "host", m.mc.go))

\* ... or to it: a short last word is padded with zeros.
ToBoard(m, adr, n) ==
  LET w == UNION {Shl(m.mem[dma_translate(m.mc, Step(m.mc, adr, i))], 56 - 8 * i) : i \in 0 .. n - 1}
  IN  [m EXCEPT !.b = rex3_w(@, "host", [mask |-> 0 .. 63, bits |-> w], m.mc.go)]

\* The three loops of dma_perform, on s = [m, adr, n]: the words of a line of
\* which n bytes are left, ...
NextWord(s) ==
  LET host == s.m.mc.mode.to_host
      len == IF host /\ s.m.mc.mode.fill THEN 4 ELSE Chunk(s.n)
  IN  [m |-> IF host /\ s.m.mc.mode.fill THEN FillWord(s.m, s.adr)
             ELSE IF host THEN FromBoard(s.m, s.adr, len) ELSE ToBoard(s.m, s.adr, len),
       adr |-> Step(s.m.mc, s.adr, len), n |-> s.n - len]

LineBytes(s) ==
  LET at[k \in 0 .. s.n] ==
        IF k = 0 THEN s ELSE LET p == at[k - 1] IN IF p.n > 0 THEN NextWord(p) ELSE p
  IN  IF s.n > 0 THEN at[s.n] ELSE s

\* ... its repeats, which go back to its first byte, ...
Rewound(r, again, width) ==
  [r EXCEPT !.adr = IF again THEN Step(r.m.mc, @, -width) ELSE @, !.n = width]

Repeats(s, zoom) ==
  LET at[k \in 0 .. zoom] ==
        IF k = 0 THEN s ELSE Rewound(LineBytes(at[k - 1]), k < zoom, s.m.mc.size.width)
  IN  at[zoom]

\* ... and the lines.  The counters hold for the first line.
DmaLines(s, lines, zoom) ==
  LET stride == s.m.mc.stride
      at[k \in 0 .. lines] ==
        IF k = 0 THEN s
        ELSE [Repeats(at[k - 1], IF k = 1 THEN zoom ELSE stride.zoom) EXCEPT !.adr = @ + stride.step]
  IN  at[lines]

\* The whole transfer runs at once, to r; completion interrupts when enabled.
Transferred(m, r) ==
  LET raise == m.mc.ctl
      done == [r.m.mc EXCEPT !.memadr = r.adr, !.size.lines = 0, !.count = [zoom |-> 0, bytes |-> 0],
                             !.run = TRUE, !.cause = @ \/ raise, !.irq = @ \/ raise]
  IN  [r.m EXCEPT !.mc = done]

dma_perform(m) ==
  Transferred(m, DmaLines([m |-> m, adr |-> m.mc.memadr, n |-> m.mc.count.bytes], m.mc.size.lines, m.mc.count.zoom))

\* Writes of the size and stride registers load the counters too.
dma_write(m, reg, v) ==
  CASE reg = "tlb" -> [m EXCEPT !.mc.tlb = v]
    [] reg = "dma_cause" -> [m EXCEPT !.mc.cause = v, !.mc.irq = @ /\ v]
    [] reg = "dma_ctl" -> [m EXCEPT !.mc.ctl = v]
    [] reg = "dma_memadr" -> [m EXCEPT !.mc.memadr = v]
    [] reg = "dma_size" -> [m EXCEPT !.mc.size = v, !.mc.count.bytes = v.width]
    [] reg = "dma_stride" -> [m EXCEPT !.mc.stride = v, !.mc.count.zoom = v.zoom]
    [] reg = "dma_gio_adr" -> [m EXCEPT !.mc.gio = v.adr, !.mc.go = v.go]
    [] reg = "dma_gio_start" -> dma_perform([m EXCEPT !.mc.gio = v.adr, !.mc.go = v.go])
    [] reg = "dma_mode" -> [m EXCEPT !.mc.mode = v]
    [] reg = "dma_count" -> [m EXCEPT !.mc.count = v]
    [] reg = "dma_start" -> IF v THEN dma_perform(m) ELSE m
    [] OTHER -> m

\* The serial EEPROM is clocked bit by bit into whole bytes.
EepromClock(ee, bit) ==
  LET bits == Append(ee.bits, bit)
  IN  IF Len(bits) = 8 THEN [bits |-> <<>>, rom |-> Append(ee.rom, bits)] ELSE [ee EXCEPT !.bits = bits]

\* Other controller registers: plain, but for the EEPROM port.
McWrite(m, reg, v) ==
  CASE reg \in DOMAIN m.mc.regs -> [m EXCEPT !.mc.regs[reg] = v]
    [] reg = "eeprom" -> IF v.selected THEN [m EXCEPT !.mc.ee = EepromClock(@, v.bit)] ELSE m
    [] OTHER -> dma_write(m, reg, v)
=============================================================================
