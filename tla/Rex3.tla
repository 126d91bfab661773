-------------------------------- MODULE Rex3 ---------------------------------
(***************************************************************************)
(* The REX3 raster engine (sgi_newport): clipping, colour sources, spans,  *)
(* blocks, lines, copies and reads, as operators on one engine record "e"  *)
(* that holds the registers, the framebuffer state rb and the words fb.    *)
(*                                                                         *)
(* A span is drawn either pixel by pixel or, where span_fast applies, a    *)
(* row segment at a time; e.scalar is the NEWPORT_SCALAR build option that *)
(* forces the first.  Coordinates are int16 (Half = 2^15 in the code), in  *)
(* sixteenths of a pixel where the registers keep a fraction.  Blending is *)
(* not modelled.                                                           *)
(***************************************************************************)
EXTENDS Rb2, Sequences, FiniteSets, SequencesExt

CONSTANTS
  FB_W, FB_H,  \* the framebuffer
  DISP_H,      \* displayed lines: output is clipped to them
  Half,        \* coordinates wrap at -Half and Half
  Bias,        \* 0x1000, the window origin
  SPAN_MAX,    \* lanes of a row segment
  Length32     \* pixels a length-limited primitive draws (32 in the code)

ASSUME SizeAssumption ==
  /\ FB_W \in Nat /\ FB_H \in Nat /\ DISP_H \in Nat
  /\ Half \in Nat /\ Half > 3
  /\ Bias \in Int /\ SPAN_MAX \in Nat /\ Length32 \in Nat

\* The values of an int16.
Coords == -Half .. Half - 1

I16(v) == ((v + Half) % (2 * Half)) - Half
Sext20(v) == ((v + 16 * Half) % (32 * Half)) - 16 * Half
Abs(v) == IF v < 0 THEN -v ELSE v
Whole(q) == I16(q \div 16)       \* the integer part of a coordinate register

FbXY == (0 .. FB_W - 1) \X (0 .. FB_H - 1)
-----------------------------------------------------------------------------
(* Coordinates: write_x_start and its three siblings keep value, fraction  *)
(* and integer part of one position, here one number of sixteenths.         *)

write_start(e, x, y) == [e EXCEPT !.xs = Sext20(x), !.ys = Sext20(y)]
write_end(e, x, y) == [e EXCEPT !.xe = Sext20(x), !.ye = Sext20(y)]

\* Octant {x major, x decreasing, y decreasing} of the line start - end.
do_setup(e) ==
  [e EXCEPT !.oct = [ydec |-> e.ys > e.ye, xdec |-> e.xs > e.xe,
                     xmajor |-> Abs(e.xs - e.xe) > Abs(e.ys - e.ye)]]
-----------------------------------------------------------------------------
(* Colour sources *)

HostShift(depth) == <<8, 8, 16, 32>>[depth + 1]
HostBits(depth) == <<4, 8, 12, 32>>[depth + 1]

Bswap32(c) == {8 * (3 - (b \div 8)) + (b % 8) : b \in Low(c, 32)}

HostColor(e) ==
  LET c == convert_depth(Low(Shr(e.host, e.host_shift), HostBits(e.m1.hostdepth)),
                         e.m1.hostdepth, e.m1.depth)
  IN  IF e.m1.swap THEN Bswap32(c) ELSE c

\* The port's next lane, when data is packed; it starts over when used up.
NextShift(e) ==
  LET s == HostShift(e.m1.hostdepth)
  IN  IF ~e.m1.rwpacked THEN e.host_shift
      ELSE IF (e.m1.rwdouble /\ e.host_shift > 0) \/ e.host_shift > 32 THEN e.host_shift - s
      ELSE 64 - s

\* The engine after it took a lane's data from the host port.
HostTaken(e) == [e EXCEPT !.host_shift = NextShift(e)]

Channels == {"red", "green", "blue", "alpha"}

\* The 9-bit integer part of an iterator, clamped to a byte.
ShadeClamp(c) == LET v == (c \div 2048) % 512
            IN  IF c < 0 \/ v >= 384 THEN 0 ELSE IF v > 255 THEN 255 ELSE v

iterate_shade(e) ==
  LET curr == [ch \in Channels |-> e.curr[ch] + e.slope[ch]]
      v(c) == (c \div 2048) % 512
      cl(c) == IF c < 0 \/ v(c) >= 384 THEN 0 ELSE IF v(c) > 255 THEN 524287 ELSE c
      top == <<15, 19, 21, 31>>[e.m1.depth + 1]
  IN  IF ~e.m0.ciclamp THEN [e EXCEPT !.curr = curr]
      ELSE IF e.m1.rgb THEN [e EXCEPT !.curr = [ch \in Channels |-> cl(curr[ch])]]
      ELSE [e EXCEPT !.curr = curr,
                     !.color.red = IF e.m1.depth < 3 /\ (@ \div 2^top) % 2 = 1
                                    THEN 2^top - 1 ELSE @]

Restart(e) == [e EXCEPT !.curr = e.color]

default_color(e, src) ==
  LET c == IF e.m1.fastclear THEN e.color_vram ELSE src
      v == e.color_vram
  IN  CASE e.m1.depth = 0 -> Repeat(Low(c, 4), {4 * k : k \in 0 .. 7})
        [] e.m1.depth = 1 -> Repeat(Low(c, 8), {8 * k : k \in 0 .. 3})
        [] e.m1.depth = 2 ->
             Repeat(IF e.m1.rgb
                     THEN Shl(Low(Shr(v, 20), 4), 8) \cup Shl(Low(Shr(v, 12), 4), 4) \cup Low(Shr(v, 4), 4)
                     ELSE Low(c, 12), {0, 12})
        [] OTHER -> Low(v, 24)

Bayer(x, y) ==
  <<<<0, 12, 3, 15>>, <<8, 4, 11, 7>>, <<2, 14, 1, 13>>, <<10, 6, 9, 5>>>>[(x % 4) + 1][(y % 4) + 1]

\* One dithered channel of top + 1 levels: (v >> sh) - (v >> 4) in sixteenths.
Dithered(v, sh, top, bay) ==
  LET s == (v \div 2^sh) - (v \div 16)
      q == ((s \div 16) % (top + 1)) + (IF s % 16 > bay THEN 1 ELSE 0)
  IN  IF q > top THEN top ELSE q

DitherColor(depth, red, green, blue, bay) ==
  CASE depth = 0 ->
         LET c == NumBits(8 * Dithered(blue, 3, 1, bay) + 2 * Dithered(green, 2, 3, bay)
                            + Dithered(red, 3, 1, bay), 4)
         IN  c \cup Shl(c, 4)
    [] depth = 1 -> NumBits(64 * Dithered(blue, 2, 3, bay) + 8 * Dithered(green, 1, 7, bay)
                              + Dithered(red, 1, 7, bay), 8)
    [] depth = 2 ->
         LET c == NumBits(256 * Dithered(blue, 0, 15, bay) + 16 * Dithered(green, 0, 15, bay)
                            + Dithered(red, 0, 15, bay), 12)
         IN  c \cup Shl(c, 12)
    [] OTHER -> NumBits(65536 * blue + 256 * green + red, 24)

\* The shading colour for iterator values at (x, y).
rgb_from(e, curr, x, y) ==
  LET red == ShadeClamp(curr.red)
      green == ShadeClamp(curr.green)
      blue == ShadeClamp(curr.blue)
      alpha == Shl(NumBits(ShadeClamp(curr.alpha), 8), 24)
  IN  IF ~e.m1.rgb THEN default_color(e, NumBits(curr.red, 24))
      ELSE alpha \cup (IF e.m1.dither THEN DitherColor(e.m1.depth, red, green, blue, Bayer(x, y))
                       ELSE convert_depth(NumBits(65536 * blue + 256 * green + red, 24), 3, e.m1.depth))
-----------------------------------------------------------------------------
(* Pixels *)

InMask(m, off, x, y) ==
  /\ x >= I16(m.x0 - off) /\ x <= I16(m.x1 - off)
  /\ y >= I16(m.y0 - off) /\ y <= I16(m.y1 - off)

WinX(e, x) == I16(x + e.window.x - Bias)
WinY(e, y) == I16(y + e.window.y - Bias)

\* Mask 0 clips in drawing coordinates, any of masks 1 - 4 in the window's.
clip_pass(e, x, y) ==
  /\ 0 \in e.clip_mode => InMask(e.smask[0], 0, x, y)
  /\ LET on == e.clip_mode \cap (1 .. 4)
     IN  on # {} => \E b \in on : InMask(e.smask[b], Bias, WinX(e, x), WinY(e, y))
  /\ WinX(e, x) \in 0 .. FB_W - 1
  /\ WinY(e, y) \in 0 .. DISP_H - 1

output_pixel(e, x, y, color) ==
  LET p == <<WinX(e, x), WinY(e, y)>>
      counted == [e EXCEPT !.pixels = @ + 1]
  IN  IF clip_pass(e, x, y)
       THEN [counted EXCEPT !.fb[e.rb.dest][p] = rb_write(e.rb, @, color)]
       ELSE counted

rgb_color(e, x, y) == rgb_from(e, e.curr, x, y)
-----------------------------------------------------------------------------
(* Spans and blocks *)

\* What a draw derives from the registers before its first row.
Draw(e, block) ==
  LET dx == IF e.oct.xdec THEN -1 ELSE 1
      dy == IF e.oct.ydec THEN -1 ELSE 1
      sx == Whole(e.xs)
      ex == I16(Whole(e.xe) + dx)
      cut == e.m0.len32 /\ (IF block THEN ex - sx >= Length32 ELSE Abs(ex - sx) > Length32)
      prim == IF cut THEN I16(sx + Length32 * dx) ELSE ex
      packed == e.m0.color_host /\ e.m1.rwpacked
      most == <<4, 4, 2, 1>>[e.m1.hostdepth + 1] * (IF e.m1.rwdouble THEN 2 ELSE 1)
  IN  [block |-> block, dx |-> dx, dy |-> dy, end_x |-> ex,
       end_y |-> IF block THEN I16(Whole(e.ye) + dy) ELSE Whole(e.ye),
       prim_end_x |-> IF packed /\ Abs(prim - sx) > most THEN I16(sx + dx * most) ELSE prim,
       stop_on_x |-> e.m0.stop_x \/ packed, stop_on_y |-> e.m0.stop_y,
       opaque |-> e.m0.zopaque \/ e.m0.lsopaque,
       shaded |-> (e.m0.shade \/ e.m1.rgb) /\ ~e.m1.fastclear,
       pattern |-> IF e.m0.zpat THEN e.z_pattern ELSE IF e.m0.lspat THEN e.ls_pattern ELSE 0 .. 31,
       color |-> default_color(e, e.color_i),
       lr_abort |-> e.m0.lronly /\ dx < 0]

\* One pixel of the per-pixel path.
PixelStep(e0, c, x, y, bit) ==
  LET e == IF e0.m0.shade THEN iterate_shade(e0) ELSE e0
  IN  IF bit \in c.pattern
       THEN IF e.m0.color_host
             THEN output_pixel(HostTaken(e), x, y, HostColor(e))
             ELSE output_pixel(e, x, y, IF c.shaded THEN rgb_color(e, x, y) ELSE c.color)
       ELSE IF c.opaque THEN output_pixel(e, x, y, e.color_back) ELSE e

\* A pixel of the loop, then its next place and pattern bit.
NextPixel(c, y, s) ==
  [e |-> PixelStep(s.e, c, s.x, y, s.bit), x |-> I16(s.x + c.dx), bit |-> (s.bit - 1) % 32]

MorePixels(c, s) == s.x # c.prim_end_x /\ s.x # c.end_x /\ c.stop_on_x

\* The per-pixel path: a row segment, to prim_end_x, end_x or one pixel.  No
\* loop of the engine repeats a coordinate, so 2 * Half turns are enough.
Pixels(e, c, x, y) ==
  LET at[k \in 1 .. 2 * Half] ==
        IF k = 1 THEN NextPixel(c, y, [e |-> e, x |-> x, bit |-> 31])
        ELSE LET s == at[k - 1] IN IF MorePixels(c, s) THEN NextPixel(c, y, s) ELSE s
  IN  IF c.lr_abort THEN [e |-> e, x |-> x] ELSE [e |-> at[2 * Half].e, x |-> at[2 * Half].x]
-----------------------------------------------------------------------------
(* The span kernel: the same segment as arrays of lanes *)

\* Lanes of the segment: the first k >= 1 that reaches prim_end_x or end_x.
LaneCount(c, x0) ==
  LET k(t) == IF t = x0 THEN 2 * Half ELSE (t - x0) % (2 * Half)
  IN  IF ~c.stop_on_x THEN 1
      ELSE IF k(c.prim_end_x) < k(c.end_x) THEN k(c.prim_end_x) ELSE k(c.end_x)

\* No coordinate of the segment wraps.
KernelApplies(e, n, x0) ==
  LET xw0 == x0 + e.window.x - Bias
  IN  /\ n <= SPAN_MAX
      /\ x0 + n - 1 < Half
      /\ xw0 >= -Half /\ xw0 + n - 1 < Half

dither_lane(e, it, bay) ==
  LET s(v, sh) == (v \div 2^sh) - (v \div 16)
      lev(v, sh, top) ==
        LET q == ((s(v, sh) \div 16) % (top + 1)) + (IF s(v, sh) % 16 > bay THEN 1 ELSE 0)
        IN  IF q > top THEN top ELSE q
      ch(c) == ShadeClamp(it[c])
      r(sh, top) == lev(ch("red"), sh, top)
      g(sh, top) == lev(ch("green"), sh, top)
      b(sh, top) == lev(ch("blue"), sh, top)
      d == e.m1.depth
      low == CASE d = 0 -> 8 * b(3, 1) + 2 * g(2, 3) + r(3, 1)
               [] d = 1 -> 64 * b(2, 3) + 8 * g(1, 7) + r(1, 7)
               [] d = 2 -> 256 * b(0, 15) + 16 * g(0, 15) + r(0, 15)
               [] OTHER -> 65536 * ch("blue") + 256 * ch("green") + ch("red")
      c == NumBits(low, 24)
  IN  Shl(NumBits(ch("alpha"), 8), 24)
        \cup c \cup (CASE d = 0 -> Shl(c, 4) [] d = 2 -> Shl(c, 12) [] OTHER -> {})

\* Seeded fault: lane k takes the iterators before its own step.
LaneIterators_Late(e, n) ==
  LET at(k) == [ch \in Channels |-> IF e.m0.shade THEN e.curr[ch] + (k - 1) * e.slope[ch] ELSE e.curr[ch]]
  IN  [e |-> [e EXCEPT !.curr = at(n)], it |-> [k \in 1 .. n |-> at(k)]]

\* Iterator values of the lanes: stepped one by one where they clamp, else
\* start + k * slope.
LaneIterators(e, n) ==
  IF e.m0.shade /\ e.m0.ciclamp
   THEN LET at[k \in 0 .. n] == IF k = 0 THEN e ELSE iterate_shade(at[k - 1])
        IN  [e |-> at[n], it |-> [k \in 1 .. n |-> at[k].curr]]
   ELSE IF e.m0.shade
   THEN LET at(k) == [ch \in Channels |-> e.curr[ch] + k * e.slope[ch]]
        IN  [e |-> [e EXCEPT !.curr = at(n)], it |-> [k \in 1 .. n |-> at(k)]]
   ELSE [e |-> e, it |-> [k \in 1 .. n |-> e.curr]]

\* Colour generation: [e, col], host data consumed in lane order.
LaneColors(e, c, n, x0, y) ==
  LET pat(k) == (32 - k) % 32 \in c.pattern
      its == LaneIterators(e, n)
      port[k \in 0 .. n] == IF k = 0 THEN e ELSE IF pat(k) THEN HostTaken(port[k - 1]) ELSE port[k - 1]
      col(k) == IF e.m0.color_host THEN HostColor(port[k - 1])
                ELSE IF ~c.shaded THEN c.color
                ELSE IF e.m1.rgb /\ e.m1.dither THEN dither_lane(e, its.it[k], Bayer(x0 + k - 1, y))
                ELSE rgb_from(e, its.it[k], I16(x0 + k - 1), y)
  IN  [e |-> IF e.m0.color_host THEN port[n] ELSE IF c.shaded THEN its.e ELSE e,
       col |-> [k \in 1 .. n |-> IF pat(k) THEN col(k) ELSE e.color_back]]

\* The logic operation as its truth table.
LogicTable(op, v, d) ==
  LET t(b, w) == IF (op \div 2^b) % 2 = 1 THEN w ELSE {}
  IN  t(0, v \cap d) \cup t(1, v \ d) \cup t(2, d \ v) \cup t(3, Not(v \cup d))

\* Lanes that reach the framebuffer: the row's clip once, then per lane.
LanePasses(e, c, k, x0, y) ==
  LET x == x0 + k - 1
      xw == x + e.window.x - Bias
      yw == WinY(e, y)
      on == e.clip_mode \cap (1 .. 4)
      rows == {b \in on : yw >= I16(e.smask[b].y0 - Bias) /\ yw <= I16(e.smask[b].y1 - Bias)}
      row_ok == /\ yw \in 0 .. DISP_H - 1
                /\ 0 \in e.clip_mode => y >= e.smask[0].y0 /\ y <= e.smask[0].y1
                /\ on # {} => rows # {}
  IN  /\ row_ok
      /\ (32 - k) % 32 \in c.pattern \/ c.opaque
      /\ 0 \in e.clip_mode => x >= e.smask[0].x0 /\ x <= e.smask[0].x1
      /\ xw \in 0 .. FB_W - 1
      /\ on # {} => \E b \in rows : xw >= I16(e.smask[b].x0 - Bias) /\ xw <= I16(e.smask[b].x1 - Bias)

SpanKernel(e, c, n, x0, y) ==
  LET drawn == LaneColors(e, c, n, x0, y)
      written == {k \in 1 .. n : (32 - k) % 32 \in c.pattern \/ c.opaque}
      lane(p) == p[1] - (x0 + e.window.x - Bias) + 1
      put(old, color) ==
        LET v == Lanes(e.rb, color)
        IN  rb_store(e.rb, old, IF e.rb.fast_clear THEN v
                                ELSE LogicTable(e.rb.logicop, v, rb_read(e.rb, old)))
  IN  [drawn.e EXCEPT
         !.pixels = @ + Cardinality(written),
         !.fb[e.rb.dest] =
           [p \in FbXY |-> IF p[2] = WinY(e, y) /\ lane(p) \in 1 .. n /\ LanePasses(e, c, lane(p), x0, y)
                            THEN put(@[p], drawn.col[lane(p)]) ELSE @[p]]]

\* One row segment, by whichever path applies.
Segment(e, c, x, y) ==
  LET n == LaneCount(c, x)
  IN  IF ~e.scalar /\ c.dx = 1 /\ ~c.lr_abort /\ KernelApplies(e, n, x)
       THEN [e |-> SpanKernel(e, c, n, x, y), x |-> I16(x + n)]
       ELSE Pixels(e, c, x, y)

\* A row segment of a draw r = [e, x, y, more].  A finished row reloads the
\* iterators and, in a block, starts the next.
NextSegment(c, r) ==
  LET seg == Segment(r.e, c, r.x, r.y)
      done == (c.dx > 0 /\ seg.x >= c.end_x) \/ (c.dx < 0 /\ seg.x <= c.end_x) \/ c.lr_abort
      y == IF done /\ c.block THEN I16(r.y + c.dy) ELSE r.y
  IN  [e |-> IF done THEN Restart(seg.e) ELSE seg.e,
       x |-> IF done /\ c.block THEN r.e.x_save ELSE seg.x,
       y |-> y,
       more |-> c.block /\ y # c.end_y /\ c.stop_on_y]

\* Steps of d = 1 or -1 from one coordinate to another, all the way round from a
\* coordinate to itself: no loop below takes more turns.
Turns(from, to, d) ==
  LET n == (d * (to - from)) % (2 * Half) IN IF n = 0 THEN 2 * Half ELSE n

\* The segments of one row ...
DrawRow(c, r) ==
  LET n == Turns(r.x, c.end_x, c.dx)
      at[k \in 1 .. n] ==
        IF k = 1 THEN NextSegment(c, r)
        ELSE LET s == at[k - 1] IN IF s.more /\ s.y = r.y THEN NextSegment(c, s) ELSE s
  IN  at[n]

\* ... and the rows.
DrawRows(c, r) ==
  LET n == Turns(r.y, c.end_y, c.dy)
      at[k \in 1 .. n] ==
        IF k = 1 THEN DrawRow(c, r)
        ELSE LET s == at[k - 1] IN IF s.more THEN DrawRow(c, s) ELSE s
  IN  at[n]

span_or_block(e, block) ==
  LET c == Draw(e, block)
      r == DrawRows(c, [e |-> e, x |-> Whole(e.xs), y |-> Whole(e.ys), more |-> TRUE])
  IN  write_start(r.e, 16 * r.x, IF block THEN 16 * r.y ELSE r.e.ys)
-----------------------------------------------------------------------------
(* Lines *)

\* Steps {incrx1, incrx2, incry1, incry2} of an octant, and the major axis.
Bres(oct) ==
  LET x == IF oct.xdec THEN -1 ELSE 1
      y == IF oct.ydec THEN 1 ELSE -1
  IN  IF oct.xmajor THEN [x1 |-> x, x2 |-> x, y1 |-> 0, y2 |-> y]
      ELSE [x1 |-> 0, x2 |-> x, y1 |-> y, y2 |-> y]

Plot(e, x, y) ==
  LET e1 == output_pixel(e, x, y, IF e.m0.shade \/ e.m1.rgb THEN rgb_color(e, x, y)
                                  ELSE default_color(e, e.color_i))
  IN  IF e.m0.shade THEN iterate_shade(e1) ELSE e1

\* Plot the place of s = [e, x, y, d] and step; unit is the scale of x and y.
NextPoint(bi, inc, unit, s) ==
  LET first == s.d < 0
  IN  [e |-> Plot(s.e, I16(s.x \div unit), I16(s.y \div unit)),
       x |-> s.x + (IF first THEN bi.x1 ELSE bi.x2), y |-> s.y - (IF first THEN bi.y1 ELSE bi.y2),
       d |-> s.d + (IF first THEN inc[1] ELSE inc[2])]

\* n such steps.
Walk(bi, inc, unit, s, n) ==
  LET at[k \in 0 .. n] == IF k = 0 THEN s ELSE NextPoint(bi, inc, unit, at[k - 1])
  IN  at[n]

Limit(e, n) == IF e.m0.len32 /\ n > Length32 THEN Length32 ELSE n
IterateOne(e) == ~e.m0.stop_x /\ ~e.m0.stop_y

\* Seeded fault: the loop runs to the last pixel but one, whatever was skipped.
LoopCount_Short(e, n) == IF Limit(e, n) > 1 THEN Limit(e, n) - 1 ELSE 0

\* Pixels the loop plots after the optional first one.
LoopCount(e, n) ==
  LET rest == IF Limit(e, n) > 1 THEN Limit(e, n) - 1 ELSE 0
  IN  IF e.m0.skip_first THEN rest ELSE rest + 1

\* Integer line.
do_iline(e) ==
  LET x == Whole(e.xs)
      y == Whole(e.ys)
      x2 == Whole(e.xe)
      y2 == Whole(e.ye)
      dx == Abs(x2 - x)
      dy == Abs(y2 - y)
      major == IF e.oct.xmajor THEN dx ELSE dy
      minor == IF e.oct.xmajor THEN dy ELSE dx
      inc == <<2 * minor, 2 * (minor - major)>>
      n == IF IterateOne(e) THEN 1 ELSE LoopCount(e, major)
      w == Walk(Bres(e.oct), inc, 1, [e |-> e, x |-> x, y |-> y, d |-> 2 * minor - major], n)
  IN  IF IterateOne(e) \/ e.m0.skip_last THEN write_start(w.e, 16 * w.x, 16 * w.y)
      ELSE write_start(Plot(w.e, x2, y2), 16 * x2, 16 * y2)

\* Line in sixteenths; its end position is stored as it stands, without the
\* shift that the other paths apply.
do_fline(e) ==
  LET xt == e.xs - (e.xs % 16)
      yt == e.ys - (e.ys % 16)
      bi == Bres(e.oct)
      mx == e.oct.xmajor
      dx == Abs(e.xs - e.xe)
      dy == Abs(e.ys - e.ye)
      major == IF mx THEN dx ELSE dy
      minor == IF mx THEN dy ELSE dx
      fx == IF e.oct.xdec THEN 16 - (e.xs % 16) ELSE e.xs % 16
      fy == IF e.oct.ydec THEN e.ys % 16 ELSE 16 - (e.ys % 16)
      inc == <<2 * minor, 2 * (minor - major)>>
      d0 == 3 * minor - 2 * major
              + 2 * (IF mx THEN ((dx * fy) \div 16) - ((dy * fx) \div 16)
                     ELSE ((dy * fx) \div 16) - ((dx * fy) \div 16))
      over == d0 - 2 * major > 0
      loop == (IF mx THEN Abs(xt - (e.xe - (e.xe % 16))) ELSE Abs(yt - (e.ye - (e.ye % 16)))) - 1
      n == IF IterateOne(e) THEN 1 ELSE LoopCount(e, loop)
      w == Walk(bi, inc, 16,
                [e |-> e, x |-> IF over /\ ~mx THEN xt + bi.x2 ELSE xt,
                 y |-> IF over /\ mx THEN yt + bi.y2 ELSE yt, d |-> IF over THEN d0 - 2 * major ELSE d0], n)
  IN  IF IterateOne(e) \/ e.m0.skip_last THEN write_start(w.e, w.x, w.y)
      ELSE write_start(Plot(w.e, I16(e.xe \div 16), I16(e.ye \div 16)), e.xe \div 128, e.ye \div 128)
-----------------------------------------------------------------------------
(* Copies and reads *)

Fetch(e, p) == IF p \in FbXY THEN rb_read(e.rb, e.fb[e.rb.dest][p]) ELSE {}

\* What a copy derives from the registers.
CopyPlan(e) ==
  LET dx == IF e.oct.xdec THEN -1 ELSE 1
      dy == IF e.oct.ydec THEN -1 ELSE 1
  IN  [dx |-> dx, dy |-> dy, end_x |-> I16(Whole(e.xe) + dx), end_y |-> I16(Whole(e.ye) + dy)]

\* One pixel of a copy s = [e, x, y, more]; at the end of a row, the next.
NextCopy(c, s) ==
  LET src == Fetch(s.e, <<s.x + s.e.window.x - Bias, s.y + s.e.window.y - Bias>>)
      x == I16(s.x + c.dx)
      y == IF x = c.end_x THEN I16(s.y + c.dy) ELSE s.y
  IN  [e |-> output_pixel(s.e, I16(s.x + s.e.move.x), I16(s.y + s.e.move.y), src),
       x |-> IF x = c.end_x THEN s.e.x_save ELSE x,
       y |-> y,
       more |-> (x # c.end_x /\ s.e.m0.stop_x) \/ (y # c.end_y /\ s.e.m0.stop_y)]

CopyRow(c, r) ==
  LET n == Turns(r.x, c.end_x, c.dx)
      at[k \in 1 .. n] ==
        IF k = 1 THEN NextCopy(c, r)
        ELSE LET s == at[k - 1] IN IF s.more /\ s.y = r.y THEN NextCopy(c, s) ELSE s
  IN  at[n]

CopyRows(c, r) ==
  LET n == Turns(r.y, c.end_y, c.dy)
      at[k \in 1 .. n] ==
        IF k = 1 THEN CopyRow(c, r)
        ELSE LET s == at[k - 1] IN IF s.more THEN CopyRow(c, s) ELSE s
  IN  at[n]

\* Screen to screen, pixel by pixel in the direction of the octant.
scr2scr(e) ==
  LET r == CopyRows(CopyPlan(e), [e |-> e, x |-> Whole(e.xs), y |-> Whole(e.ys), more |-> TRUE])
  IN  write_start(r.e, 16 * r.x, 16 * r.y)

\* One pixel at the start position, which advances by rows of the rectangle.
do_pixel_read(e) ==
  LET v == Fetch(e, <<WinX(e, Whole(e.xs)), WinY(e, Whole(e.ys))>>)
      x1 == I16(Whole(e.xs) + 1)
      ddy == IF Whole(e.ye) < Whole(e.ys) THEN -1 ELSE 1
      wrap == x1 > Whole(e.xe)
  IN  [val |-> IF e.m1.plane \in {1, 2} THEN convert_depth(v, e.m1.depth, e.m1.hostdepth) ELSE v,
       e |-> write_start([e EXCEPT !.pixels = @ + 1],
                         16 * (IF wrap THEN e.x_save ELSE x1),
                         16 * (IF wrap THEN I16(Whole(e.ys) + ddy) ELSE Whole(e.ys)))]

\* Pixels packed into the host port from the top, as many as fit or remain.
do_pixel_word_read(e) ==
  LET hd == e.m1.hostdepth
      bits == <<4, 8, 16, 32>>[hd + 1]
      most == <<8, 4, 2, 1>>[hd + 1] * (IF e.m1.rwdouble THEN 2 ELSE 1)
      left == (Whole(e.xe) - Whole(e.xs) + 1) % (2 * Half)
      n == IF left > most THEN most ELSE left
      got[k \in 0 .. n] ==
        IF k = 0 THEN [e |-> e, w |-> {}]
        ELSE LET g == got[k - 1]
                 r == do_pixel_read(g.e)
             IN  [e |-> r.e, w |-> g.w \cup Shl(Low(r.val, HostBits(hd)), 64 - k * bits)]
  IN  [got[n].e EXCEPT !.host = got[n].w]
-----------------------------------------------------------------------------
(* A GO command *)

do_command(e0) ==
  LET e == [(IF e0.m0.setup /\ (e0.m0.op \in {"read", "draw"} \/ (e0.m0.op = "copy" /\ e0.m0.adr \in {"span", "block"}))
              THEN do_setup(e0) ELSE e0) EXCEPT !.pixels = 0]
  IN  CASE e.m0.op = "read" -> do_pixel_word_read(e)
        [] e.m0.op = "draw" /\ e.m0.adr = "span" -> span_or_block(e, FALSE)
        [] e.m0.op = "draw" /\ e.m0.adr = "block" -> span_or_block(e, TRUE)
        [] e.m0.op = "draw" /\ e.m0.adr \in {"iline", "aline"} -> do_iline(e)
        [] e.m0.op = "draw" /\ e.m0.adr = "fline" -> do_fline(e)
        [] e.m0.op = "copy" /\ e.m0.adr \in {"span", "block"} -> scr2scr(e)
        [] OTHER -> e
=============================================================================
