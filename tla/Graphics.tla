------------------------------ MODULE Graphics -------------------------------
(***************************************************************************)
(* The graphics path: programs that drive the Newport board and the memory *)
(* controller's DMA one bus access at a time, with vertical retraces in    *)
(* between.  Every access is made to two machines at once: gfx.fast draws  *)
(* spans with the kernel, gfx.oracle pixel by pixel (NEWPORT_SCALAR).      *)
(*                                                                         *)
(* A job names a drawing task; DriverProgram(job) is the sequence of      *)
(* accesses a graphics driver makes for it.                                *)
(***************************************************************************)
EXTENDS Mc

CONSTANTS
  Jobs,      \* the tasks
  MemSize,   \* bytes of memory
  Planes     \* the board's planes: 0 .. 7 is an XL8, 0 .. 23 an XL24

VARIABLE gfx

gfxVars == <<gfx>>

-----------------------------------------------------------------------------
(* Drivers *)

W(reg, val) == [dev |-> "rex", reg |-> reg, val |-> val, go |-> FALSE]
Go(reg, val) == [dev |-> "rex", reg |-> reg, val |-> val, go |-> TRUE]
R(reg, go) == [dev |-> "read", reg |-> reg, val |-> 0, go |-> go]
M(reg, val) == [dev |-> "mc", reg |-> reg, val |-> val, go |-> FALSE]
XY(x, y) == [x |-> x, y |-> y]

\* Bytes a pixel takes in host memory.
PixelBytes(hd) == <<1, 2, 4>>[hd]

Dma(j, from, lines, zoom, up) ==
  <<M("dma_memadr", from),
    M("dma_size", [lines |-> lines, width |-> j.w * PixelBytes(j.host)]),
    M("dma_stride", [zoom |-> zoom, step |-> 0]),
    M("dma_mode", [to_host |-> up, fill |-> FALSE, up |-> TRUE]),
    M("dma_gio_start", [adr |-> {}, go |-> TRUE]),
    M("dma_cause", FALSE)>>

BlitMode(j) == [Mode1 EXCEPT !.plane = j.plane, !.depth = j.depth, !.hostdepth = j.host,
                             !.rwpacked = TRUE, !.rwdouble = TRUE, !.rgb = FALSE, !.fastclear = FALSE,
                             !.logicop = j.logicop]

\* An image from memory to the screen, each line j.zoom times, and back.
BlitProgram(j) ==
  LET h == j.h * j.zoom
      rect == <<W("xy_start", XY(j.x, j.y)), W("xy_end", XY(j.x + j.w - 1, j.y + h - 1))>>
  IN  <<W("draw_mode1", BlitMode(j)), W("write_mask", Bits24), M("tlb", j.tlb), M("dma_ctl", TRUE),
        W("draw_mode0", [Mode0 EXCEPT !.op = "draw", !.adr = "block", !.color_host = TRUE, !.stop_x = TRUE])>>
      \o rect \o Dma(j, j.from, j.h, j.zoom, FALSE)
      \o <<W("draw_mode0", [Mode0 EXCEPT !.op = "read", !.adr = "block"])>>
      \o rect \o <<R("host", TRUE)>> \o Dma(j, j.to, h, 1, TRUE)

\* Clear the screen to a colour, then j.gos commands with the job's modes and a
\* last one with another draw_mode0.
DrawProgram(j) ==
  <<W("draw_mode1", [Mode1 EXCEPT !.depth = j.m1.depth]), W("write_mask", Bits24),
    W("color_vram", {0, 3, 6, 9, 12, 17, 22}),
    W("draw_mode0", [Mode0 EXCEPT !.op = "draw", !.adr = "block", !.stop_x = TRUE, !.stop_y = TRUE]),
    W("xy_start", XY(0, 0)), Go("xy_end", XY(FB_W - 1, DISP_H - 1)),
    W("draw_mode1", j.m1), W("draw_mode0", j.m0), W("write_mask", j.mask),
    W("z_pattern", j.pattern), W("ls_pattern", j.pattern), W("ls_save", 0), W("ls_restore", 0),
    W("color_back", {1, 4}), W("color_i", {0, 2, 11, 18}),
    W("color_red", 100 * 2048), W("green", 90 * 2048 + 700), W("blue", 20 * 2048), W("alpha", 0),
    W("slope", [ch |-> "red", neg |-> FALSE, mag |-> 30 * 2048 + 100]),
    W("slope", [ch |-> "blue", neg |-> TRUE, mag |-> 15 * 2048]),
    W("smask", [n |-> 0, rect |-> [x0 |-> 1, x1 |-> 3, y0 |-> 0, y1 |-> 1]]),
    W("smask", [n |-> 1, rect |-> [x0 |-> Bias, x1 |-> Bias + 1, y0 |-> Bias, y1 |-> Bias + 2]]),
    W("smask", [n |-> 2, rect |-> [x0 |-> Bias + 3, x1 |-> Bias + 4, y0 |-> Bias + 1, y1 |-> Bias + 2]]),
    W("clip_mode", j.clip), W("window", XY(Bias + j.win, Bias)),
    W("octant", [ydec |-> FALSE, xdec |-> j.back, xmajor |-> TRUE]),
    W("xy_start", XY(j.x, 0)), W("xy_end", XY(j.x + (IF j.back THEN 1 - j.w ELSE j.w - 1), j.h - 1))>>
  \o [i \in 1 .. j.gos |-> Go("host", [mask |-> 0 .. 63, bits |-> {b \in 0 .. 63 : (b * (b + i)) % 7 \in {1, 2}}])]
  \o <<W("draw_mode0", j.m0b), Go("x_save", j.x)>>

\* A line from a to b; its pixels are the ones not 0.
LineProgram(j) ==
  <<W("draw_mode1", [Mode1 EXCEPT !.rgb = FALSE, !.fastclear = FALSE, !.depth = 1]), W("write_mask", Bits24),
    W("color_i", {0}),
    W("draw_mode0", [Mode0 EXCEPT !.op = "draw", !.adr = j.adr, !.setup = TRUE, !.stop_x = TRUE, !.stop_y = TRUE]),
    W("xy_start", j.a), Go("xy_end", j.b)>>

\* Copy a rectangle to another place, in the direction the driver chose.
CopyProgram(j) ==
  LET fill(x, y) == <<W("color_i", NumBits(1 + x + 4 * y, 8)), W("xy_start", XY(x, y)), Go("xy_end", XY(x, y))>>
      xs == IF j.dx > 0 THEN XY(j.w - 1, 0) ELSE XY(0, j.w - 1)
      ys == IF j.dy > 0 THEN XY(j.h - 1, 0) ELSE XY(0, j.h - 1)
  IN  <<W("draw_mode1", [Mode1 EXCEPT !.rgb = FALSE, !.fastclear = FALSE, !.depth = 1]), W("write_mask", Bits24),
        W("draw_mode0", [Mode0 EXCEPT !.op = "draw", !.adr = "block", !.stop_x = TRUE, !.stop_y = TRUE])>>
      \o FoldLeft(\o, <<>>, [i \in 1 .. j.w * j.h |-> fill((i - 1) % j.w, (i - 1) \div j.w)])
      \o <<W("draw_mode0", [Mode0 EXCEPT !.op = "copy", !.adr = "block", !.setup = TRUE, !.stop_x = TRUE, !.stop_y = TRUE]),
           W("move", XY(j.dx, j.dy)), W("xy_start", XY(xs.x, ys.x)), Go("xy_end", XY(xs.y, ys.y))>>

\* The video tables: frame table at 0, line sequences at 8 and 11, DID frame
\* table at 14, one DID line for even and one for odd rows after it.
VideoWords(j) ==
  LET Did(run) == [i \in 1 .. Len(run) |-> 32 * run[i].x + run[i].mode] \o <<32 * 2047>>
      a == 14 + DISP_H
      o == a + Len(j.runs[1]) + 1
  IN  <<8, j.top, 11, j.rows, 8, 1, 0, 0>>
      \o <<32768, 32768, 256>> \o <<32768, 32768 + 64, 256>>
      \o [y \in 1 .. DISP_H |-> IF y % 2 = 1 THEN a ELSE o] \o Did(j.runs[1]) \o Did(j.runs[2])

VideoProgram(j) ==
  LET vc2(reg, width) == W("dcb_mode", [slave |-> "vc2", reg |-> reg, width |-> width, inc |-> FALSE])
      set(r, v) == W("dcb_data", [index |-> r, value |-> v])
      te(n) == [NoMode EXCEPT !.pix_mode = n % 2, !.pix_size = n % 4, !.aux_mode = <<0, 2, 6, 7>>[1 + (n % 4)]]
      words == VideoWords(j)
  IN  <<W("draw_mode1", [Mode1 EXCEPT !.plane = 5, !.fastclear = FALSE, !.rgb = FALSE]), W("write_mask", Bits24), W("color_i", {0}),
        W("draw_mode0", [Mode0 EXCEPT !.op = "draw", !.adr = "block", !.stop_x = TRUE, !.stop_y = TRUE]),
        W("xy_start", XY(1, 1)), Go("xy_end", XY(2, 1)),
        W("dcb_mode", [slave |-> "xmap01", reg |-> 5, width |-> 4, inc |-> FALSE])>>
      \o [n \in 1 .. 4 |-> W("dcb_data", [index |-> n, entry |-> te(n)])]
      \o <<W("dcb_mode", [slave |-> "cmap0", reg |-> 0, width |-> 2, inc |-> TRUE]), W("dcb_data", 5),
           R("dcb_data", FALSE), W("dcb_data", 77),
           W("dcb_mode", [slave |-> "ramdac", reg |-> 1, width |-> 4, inc |-> FALSE]), W("dcb_data", 33),
           vc2(0, 4), set("ram_addr", 0), vc2(3, 2)>>
      \o [i \in 1 .. Len(words) |-> W("dcb_data", words[i])]
      \o <<vc2(0, 4), set("did_entry", 14), set("cursor_x", 40), set("cursor_y", 40), set("vid_entry", 0),
           set("display_ctrl", 1), R("status", FALSE),
           W("dcb_mode", [slave |-> "pcd", reg |-> 0, width |-> 1, inc |-> FALSE]), W("dcb_data", 0),
           R("user_status", FALSE), R("user_status", FALSE)>>

DriverProgram(j) ==
  CASE j.kind = "blit" -> BlitProgram(j)
    [] j.kind = "draw" -> DrawProgram(j)
    [] j.kind = "line" -> LineProgram(j)
    [] j.kind = "copy" -> CopyProgram(j)
    [] j.kind = "video" -> VideoProgram(j)
    [] OTHER -> <<>>

\* The values that the fields of a REX3 register hold: rex3_w takes them from
\* the bits of the word written.
GoodWrite(reg, v) ==
  /\ reg = "draw_mode1" => v.depth \in 0 .. 3 /\ v.hostdepth \in 0 .. 3 /\ v.logicop \in 0 .. 15
  /\ reg \in {"x_start", "y_start", "x_end", "y_end", "color_red", "green", "blue", "alpha", "slope_red"} => v \in Int
  /\ reg = "x_start_end" => v.x0 \in Int /\ v.x1 \in Int
  /\ reg \in {"xy_start", "xy_end", "xy_start_f", "xy_end_f", "window"} => v.x \in Int /\ v.y \in Int
  /\ reg = "slope" => v.ch \in Channels /\ v.mag \in Int
  /\ reg = "smask" => v.n \in 0 .. 4 /\ (v.n = 0 => /\ v.rect.x0 \in Coords /\ v.rect.x1 \in Coords
                                                   /\ v.rect.y0 \in Coords /\ v.rect.y1 \in Coords)
  /\ reg = "x_save" => v \in Coords

\* ... and those of the DMA engine.
GoodMc(reg, v) ==
  /\ reg = "dma_size" => v \in [lines : Nat, width : Nat]
  /\ reg = "dma_stride" => v \in [zoom : Nat, step : Int]
  /\ reg = "dma_count" => v \in [zoom : Nat, bytes : Int]

Modes == {"draw_mode0", "draw_mode1"}

\* A driver does not start a command by writing a mode.
GoodAccess(op) ==
  \/ op.dev = "rex" /\ GoodWrite(op.reg, op.val) /\ (op.go => op.reg \notin Modes)
  \/ op.dev = "read"
  \/ op.dev = "mc" /\ GoodMc(op.reg, op.val)

ASSUME JobAssumption ==
  \A j \in Jobs : LET program == DriverProgram(j)
                  IN  Len(program) \in Nat /\ \A i \in 1 .. Len(program) : GoodAccess(program[i])

\* The screen lies in the framebuffer and among the coordinates, and every board
\* has plane 0.
ASSUME ScreenAssumption == FB_W <= Half /\ DISP_H <= Half /\ DISP_H <= FB_H /\ 0 \in Planes

ScreenPoints == [x : 0 .. FB_W - 1, y : 0 .. DISP_H - 1]

\* A driver clips its lines to the screen.
ASSUME LineAssumption ==
  \A j \in Jobs : j.kind = "line" /\ j.adr = "iline" => j.a \in ScreenPoints /\ j.b \in ScreenPoints
-----------------------------------------------------------------------------
(* The machine *)

NewMachine(scalar) ==
  [b |-> NewBoard(scalar, Planes), mc |-> NewMc,
   mem |-> [a \in 0 .. MemSize - 1 |-> NumBits((a * 37 + 11) % 256, 8)]]

GfxInit ==
  \E j \in Jobs : gfx = [job |-> j, pc |-> 1, fast |-> NewMachine(FALSE), oracle |-> NewMachine(TRUE),
                         retraced |-> FALSE]

Tick(m) == [m EXCEPT !.b.icnt = @ + 1]

Access(m, op) ==
  CASE op.dev = "rex" -> [m EXCEPT !.b = rex3_w(@, op.reg, op.val, op.go)]
    [] op.dev = "read" -> [m EXCEPT !.b = rex3_r(@, op.reg, op.go).b]
    [] op.dev = "mc" -> McWrite(m, op.reg, op.val)

Finished == gfx.pc > Len(DriverProgram(gfx.job))

\* The program's next bus access.
BusAccess ==
  /\ ~Finished
  /\ LET op == DriverProgram(gfx.job)[gfx.pc]
     IN  gfx' = [gfx EXCEPT !.pc = @ + 1, !.fast = Tick(Access(@, op)), !.oracle = Tick(Access(@, op))]

\* Once, in the middle of a program that has the retrace interrupt enabled.
VertRetrace ==
  /\ gfx.job.kind = "video"
  /\ ~gfx.retraced
  /\ gfx' = [gfx EXCEPT !.retraced = TRUE, !.fast.b = vblank(@), !.oracle.b = vblank(@)]

GfxNext == BusAccess \/ VertRetrace

GfxSpec == GfxInit /\ [][GfxNext]_gfxVars
-----------------------------------------------------------------------------
Same(a, b) ==
  /\ [a.b.e EXCEPT !.scalar = TRUE] = b.b.e
  /\ a.mem = b.mem

\* The span kernel equals the per-pixel path: same words, same registers,
\* same memory (span_fast against the loop of span_or_block), for every mode
\* but iterated shading under host or fast-clear colours.
KernelAgrees ==
  LET e == gfx.fast.b.e
  IN  gfx.pc > 1 /\ ~(e.m0.shade /\ (e.m0.color_host \/ e.m1.fastclear)) => Same(gfx.fast, gfx.oracle)

\* The comment on the kernels says that one "Applies only when the result
\* provably equals the per-pixel path" (span_fast): both draw the same words.
KernelExact == gfx.fast.b.e.fb = gfx.oracle.b.e.fb
-----------------------------------------------------------------------------
Phys(j, va) ==
  LET t == {i \in DOMAIN j.tlb : j.tlb[i].hi = va \div Region}
  IN  IF t = {} THEN va
      ELSE LET i == CHOOSE i \in t : TRUE
           IN  Ptes[j.tlb[i].table][(va % Region) \div PageSize] * PageSize + (va % PageSize)

\* A byte as the screen keeps it: 12 of 16 and 24 of 32 bits.
Kept(j, i, byte) ==
  CASE j.host = 2 /\ i % 2 = 0 -> byte \cap (0 .. 3)
    [] j.host = 3 /\ i % 4 = 0 -> {}
    [] OTHER -> byte

BlitRect(j) == (j.x .. j.x + j.w - 1) \X (j.y .. j.y + j.h * j.zoom - 1)

\* An image sent through the DMA engine and the packed host port comes back
\* as it was, line by line, and nothing outside its rectangle is drawn, over
\* several GO commands per line (dma_perform, host_color, span_or_block,
\* rb_write, do_pixel_word_read, convert_depth).
BlitReturns ==
  LET j == gfx.job
      m == gfx.fast
      line == j.w * PixelBytes(j.host)
  IN  (j.kind = "blit" /\ Finished) =>
        /\ \A y \in 0 .. j.h * j.zoom - 1, i \in 0 .. line - 1 :
             m.mem[Phys(j, j.to + y * line + i)]
               = Kept(j, i, NumBits((Phys(j, j.from + (y \div j.zoom) * line + i) * 37 + 11) % 256, 8))
        /\ \A d \in DOMAIN m.b.e.fb : \A p \in FbXY \ BlitRect(j) : m.b.e.fb[d][p] = {}
        /\ ~m.mc.irq

\* A copied rectangle is the old one, also where source and target overlap
\* (scr2scr, do_setup).
CopyExact ==
  LET j == gfx.job
      fb == gfx.fast.b.e.fb["rgbci"]
  IN  (j.kind = "copy" /\ Finished) =>
        \A x \in 0 .. j.w - 1, y \in 0 .. j.h - 1 :
          Low(fb[<<x + j.dx, y + j.dy>>], 8) = NumBits(1 + x + 4 * y, 8)

\* Pixels moved by either engine arrive as they were: through the DMA and the
\* host port to the screen and back, and from screen to screen.
BlitExact == BlitReturns /\ CopyExact

\* An integer line has one pixel per step of its longer axis, each within
\* half a pixel of the true line, both ends included, and the next line
\* starts where it ended (do_setup, do_iline).
LineExact ==
  LET j == gfx.job
      e == gfx.fast.b.e
      on == {p \in FbXY : e.fb["rgbci"][p] # {}}
      dx == j.b.x - j.a.x
      dy == j.b.y - j.a.y
      major == IF Abs(dx) > Abs(dy) THEN Abs(dx) ELSE Abs(dy)
  IN  (j.kind = "line" /\ j.adr = "iline" /\ Finished) =>
        /\ Cardinality(on) = major + 1
        /\ \A p \in on : Abs(2 * (dx * (p[2] - j.a.y) - dy * (p[1] - j.a.x))) <= major
        /\ {<<j.a.x, j.a.y>>, <<j.b.x, j.b.y>>} \subseteq on
        /\ Whole(e.xs) = j.b.x /\ Whole(e.ys) = j.b.y

\* The picture read out has the tabled number of lines, and each pixel the
\* mode of the run it lies in (vc2 tables, update_screen_size, render).
FrameExact ==
  LET j == gfx.job
      b == gfx.fast.b
      run(y) == j.runs[1 + (y % 2)]
      at(x, y) == run(y)[CHOOSE i \in DOMAIN run(y) :
                           run(y)[i].x <= x /\ \A k \in DOMAIN run(y) : run(y)[k].x <= x => k <= i].mode
  IN  (j.kind = "video" /\ Finished) =>
        render(b) = [p \in (0 .. DISP_W - 1) \X (0 .. DISP_H - 1) |->
                       IF p[2] >= j.rows THEN Blank
                       ELSE Shown(b, b.vid.xmap[0].mode[at(p[1], p[2])], p[1], p[2])]
=============================================================================
