------------------------------- MODULE Newport -------------------------------
(***************************************************************************)
(* The Newport board as the bus sees it (sgi_newport): the REX3 register   *)
(* file with its GO accesses, the Display Control Bus and the chips behind *)
(* it (VC2, XMAP9, CMAP, RAMDAC), the vertical retrace, and the picture    *)
(* that render() reads out.  A board "b" is [e, vid, icnt, ...]: the       *)
(* engine of Rex3, the display chips, the clock.                           *)
(*                                                                         *)
(* Registers that nothing reads back but the program (scratch, Bresenham   *)
(* terms, weights) are left out; palettes are looked up symbolically.      *)
(***************************************************************************)
EXTENDS Rex3

CONSTANTS
  VC2_RAM_SIZE,      \* words of display table memory
  DCB_TIMEOUT_ICNT,  \* instructions an absent DCB slave keeps the bus busy
  DISP_W,            \* displayed pixels of a line
  DrawCommand(_)     \* the engine's answer to GO: do_command of Rex3

-----------------------------------------------------------------------------
(* XMAP9, CMAP, RAMDAC: index, then data *)

xmap9_write(x, r, d) ==
  CASE r = 0 -> [x EXCEPT !.config = d]
    [] r = 3 -> [x EXCEPT !.cursor_cmap = d]
    [] r = 4 -> [x EXCEPT !.popup_cmap = d]
    [] r = 5 -> [x EXCEPT !.mode[d.index] = d.entry]
    [] OTHER -> x

cmap_write(c, r, d) ==
  CASE r = 0 -> [c EXCEPT !.idx = d]
    [] r = 2 -> [c EXCEPT !.pal = (c.idx :> d) @@ @]
    [] OTHER -> c

ramdac_write(v, r, d) ==
  CASE r = 0 -> [v EXCEPT !.lut_idx = d]
    [] r = 1 -> [v EXCEPT !.lut = (v.lut_idx :> d) @@ @, !.lut_idx = (@ + 1) % 256]
    [] OTHER -> v
-----------------------------------------------------------------------------
(* VC2: timing tables, cursor, DID tables *)

Ram(vc2, a) == vc2.ram[a % VC2_RAM_SIZE]
HasBit(w, b) == (w \div 2^b) % 2 = 1

\* Is any run of the line sequence at p active video?
vt_line_active(vc2, p0) ==
  LET runs[p \in Nat, sc \in Nat, guard \in Nat] ==
        LET w == Ram(vc2, p)
            w1 == Ram(vc2, p + 1)
            long == ~HasBit(w, 7)
            sc1 == IF long THEN w1 % 128 ELSE sc
            p1 == IF long THEN p + 2 ELSE p + 1
            run == (Ram(vc2, p1) \div 256) % 128
            eol == HasBit(w, 15) /\ (long => HasBit(w1, 15))
        IN  IF run # 0 /\ HasBit(sc1, 6) THEN TRUE
            ELSE ~eol /\ guard > 1 /\ runs[p1, sc1, guard - 1]
  IN  runs[p0, 0, 4096]

\* First and last displayed line, from the frame table at entry0.
FrameLines(vc2, entry0) ==
  LET lines[entry \in Nat, line \in Nat, y0 \in Int, guard \in Nat] ==
        LET len == Ram(vc2, entry + 1)
            active == vt_line_active(vc2, Ram(vc2, entry))
            next == IF line + len > 2048 THEN 2048 ELSE line + len
            start == IF active /\ y0 = -1 /\ line < next THEN line ELSE y0
        IN  IF guard = 0 \/ len = 0
             THEN [y0 |-> IF y0 = -1 THEN 0 ELSE y0, y1 |-> IF y0 = -1 THEN 0 ELSE line]
             ELSE IF ~active /\ y0 # -1 /\ line < next THEN [y0 |-> y0, y1 |-> line]
             ELSE lines[entry + 2, next, start, guard - 1]
  IN  lines[entry0, 0, -1, 4096]

update_screen_size(vc2) ==
  [vc2 EXCEPT !.readout = FrameLines(vc2, vc2.regs.vid_entry)]

\* Transfer width selects the meaning: a register index, a RAM word, or an
\* index and its 16-bit value.
vc2_write(v, r, d, width) ==
  CASE width = 1 -> IF r = 0 THEN [v EXCEPT !.reg_idx = d] ELSE v
    [] width = 2 -> IF r = 3 THEN [v EXCEPT !.ram[v.ram_addr] = d,
                                            !.ram_addr = (@ + 1) % VC2_RAM_SIZE] ELSE v
    [] OTHER ->
         IF r # 0 THEN v
         ELSE LET s == [v EXCEPT !.reg_idx = d.index]
              IN  CASE d.index = "vid_entry" -> update_screen_size([s EXCEPT !.regs.vid_entry = d.value])
                    [] d.index = "ram_addr" -> [s EXCEPT !.ram_addr = d.value % VC2_RAM_SIZE]
                    [] d.index = "cursor_y" ->
                         [s EXCEPT !.regs.cursor_y = d.value, !.regs.cur_cursor_x = v.regs.cursor_x]
                    [] d.index = "display_ctrl" ->
                         [s EXCEPT !.regs.display_ctrl = d.value,
                                   !.cursor_on = HasBit(d.value, 4) /\ HasBit(d.value, 7) /\ ~HasBit(d.value, 8)]
                    [] d.index \in DOMAIN v.regs -> [s EXCEPT !.regs[d.index] = d.value]
                    [] OTHER -> s

vc2_read(v, r) ==
  IF r = 3 THEN [v EXCEPT !.ram_addr = (@ + 1) % VC2_RAM_SIZE] ELSE v

\* Colour 0 .. 3 of the cursor glyph at (x, y); 0 is transparent.
cursor_pixel(v, x0, y0) ==
  LET x == x0 - (v.regs.cursor_x - 31)
      y == y0 - (v.regs.cursor_y - 31)
      sh == 15 - (x % 16)
      at(k, row) == IF HasBit(Ram(v, v.regs.cursor_entry + y * row + (x \div 16) + k), sh) THEN 1 ELSE 0
  IN  IF ~v.cursor_on \/ x \notin 0 .. 31 \/ y \notin 0 .. 31 THEN 0
      ELSE IF HasBit(v.regs.display_ctrl, 9) THEN at(0, 4)
      ELSE at(0, 2) + 2 * at(64, 2)
-----------------------------------------------------------------------------
(* Display Control Bus *)

\* A slave that is not there times out.
PcdBusy(b) == [b EXCEPT !.vid.backbusy = TRUE, !.vid.busy_until = b.icnt + DCB_TIMEOUT_ICNT]

AutoInc(b) == IF b.dcb.inc THEN [b EXCEPT !.dcb.reg = (@ + 1) % 8] ELSE b

dcb_write(b, d) ==
  LET r == b.dcb.reg
      s == b.dcb.slave
  IN  AutoInc(
        CASE s = "vc2" -> [b EXCEPT !.vid.vc2 = vc2_write(@, r, d, b.dcb.width)]
          [] s \in {"cmap01", "cmap0", "cmap1"} ->
               [b EXCEPT !.vid.cmap = [i \in 0 .. 1 |->
                  IF s = "cmap01" \/ s = <<"cmap0", "cmap1">>[i + 1] THEN cmap_write(@[i], r, d) ELSE @[i]]]
          [] s \in {"xmap01", "xmap0", "xmap1"} ->
               [b EXCEPT !.vid.xmap = [i \in 0 .. 1 |->
                  IF s = "xmap01" \/ s = <<"xmap0", "xmap1">>[i + 1] THEN xmap9_write(@[i], r, d) ELSE @[i]]]
          [] s = "ramdac" -> [b EXCEPT !.vid = ramdac_write(@, r, d)]
          [] s = "pcd" -> PcdBusy(b)
          [] OTHER -> b)

\* Only VC2's RAM port and an absent slave change on a read.
dcb_read(b) ==
  AutoInc(CASE b.dcb.slave = "vc2" -> [b EXCEPT !.vid.vc2 = vc2_read(@, b.dcb.reg)]
            [] b.dcb.slave = "pcd" -> PcdBusy(b)
            [] OTHER -> b)
-----------------------------------------------------------------------------
(* Register file *)

\* Sign and magnitude to a number; a zero magnitude never steps.
Slope(v) == IF v.neg THEN -v.mag ELSE v.mag

\* The second port of the red slope stores the word as it is: 24 bits, signed.
Slope24(v) == LET s == ((v + 2^23) % 2^24) - 2^23 IN IF s = -(2^23) THEN 0 ELSE s

DrawMode1(e, v) ==
  [e EXCEPT !.m1 = v, !.host_shift = 64 - HostShift(v.hostdepth), !.rb = rb_set_flags(@, v)]

ColorRed(e, v) ==
  [e EXCEPT !.color.red = v, !.curr.red = v,
            !.color_i = IF e.m1.rgb \/ e.m1.depth = 3 THEN @
                        ELSE CASE e.m1.depth = 0 -> NumBits(v \div 2048, 4)
                               [] e.m1.depth = 1 -> NumBits(v \div 2048, 8)
                               [] OTHER -> NumBits(v \div 512, 12)]

Value(w) == LET p[n \in 0 .. 8] == IF n = 0 THEN 0 ELSE p[n - 1] + (IF n - 1 \in w THEN 2^(n - 1) ELSE 0)
            IN  p[8]

ColorIndex(e, v) ==
  LET rgb == [e.color EXCEPT !.red = Value(Low(v, 8)) * 2048,
                             !.green = Value(Low(Shr(v, 8), 8)) * 2048,
                             !.blue = Value(Low(Shr(v, 16), 8)) * 2048]
  IN  IF ~e.m1.rgb THEN [e EXCEPT !.color_i = v]
      ELSE [e EXCEPT !.color_i = v, !.color = rgb, !.curr = [rgb EXCEPT !.alpha = e.curr.alpha]]

HostPort(e, v) ==
  [e EXCEPT !.host = (@ \ v.mask) \cup (v.bits \cap v.mask), !.host_shift = 64 - HostShift(e.m1.hostdepth)]

\* Registers whose write only stores them, under their field name.
Plain == {"ls_pattern", "ls_saved", "z_pattern", "color_back", "color_vram", "x_save", "move",
          "window", "clip_mode"}

EngineWrite(e, reg, v) ==
  CASE reg = "draw_mode1" -> DrawMode1(e, v)
    [] reg = "draw_mode0" -> [e EXCEPT !.m0 = v]
    [] reg = "setup" -> do_setup(e)
    [] reg = "ls_restore" -> [e EXCEPT !.ls_pattern = e.ls_saved]
    [] reg = "ls_save" -> [e EXCEPT !.ls_saved = e.ls_pattern]
    [] reg = "x_start" -> [write_start(e, v, e.ys) EXCEPT !.x_save = Whole(v)]
    [] reg = "y_start" -> write_start(e, e.xs, v)
    [] reg = "x_end" -> write_end(e, v, e.ye)
    [] reg = "y_end" -> write_end(e, e.xe, v)
    [] reg = "x_start_end" ->
         [write_end(write_start(e, 16 * v.x0, e.ys), 16 * v.x1, e.ye) EXCEPT !.x_save = Whole(16 * v.x0)]
    [] reg = "xy_start" -> [write_start(e, 16 * v.x, 16 * v.y) EXCEPT !.x_save = Whole(16 * v.x)]
    [] reg = "xy_end" -> write_end(e, 16 * v.x, 16 * v.y)
    [] reg = "xy_start_f" -> [write_start(e, v.x, v.y) EXCEPT !.x_save = Whole(v.x)]
    [] reg = "xy_end_f" -> write_end(e, v.x, v.y)
    [] reg = "octant" -> [e EXCEPT !.oct = v]
    [] reg = "color_red" -> ColorRed(e, v)
    [] reg \in {"green", "blue", "alpha"} -> [e EXCEPT !.color[reg] = v, !.curr[reg] = v]
    [] reg = "slope" -> [e EXCEPT !.slope[v.ch] = Slope(v)]
    [] reg = "slope_red" -> [e EXCEPT !.slope.red = Slope24(v)]
    [] reg = "write_mask" -> [e EXCEPT !.rb.write_mask = v]
    [] reg = "color_i" -> ColorIndex(e, v)
    [] reg = "host" -> HostPort(e, v)
    [] reg = "smask" -> [e EXCEPT !.smask[v.n] = v.rect]
    [] reg \in Plain -> [e EXCEPT ![reg] = v]
    [] OTHER -> e

\* An access whose address says GO runs a command after it.
OnGo(go, e) == IF go THEN DrawCommand(e) ELSE e

\* A write access: the register, then the command when the address says GO.
rex3_w(b, reg, v, go) ==
  LET b1 == CASE reg = "dcb_mode" -> [b EXCEPT !.dcb = v]
              [] reg = "dcb_data" -> dcb_write(b, v)
              [] OTHER -> [b EXCEPT !.e = EngineWrite(@, reg, v)]
  IN  [b1 EXCEPT !.e = OnGo(go, @)]

\* Seeded fault: the command runs before the port is read.
rex3_r_GoFirst(b, reg, go) ==
  LET b0 == [b EXCEPT !.e = OnGo(go, @)]
  IN  [b |-> b0, val |-> IF reg = "host" THEN b0.e.host ELSE {}]

\* A read access.  The host port returns what it held before the command the
\* access starts; STATUS acknowledges the retrace.
rex3_r(b, reg, go) ==
  LET timed == IF b.vid.backbusy /\ b.icnt >= b.vid.busy_until THEN [b EXCEPT !.vid.backbusy = FALSE] ELSE b
      b1 == CASE reg = "dcb_data" -> dcb_read(b)
              [] reg = "status" -> [timed EXCEPT !.vid.vrint = FALSE]
              [] reg = "user_status" -> timed
              [] OTHER -> b
  IN  [b |-> [b1 EXCEPT !.e = OnGo(go, @)],
       val |-> IF reg = "host" THEN b.e.host ELSE {}]

vblank(b) == IF HasBit(b.vid.vc2.regs.display_ctrl, 0) THEN [b EXCEPT !.vid.vrint = TRUE] ELSE b
-----------------------------------------------------------------------------
(* Readout *)

\* Overlay pixel: [hit, index].
AuxPixel(te, a, is_8bpp) ==
  LET w == IF is_8bpp THEN 1 ELSE 4
      at(k) == Low(Shr(a, k), w)
      two == IF is_8bpp THEN Low(Shr(a, 8), 2) ELSE at(8) \cup (Shr(a, 16) \cap (4 .. 7))
      one == at(IF te.auxbuf THEN 8 + w ELSE 8)
  IN  CASE te.aux_mode = 1 -> [hit |-> TRUE, index |-> Low(Shr(a, 8), IF is_8bpp THEN 2 ELSE 8)]
        [] te.aux_mode = 2 -> [hit |-> two # {}, index |-> two]
        [] te.aux_mode = 6 -> [hit |-> one # {}, index |-> one]
        [] te.aux_mode = 7 -> [hit |-> TRUE, index |-> IF at(8) # {} THEN at(8) ELSE at(8 + w)]
        [] OTHER -> [hit |-> FALSE, index |-> {}]

MainPixel(te, c) ==
  LET at(k) == IF te.buf THEN Shr(c, k) ELSE c
  IN  CASE te.pix_mode = 0 ->
             [map |-> <<"ci", te.ci_msb>>,
              index |-> CASE te.pix_size = 0 -> Low(at(4), 4)
                          [] te.pix_size = 1 -> Low(c, 8)
                          [] te.pix_size = 2 -> Low(at(12), 12)
                          [] OTHER -> {}]
        [] te.pix_mode = 1 ->
             [map |-> <<"rgb">>,
              index |-> CASE te.pix_size = 0 -> convert_depth(Low(at(4), 4), 0, 3)
                          [] te.pix_size = 1 -> convert_depth(Low(at(8), 8), 1, 3)
                          [] te.pix_size = 2 -> convert_depth(Low(at(12), 12), 2, 3)
                          [] OTHER -> Low(c, 24)]
        [] OTHER -> [map |-> <<"none", te.pix_mode>>, index |-> {}]

\* Cursor over popup over overlay over pixel.
Shown(b, te, x, y) ==
  LET a == b.e.fb["cidaux"][<<x, y>>]
      aux == AuxPixel(te, a, HasBit(b.vid.xmap[0].config, 2))
      cur == cursor_pixel(b.vid.vc2, x, y)
  IN  IF cur # 0 THEN [map |-> <<"cursor", b.vid.xmap[0].cursor_cmap>>, index |-> NumBits(cur, 2)]
      ELSE IF a \cap {2, 3, 6, 7} # {}
           THEN [map |-> <<"popup", b.vid.xmap[0].popup_cmap>>, index |-> Low(Shr(a, 2), 2)]
      ELSE IF aux.hit THEN [map |-> <<"aux", te.aux_msb>>, index |-> aux.index]
      ELSE MainPixel(te, b.e.fb["rgbci"][<<x, y>>])

\* Seeded fault: the DID pointer does not advance.
load_mode_Stuck(vid, w) ==
  [te |-> vid.xmap[0].mode[w.did % 32], ptr |-> w.ptr, did |-> Ram(vid.vc2, w.ptr + 1)]

\* Load the mode of the current DID entry and look at the next one.
load_mode(vid, w) ==
  [te |-> vid.xmap[0].mode[w.did % 32], ptr |-> w.ptr + 1, did |-> Ram(vid.vc2, w.ptr + 1)]

\* The modes of one scanline, x = 0 .. DISP_W - 1 at 1 .. DISP_W: one entry
\* is loaded first, then the next each time x reaches it.
LineModes(vid, y) ==
  LET p == Ram(vid.vc2, vid.vc2.regs.did_entry + y)
      first == load_mode(vid, [ptr |-> p, did |-> Ram(vid.vc2, p)])
      run == FoldLeft(LAMBDA acc, x :
                        LET w == IF x = acc.w.did \div 32 THEN load_mode(vid, acc.w) ELSE acc.w
                        IN  [w |-> w, tes |-> Append(acc.tes, w.te)],
                      [w |-> first, tes |-> <<>>], [i \in 1 .. DISP_W |-> i - 1])
  IN  run.tes

Blank == [map |-> <<"black">>, index |-> {}]

render(b) ==
  LET ro == b.vid.vc2.readout
      rows == IF ro.y1 > ro.y0 THEN ro.y1 - ro.y0 ELSE DISP_H
      modes == [y \in 0 .. DISP_H - 1 |-> LineModes(b.vid, y)]
  IN  [p \in (0 .. DISP_W - 1) \X (0 .. DISP_H - 1) |->
         IF p[2] >= rows THEN Blank ELSE Shown(b, modes[p[2]][p[1] + 1], p[1], p[2])]
-----------------------------------------------------------------------------
(* Power on *)

NoMode == [pix_mode |-> 0, pix_size |-> 0, aux_mode |-> 0, aux_msb |-> 0, ci_msb |-> 0,
           buf |-> FALSE, auxbuf |-> FALSE]

Mode0 == [op |-> "noop", adr |-> "span", setup |-> FALSE, color_host |-> FALSE, stop_x |-> FALSE,
          stop_y |-> FALSE, skip_first |-> FALSE, skip_last |-> FALSE, zpat |-> FALSE, lspat |-> FALSE,
          len32 |-> FALSE, zopaque |-> FALSE, lsopaque |-> FALSE, shade |-> FALSE, lronly |-> FALSE,
          ciclamp |-> FALSE]

Mode1 == [plane |-> 1, depth |-> 0, dblsrc |-> FALSE, rwpacked |-> FALSE, hostdepth |-> 0,
          rwdouble |-> FALSE, swap |-> FALSE, rgb |-> TRUE, dither |-> FALSE, fastclear |-> TRUE,
          logicop |-> 3]

NewEngine(scalar, planes) ==
  LET zero == [ch \in Channels |-> 0]
      none == [x0 |-> 0, x1 |-> 0, y0 |-> 0, y1 |-> 0]
  IN  [scalar |-> scalar, m0 |-> Mode0, m1 |-> Mode1,
       xs |-> 0, ys |-> 0, xe |-> 0, ye |-> 0, x_save |-> 0, move |-> [x |-> 0, y |-> 0],
       window |-> [x |-> Bias, y |-> Bias], clip_mode |-> {}, smask |-> [n \in 0 .. 4 |-> none],
       oct |-> [ydec |-> FALSE, xdec |-> FALSE, xmajor |-> FALSE],
       color |-> zero, curr |-> zero, slope |-> zero, color_i |-> {}, color_back |-> {}, color_vram |-> {},
       ls_pattern |-> {}, ls_saved |-> {}, z_pattern |-> {}, host |-> {}, host_shift |-> 0, pixels |-> 0,
       rb |-> rb_set_flags([fast_clear |-> FALSE, plane |-> 0, depth |-> 0, logicop |-> 0, src_shift |-> 0,
                            dest |-> "rgbci", write_mask |-> {}, global_mask |-> planes], Mode1),
       fb |-> [d \in {"rgbci", "cidaux"} |-> [p \in FbXY |-> {}]]]

NewVideo ==
  [vc2 |-> [regs |-> [r \in {"vid_entry", "cursor_entry", "cursor_x", "cursor_y", "cur_cursor_x",
                             "did_entry", "display_ctrl"} |-> 0],
            reg_idx |-> 0, ram |-> [a \in 0 .. VC2_RAM_SIZE - 1 |-> 0], ram_addr |-> 0,
            readout |-> [y0 |-> 0, y1 |-> 0], cursor_on |-> FALSE],
   xmap |-> [i \in 0 .. 1 |-> [config |-> 0, cursor_cmap |-> 0, popup_cmap |-> 0,
                               mode |-> [m \in 0 .. 31 |-> NoMode]]],
   cmap |-> [i \in 0 .. 1 |-> [idx |-> 0, pal |-> <<>>]],
   lut |-> <<>>, lut_idx |-> 0, vrint |-> FALSE, backbusy |-> FALSE, busy_until |-> 0]

NewBoard(scalar, planes) ==
  [e |-> NewEngine(scalar, planes), vid |-> NewVideo, icnt |-> 0,
   dcb |-> [slave |-> "vc2", reg |-> 0, width |-> 4, inc |-> FALSE]]
=============================================================================
