--------------------------------- MODULE Rb2 ---------------------------------
(***************************************************************************)
(* The RB2 framebuffer of the Newport board (sgi_newport): plane selection *)
(* from draw_mode1, lane replication, logic operations and masked stores,  *)
(* and the conversion of colours between plane depths.                     *)
(*                                                                         *)
(* A word is the set of its one bits.  Stored words have 24 bits: no write *)
(* mask has more.  Depths 0 .. 3 are 4, 8, 12 and 24 bits per pixel.       *)
(***************************************************************************)
EXTENDS Integers, TLC

Bits24 == 0 .. 23
Shl(w, k) == {b + k : b \in w}
Shr(w, k) == {b - k : b \in {c \in w : c >= k}}
Low(w, n) == w \cap (0 .. n - 1)
Repeat(w, ks) == UNION {Shl(w, k) : k \in ks}

\* The low n bits of an integer, two's complement.
NumBits(v, n) == {b \in 0 .. n - 1 : (v \div 2^b) % 2 = 1}

-----------------------------------------------------------------------------
(* Colour conversion: unpack to 8-bit r/g/b, repack *)

\* Bits of the 8-bit channel that a packed bit feeds.
Spread(c, b, bits) == IF b \in c THEN bits ELSE {}

Unpack(c, from) ==
  CASE from = 0 -> [r |-> Spread(c, 0, 0 .. 7),
                    g |-> Spread(c, 2, {1, 3, 5, 7}) \cup Spread(c, 1, {0, 2, 4, 6}),
                    b |-> Spread(c, 3, 0 .. 7)]
    [] from = 1 -> [r |-> Spread(c, 2, {1, 4, 7}) \cup Spread(c, 1, {0, 3, 6}) \cup Spread(c, 0, {2, 5}),
                    g |-> Spread(c, 5, {1, 4, 7}) \cup Spread(c, 4, {0, 3, 6}) \cup Spread(c, 3, {2, 5}),
                    b |-> Spread(c, 7, {1, 3, 5, 7}) \cup Spread(c, 6, {0, 2, 4, 6})]
    [] from = 2 -> LET Nibble(k) == Low(Shr(c, k), 4)
                   IN  [r |-> Nibble(0) \cup Shl(Nibble(0), 4),
                        g |-> Nibble(4) \cup Shl(Nibble(4), 4),
                        b |-> Nibble(8) \cup Shl(Nibble(8), 4)]
    [] OTHER -> [r |-> Low(c, 8), g |-> Low(Shr(c, 8), 8), b |-> Low(Shr(c, 16), 8)]

Pack(p, to) ==
  CASE to = 0 -> Shl(Shr(p.b, 7), 3) \cup Shl(Shr(p.g, 6), 1) \cup Shr(p.r, 7)
    [] to = 1 -> Shl(Shr(p.b, 6), 6) \cup Shl(Shr(p.g, 5), 3) \cup Shr(p.r, 5)
    [] to = 2 -> Shl(Shr(p.b, 4), 8) \cup Shl(Shr(p.g, 4), 4) \cup Shr(p.r, 4)
    [] OTHER -> Shl(p.b, 16) \cup Shl(p.g, 8) \cup p.r

convert_depth(c, from, to) == IF from = to THEN c ELSE Pack(Unpack(c, from), to)
-----------------------------------------------------------------------------
(* Planes.  1: RGB/CI, 2: RGBA, 4: overlay, 5: popup, 6: CID. *)

\* Store shift by planes, depth and source buffer.
SrcShift(plane, depth, dblsrc) ==
  CASE plane \in {1, 2} -> IF dblsrc THEN <<0, 8, 12, 0>>[depth + 1] ELSE 0
    [] plane = 4 -> IF dblsrc THEN 16 ELSE 8
    [] plane = 5 -> IF dblsrc THEN 6 ELSE 2
    [] plane = 6 -> IF dblsrc THEN 4 ELSE 0
    [] OTHER -> 0

\* A mode that enables no known plane keeps the last buffer.
rb_set_flags(rb, m1) ==
  [rb EXCEPT !.fast_clear = m1.fastclear, !.plane = m1.plane, !.depth = m1.depth,
             !.logicop = m1.logicop,
             !.src_shift = SrcShift(m1.plane, m1.depth, m1.dblsrc),
             !.dest = CASE m1.plane \in {1, 2} -> "rgbci"
                        [] m1.plane \in {4, 5, 6} -> "cidaux"
                        [] OTHER -> rb.dest]

LaneShifts(depth) ==
  CASE depth = 0 -> {4 * k : k \in 0 .. 7}
    [] depth = 1 -> {8 * k : k \in 0 .. 3}
    [] depth = 2 -> {0, 12}
    [] OTHER -> {0}

\* Replicate a colour into every lane and move it to its planes.
Lanes(rb, src) ==
  LET v == Repeat(src, LaneShifts(rb.depth))
  IN  Bits24 \cap (CASE rb.plane = 4 -> Shl(v, 8)
                     [] rb.plane = 5 -> Shl(v, 2)
                     [] OTHER -> v)

Not(w) == Bits24 \ w

LogicOp(op, src, dst) ==
  CASE op = 0 -> {}
    [] op = 1 -> src \cap dst
    [] op = 2 -> src \ dst
    [] op = 3 -> src
    [] op = 4 -> dst \ src
    [] op = 5 -> dst
    [] op = 6 -> (src \ dst) \cup (dst \ src)
    [] op = 7 -> src \cup dst
    [] op = 8 -> Not(src \cup dst)
    [] op = 9 -> Not((src \ dst) \cup (dst \ src))
    [] op = 10 -> Not(dst)
    [] op = 11 -> src \cup Not(dst)
    [] op = 12 -> Not(src)
    [] op = 13 -> Not(src) \cup dst
    [] op = 14 -> Not(src \cap dst)
    [] OTHER -> Bits24

\* Masked store of v over the old word.
rb_store(rb, old, v) ==
  LET m == rb.write_mask \cap rb.global_mask IN (old \ m) \cup (v \cap m)

rb_read(rb, word) == Shr(word, rb.src_shift)

rb_write(rb, old, src) ==
  LET v == Lanes(rb, src)
  IN  rb_store(rb, old, IF rb.fast_clear THEN v ELSE LogicOp(rb.logicop, v, rb_read(rb, old)))
=============================================================================
