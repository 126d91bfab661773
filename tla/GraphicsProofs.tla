---------------------------- MODULE GraphicsProofs ----------------------------
(***************************************************************************)
(* Graphics, for every size of board, kernel and coordinate and every job: *)
(* the span kernel draws what the per-pixel path draws, and an integer     *)
(* line follows the true one.                                              *)
(***************************************************************************)
EXTENDS Graphics, TLAPS, WellFoundedInduction, NaturalsInduction, FiniteSetTheorems, FunctionTheorems

-----------------------------------------------------------------------------
(* Induction, stated with a set *)

LEMMA GfxLeast == ASSUME NEW U \in SUBSET Nat, U # {} PROVE \E x \in U : \A y \in U : x <= y
<1> DEFINE L == {ss \in Nat \X Nat : ss[1] < ss[2]}
<1>1. IsWellFoundedOn(L, Nat)
  BY NatLessThanWellFounded, Zenon DEF OpToRel
<1>2. \A y, x \in Nat : y < x => <<y, x>> \in L
  OBVIOUS
<1> HIDE DEF L
<1>3. \E x \in U : \A y \in U : ~(<<y, x>> \in L)
  BY <1>1, WFMin
<1>4. PICK x \in U : \A y \in U : ~(<<y, x>> \in L)
  BY <1>3
<1>5. ASSUME NEW y \in U PROVE x <= y
  <2>1. ~(y < x)
    BY <1>2, <1>4
  <2>2. x \in Nat /\ y \in Nat
    OBVIOUS
  <2>. QED BY <2>1, <2>2
<1>. QED BY <1>4, <1>5

LEMMA UpTo ==
  ASSUME NEW U, NEW b \in Nat, NEW n \in Nat, b \in U, \A k \in b .. n - 1 : k \in U => k + 1 \in U
  PROVE  \A k \in b .. n : k \in U
<1> SUFFICES ASSUME NEW V, V = (b .. n) \ U, V # {} PROVE FALSE
  OBVIOUS
<1>1. PICK x \in V : \A y \in V : x <= y
  BY GfxLeast
<1>2. x # b /\ x - 1 \in b .. n - 1 /\ x - 1 \notin V
  BY <1>1
<1>. QED BY <1>1, <1>2

LEMMA FromZero ==
  ASSUME NEW U, 0 \in U, \A n \in Nat : n \in U => n + 1 \in U
  PROVE  \A n \in Nat : n \in U
<1> SUFFICES ASSUME NEW V, V = Nat \ U, V # {} PROVE FALSE
  OBVIOUS
<1>1. PICK x \in V : \A y \in V : x <= y
  BY GfxLeast
<1>2. x # 0 /\ x - 1 \in Nat /\ x - 1 \notin V
  BY <1>1
<1>. QED BY <1>1, <1>2
-----------------------------------------------------------------------------
(* Coordinates *)


LEMMA RemAt ==
  ASSUME NEW m \in Nat, m > 0, NEW v \in Int
  PROVE  /\ v % m \in 0 .. m - 1
         /\ v \in 0 .. m - 1 => v % m = v
         /\ v \in m .. 2 * m - 1 => v % m = v - m
         /\ v \in -m .. -1 => v % m = v + m
<1>1. PICK q \in Int, r \in 0 .. m - 1 : v \div m = q /\ v % m = r /\ v = m * q + r
  OBVIOUS
<1>2. q = 0 \/ q = 1 \/ q = -1 \/ q >= 2 \/ q <= -2
  BY <1>1
<1>3. ASSUME q >= 2 PROVE m * q >= 2 * m
  BY <1>3
<1>4. ASSUME q <= -2 PROVE m * q <= -2 * m
  BY <1>4
<1>. QED BY <1>1, <1>2, <1>3, <1>4

\* int16 arithmetic.
LEMMA I16At ==
  ASSUME NEW v \in Int
  PROVE  /\ I16(v) \in Coords
         /\ v \in Coords => I16(v) = v
         /\ v \in Half .. 3 * Half - 1 => I16(v) = v - 2 * Half
         /\ v \in -3 * Half .. -Half - 1 => I16(v) = v + 2 * Half
<1>1. PICK m \in Nat, h \in Nat : m = 2 * Half /\ h = Half /\ m = 2 * h /\ m > 0
  BY SizeAssumption
<1>2. I16(v) = ((v + h) % m) - h /\ v + h \in Int
  BY <1>1 DEF I16
<1>. QED BY <1>1, <1>2, RemAt DEF Coords

\* A loop over a row, or over rows, takes a turn at least.
LEMMA TurnsIn ==
  ASSUME NEW a \in Coords, NEW b \in Coords, NEW d \in Int
  PROVE  Turns(a, b, d) \in Nat /\ Turns(a, b, d) >= 1
<1>1. PICK m \in Nat : m = 2 * Half /\ m > 0
  BY SizeAssumption
<1>2. PICK v \in Int : v = d * (b - a)
  BY SizeAssumption DEF Coords
<1>3. v % m \in 0 .. m - 1
  BY <1>1, RemAt
<1>. QED BY <1>1, <1>2, <1>3 DEF Turns

LEMMA WholeAt == ASSUME NEW q \in Int PROVE Whole(q) \in Coords /\ Sext20(q) \in Int
<1>1. q \div 16 \in Int
  OBVIOUS
<1>2. PICK m \in Nat, h \in Nat : m = 32 * Half /\ h = 16 * Half /\ m > 0
  BY SizeAssumption
<1>3. Sext20(q) = ((q + h) % m) - h /\ q + h \in Int
  BY <1>2 DEF Sext20
<1>. QED BY <1>1, <1>2, <1>3, RemAt, I16At DEF Whole
-----------------------------------------------------------------------------
(* Words *)

LEMMA LogicTableIs ==
  ASSUME NEW op \in 0 .. 15, NEW v \in SUBSET Bits24, NEW d \in SUBSET Bits24
  PROVE  LogicTable(op, v, d) = LogicOp(op, v, d) /\ LogicOp(op, v, d) \in SUBSET Bits24
<1>1. op = 0 \/ op = 1 \/ op = 2 \/ op = 3 \/ op = 4 \/ op = 5 \/ op = 6 \/ op = 7
      \/ op = 8 \/ op = 9 \/ op = 10 \/ op = 11 \/ op = 12 \/ op = 13 \/ op = 14 \/ op = 15
  OBVIOUS
<1> DEFINE t(o, b, w) == IF (o \div 2^b) % 2 = 1 THEN w ELSE {}
<1>2. LogicTable(op, v, d) = t(op, 0, v \cap d) \cup t(op, 1, v \ d) \cup t(op, 2, d \ v) \cup t(op, 3, Not(v \cup d))
  BY DEF LogicTable
<1> DEFINE B(o) == <<(o \div 2^0) % 2 = 1, (o \div 2^1) % 2 = 1, (o \div 2^2) % 2 = 1, (o \div 2^3) % 2 = 1>>
<1>. QED BY <1>1, <1>2 DEF LogicOp, Not

LEMMA Powers == /\ 2^0 = 1 /\ 2^1 = 2 /\ 2^2 = 4 /\ 2^3 = 8 /\ 2^4 = 16 /\ 2^8 = 256 /\ 2^12 = 4096
                /\ \A b \in 4 .. 23 : 2^b >= 16 /\ 2^b \in Int
                /\ \A b \in 8 .. 23 : 2^b >= 256
                /\ \A b \in 12 .. 23 : 2^b >= 4096
<1>1. \A b \in 4 .. 23 : b = 4 \/ b = 5 \/ b = 6 \/ b = 7 \/ b = 8 \/ b = 9 \/ b = 10 \/ b = 11 \/ b = 12 \/ b = 13
        \/ b = 14 \/ b = 15 \/ b = 16 \/ b = 17 \/ b = 18 \/ b = 19 \/ b = 20 \/ b = 21 \/ b = 22 \/ b = 23
  OBVIOUS
<1> DEFINE P(b, v) == 2^b = v
<1>2. /\ P(4, 16) /\ P(5, 32) /\ P(6, 64) /\ P(7, 128) /\ P(8, 256) /\ P(9, 512) /\ P(10, 1024) /\ P(11, 2048)
      /\ P(12, 4096) /\ P(13, 8192) /\ P(14, 16384) /\ P(15, 32768) /\ P(16, 65536) /\ P(17, 131072)
      /\ P(18, 262144) /\ P(19, 524288) /\ P(20, 1048576) /\ P(21, 2097152) /\ P(22, 4194304) /\ P(23, 8388608)
  OBVIOUS
<1>3. \A b \in 4 .. 23 : \E v \in Int : /\ P(b, v) /\ v >= 16 /\ (b >= 8 => v >= 256) /\ (b >= 12 => v >= 4096)
  <2> HIDE DEF P
  <2>. QED BY <1>1, <1>2
<1>4. \A b \in 4 .. 23 : \E v \in Int : /\ 2^b = v /\ v >= 16 /\ (b >= 8 => v >= 256) /\ (b >= 12 => v >= 4096)
  BY <1>3, Zenon
<1>5. 2^0 = 1 /\ 2^1 = 2 /\ 2^2 = 4 /\ 2^3 = 8 /\ 2^4 = 16 /\ 2^8 = 256 /\ 2^12 = 4096
  OBVIOUS
<1>6. \A b \in 4 .. 23 : 2^b \in Int /\ 2^b >= 16 /\ (b >= 8 => 2^b >= 256) /\ (b >= 12 => 2^b >= 4096)
  <2> DEFINE p(b) == 2^b
  <2>1. \A b \in 4 .. 23 : \E v \in Int : /\ p(b) = v /\ v >= 16 /\ (b >= 8 => v >= 256) /\ (b >= 12 => v >= 4096)
    BY <1>4, Zenon
  <2>2. \A b \in 4 .. 23 : p(b) \in Int /\ p(b) >= 16 /\ (b >= 8 => p(b) >= 256) /\ (b >= 12 => p(b) >= 4096)
    <3> HIDE DEF p
    <3>. QED BY <2>1
  <2>. QED BY <2>2, Zenon
<1>. QED BY <1>5, <1>6

\* The low bits of a small number are all its bits.
LEMMA NumBitsNarrow ==
  ASSUME NEW v \in Nat
  PROVE  /\ v < 16 => NumBits(v, 24) = NumBits(v, 4)
         /\ v < 256 => NumBits(v, 24) = NumBits(v, 8)
         /\ v < 4096 => NumBits(v, 24) = NumBits(v, 12)
<1>1. ASSUME NEW d \in Int, v < d, d > 0 PROVE v \div d = 0
  BY <1>1
<1> DEFINE p(b) == 2^b
           T(b) == (v \div p(b)) % 2 = 1
<1>2. /\ \A b \in 4 .. 23 : p(b) \in Int /\ p(b) >= 16
      /\ \A b \in 8 .. 23 : p(b) >= 256
      /\ \A b \in 12 .. 23 : p(b) >= 4096
  BY Powers
<1>3. \A n \in Nat : NumBits(v, n) = {b \in 0 .. n - 1 : T(b)}
  BY DEF NumBits
<1> HIDE DEF p
<1>4. \A b \in 4 .. 23 : v < p(b) => ~T(b)
  BY <1>1, <1>2
<1> HIDE DEF T
<1>5. v < 16 => {b \in 0 .. 23 : T(b)} = {b \in 0 .. 3 : T(b)}
  BY <1>2, <1>4
<1>6. v < 256 => {b \in 0 .. 23 : T(b)} = {b \in 0 .. 7 : T(b)}
  BY <1>2, <1>4
<1>7. v < 4096 => {b \in 0 .. 23 : T(b)} = {b \in 0 .. 11 : T(b)}
  BY <1>2, <1>4
<1>8. /\ NumBits(v, 24) = {b \in 0 .. 23 : T(b)} /\ NumBits(v, 4) = {b \in 0 .. 3 : T(b)}
      /\ NumBits(v, 8) = {b \in 0 .. 7 : T(b)} /\ NumBits(v, 12) = {b \in 0 .. 11 : T(b)}
  <2>1. 24 - 1 = 23 /\ 4 - 1 = 3 /\ 8 - 1 = 7 /\ 12 - 1 = 11 /\ {24, 4, 8, 12} \subseteq Nat
    OBVIOUS
  <2>2. \A n, k \in Nat : n - 1 = k => NumBits(v, n) = {b \in 0 .. k : T(b)}
    BY <1>3
  <2>. QED BY <2>1, <2>2
<1>. QED BY <1>5, <1>6, <1>7, <1>8
-----------------------------------------------------------------------------
(* Dithering: the kernel's lanes and the engine's pixels *)

LEMMA DitheredIn ==
  ASSUME NEW v \in 0 .. 255, NEW sh \in {0, 1, 2, 3}, NEW top \in {1, 3, 7, 15}, NEW bay \in Int
  PROVE  Dithered(v, sh, top, bay) \in 0 .. top
<1>1. PICK s \in Int : s = (v \div 2^sh) - (v \div 16)
  <2> DEFINE p(b) == 2^b
  <2>1. p(0) = 1 /\ p(1) = 2 /\ p(2) = 4 /\ p(3) = 8
    BY Powers
  <2>2. p(sh) \in {1, 2, 4, 8}
    <3> HIDE DEF p
    <3>. QED BY <2>1
  <2>3. 2^sh \in {1, 2, 4, 8}
    BY <2>2
  <2>. QED BY <2>3
<1>2. PICK r \in Int : r = (s \div 16) % (top + 1) /\ r >= 0
  OBVIOUS
<1>. QED BY <1>1, <1>2 DEF Dithered

LEMMA ClampIn == ASSUME NEW c \in Int PROVE ShadeClamp(c) \in 0 .. 255
<1>1. (c \div 2048) % 512 \in 0 .. 511
  OBVIOUS
<1>. QED BY <1>1 DEF ShadeClamp

LEMMA DitherLane ==
  ASSUME NEW e, NEW it \in [Channels -> Int], NEW bay \in Int
  PROVE  dither_lane(e, it, bay)
           = Shl(NumBits(ShadeClamp(it.alpha), 8), 24)
               \cup DitherColor(e.m1.depth, ShadeClamp(it.red), ShadeClamp(it.green), ShadeClamp(it.blue), bay)
<1>1. PICK r, g, b \in 0 .. 255 : r = ShadeClamp(it.red) /\ g = ShadeClamp(it.green) /\ b = ShadeClamp(it.blue)
  <2>1. it.red \in Int /\ it.green \in Int /\ it.blue \in Int
    BY DEF Channels
  <2>. QED BY <2>1, ClampIn, ZenonT(30)
<1> DEFINE D(v, sh, top) == Dithered(v, sh, top, bay)
           d == e.m1.depth
           a == Shl(NumBits(ShadeClamp(it.alpha), 8), 24)
           low == CASE d = 0 -> 8 * D(b, 3, 1) + 2 * D(g, 2, 3) + D(r, 3, 1)
                    [] d = 1 -> 64 * D(b, 2, 3) + 8 * D(g, 1, 7) + D(r, 1, 7)
                    [] d = 2 -> 256 * D(b, 0, 15) + 16 * D(g, 0, 15) + D(r, 0, 15)
                    [] OTHER -> 65536 * b + 256 * g + r
           c == NumBits(low, 24)
<1>2. dither_lane(e, it, bay) = a \cup c \cup (CASE d = 0 -> Shl(c, 4) [] d = 2 -> Shl(c, 12) [] OTHER -> {})
  BY <1>1 DEF dither_lane, Dithered
<1>3. /\ D(b, 3, 1) \in 0 .. 1 /\ D(g, 2, 3) \in 0 .. 3 /\ D(r, 3, 1) \in 0 .. 1
      /\ D(b, 2, 3) \in 0 .. 3 /\ D(g, 1, 7) \in 0 .. 7 /\ D(r, 1, 7) \in 0 .. 7
      /\ D(b, 0, 15) \in 0 .. 15 /\ D(g, 0, 15) \in 0 .. 15 /\ D(r, 0, 15) \in 0 .. 15
  BY DitheredIn
<1> HIDE DEF D
<1>4. CASE d = 0
  <2>1. low \in Nat /\ low < 16
    BY <1>3, <1>4
  <2>2. c = NumBits(low, 4)
    BY <2>1, NumBitsNarrow
  <2>. QED BY <1>1, <1>2, <1>4, <2>2 DEF DitherColor, D
<1>5. CASE d = 1
  <2>1. low \in Nat /\ low < 256
    BY <1>3, <1>5
  <2>2. c = NumBits(low, 8)
    BY <2>1, NumBitsNarrow
  <2>. QED BY <1>1, <1>2, <1>5, <2>2 DEF DitherColor, D
<1>6. CASE d = 2
  <2>1. PICK x \in 0 .. 15, y \in 0 .. 15, z \in 0 .. 15 : x = D(b, 0, 15) /\ y = D(g, 0, 15) /\ z = D(r, 0, 15)
    BY <1>3
  <2>2. low = 256 * x + 16 * y + z
    BY <1>6, <2>1
  <2>3. c = NumBits(low, 12)
    <3>1. PICK w : w = low
      OBVIOUS
    <3> HIDE DEF low
    <3>2. w \in Nat /\ w < 4096
      BY <2>2, <3>1, SMTT(30)
    <3>. QED BY <3>1, <3>2, NumBitsNarrow
  <2>. QED BY <1>1, <1>2, <1>6, <2>3 DEF DitherColor, D
<1>7. CASE d \notin {0, 1, 2}
  BY <1>1, <1>2, <1>7 DEF DitherColor
<1>. QED BY <1>4, <1>5, <1>6, <1>7
-----------------------------------------------------------------------------
(* Engines *)

EngineFields ==
  {"scalar", "m0", "m1", "xs", "ys", "xe", "ye", "x_save", "move", "window", "clip_mode", "smask", "oct",
   "color", "curr", "slope", "color_i", "color_back", "color_vram", "ls_pattern", "ls_saved", "z_pattern",
   "host", "host_shift", "pixels", "rb", "fb"}

RbFields == {"fast_clear", "plane", "depth", "logicop", "src_shift", "dest", "write_mask", "global_mask"}

FrameBuffer == [{"rgbci", "cidaux"} -> [FbXY -> SUBSET Bits24]]

Engine(e) ==
  /\ e = [f \in EngineFields |-> e[f]]
  /\ e.xs \in Int /\ e.ys \in Int /\ e.xe \in Int /\ e.ye \in Int /\ e.x_save \in Coords
  /\ e.window.x \in Int /\ e.window.y \in Int
  /\ e.smask = [n \in 0 .. 4 |-> e.smask[n]]
  /\ e.smask[0].x0 \in Coords /\ e.smask[0].x1 \in Coords /\ e.smask[0].y0 \in Coords /\ e.smask[0].y1 \in Coords
  /\ e.color \in [Channels -> Int] /\ e.curr \in [Channels -> Int] /\ e.slope \in [Channels -> Int]
  /\ e.rb = [f \in RbFields |-> e.rb[f]]
  /\ e.rb.dest \in {"rgbci", "cidaux"} /\ e.rb.logicop \in 0 .. 15 /\ e.rb.src_shift \in Nat
  /\ e.m1.depth \in 0 .. 3 /\ e.m1.hostdepth \in 0 .. 3
  /\ e.pixels \in Nat
  /\ e.fb \in FrameBuffer

\* The registers a draw reads and leaves alone.
Regs(e, f) ==
  /\ f.m0 = e.m0 /\ f.m1 = e.m1 /\ f.window = e.window /\ f.clip_mode = e.clip_mode /\ f.smask = e.smask
  /\ f.rb = e.rb /\ f.color_vram = e.color_vram /\ f.color_back = e.color_back /\ f.host = e.host
  /\ f.slope = e.slope /\ f.x_save = e.x_save /\ f.move = e.move

LEMMA RegsView ==
  ASSUME NEW e, NEW f, Regs(e, f)
  PROVE  /\ \A x : WinX(f, x) = WinX(e, x) /\ WinY(f, x) = WinY(e, x)
         /\ \A x, y : clip_pass(f, x, y) = clip_pass(e, x, y)
         /\ \A c : default_color(f, c) = default_color(e, c)
         /\ \A c, x, y : rgb_from(f, c, x, y) = rgb_from(e, c, x, y)
<1>1. \A x : WinX(f, x) = WinX(e, x) /\ WinY(f, x) = WinY(e, x)
  BY DEF WinX, WinY, Regs
<1>2. ASSUME NEW x, NEW y PROVE clip_pass(f, x, y) = clip_pass(e, x, y)
  <2>1. f.clip_mode = e.clip_mode /\ f.smask = e.smask
    BY DEF Regs
  <2>. QED BY <2>1, <1>1 DEF clip_pass
<1>3. ASSUME NEW c PROVE default_color(f, c) = default_color(e, c)
  <2>1. f.m1 = e.m1 /\ f.color_vram = e.color_vram
    BY DEF Regs
  <2>. QED BY <2>1 DEF default_color
<1>4. ASSUME NEW c, NEW x, NEW y PROVE rgb_from(f, c, x, y) = rgb_from(e, c, x, y)
  <2>1. f.m1 = e.m1
    BY DEF Regs
  <2>. QED BY <2>1, <1>3 DEF rgb_from
<1>. QED BY <1>1, <1>2, <1>3, <1>4

LEMMA LanesIn == ASSUME NEW rb, NEW c PROVE Lanes(rb, c) \in SUBSET Bits24
  BY DEF Lanes

LEMMA ReadIn ==
  ASSUME NEW rb, rb.src_shift \in Nat, NEW w \in SUBSET Bits24
  PROVE  rb_read(rb, w) \in SUBSET Bits24
<1>1. PICK k \in Nat : k = rb.src_shift
  OBVIOUS
<1>2. \A b \in {c \in w : c >= k} : b - k \in 0 .. 23
  BY DEF Bits24
<1>3. {b - k : b \in {c \in w : c >= k}} \subseteq 0 .. 23
  BY <1>2
<1>. QED BY <1>1, <1>3 DEF rb_read, Shr, Bits24

LEMMA WriteIn ==
  ASSUME NEW rb, rb.src_shift \in Nat, rb.logicop \in 0 .. 15, NEW w \in SUBSET Bits24, NEW c
  PROVE  /\ rb_write(rb, w, c) \in SUBSET Bits24
         /\ rb_write(rb, w, c)
              = rb_store(rb, w, IF rb.fast_clear THEN Lanes(rb, c)
                                ELSE LogicTable(rb.logicop, Lanes(rb, c), rb_read(rb, w)))
<1>1. LogicTable(rb.logicop, Lanes(rb, c), rb_read(rb, w)) = LogicOp(rb.logicop, Lanes(rb, c), rb_read(rb, w))
      /\ LogicOp(rb.logicop, Lanes(rb, c), rb_read(rb, w)) \in SUBSET Bits24
  BY LanesIn, ReadIn, LogicTableIs
<1>2. \A v \in SUBSET Bits24 : rb_store(rb, w, v) \in SUBSET Bits24
  BY DEF rb_store
<1>. QED BY <1>1, <1>2, LanesIn DEF rb_write

\* What output_pixel makes of the framebuffer b.
Stroke(e, b, x, y, c) ==
  IF clip_pass(e, x, y)
   THEN [b EXCEPT ![e.rb.dest][<<WinX(e, x), WinY(e, y)>>] = rb_write(e.rb, @, c)] ELSE b

LEMMA OutputPixel ==
  ASSUME NEW e, Engine(e), NEW x, NEW y, NEW c
  PROVE  /\ output_pixel(e, x, y, c) = [e EXCEPT !.pixels = e.pixels + 1, !.fb = Stroke(e, e.fb, x, y, c)]
         /\ Stroke(e, e.fb, x, y, c) \in FrameBuffer
<1> DEFINE d == e.rb.dest
           p == <<WinX(e, x), WinY(e, y)>>
<1>1. output_pixel(e, x, y, c) = [e EXCEPT !.pixels = e.pixels + 1, !.fb = Stroke(e, e.fb, x, y, c)]
  BY DEF output_pixel, Stroke, Engine, EngineFields
<1>2. Stroke(e, e.fb, x, y, c) \in FrameBuffer
  <2>1. \A q \in FbXY : rb_write(e.rb, e.fb[d][q], c) \in SUBSET Bits24
    BY WriteIn DEF Engine, FrameBuffer
  <2>2. CASE p \in FbXY
    BY <2>1, <2>2 DEF Stroke, Engine, FrameBuffer
  <2>3. CASE p \notin FbXY
    <3>1. e.fb \in FrameBuffer /\ d \in {"rgbci", "cidaux"}
      BY DEF Engine
    <3>2. ASSUME NEW v PROVE [e.fb EXCEPT ![d][p] = v] = e.fb
      <4>1. PICK b : b = e.fb[d]
        OBVIOUS
      <4>2. b \in [FbXY -> SUBSET Bits24] /\ e.fb = [k \in {"rgbci", "cidaux"} |-> e.fb[k]]
        BY <3>1, <4>1 DEF FrameBuffer
      <4> HIDE DEF d, p
      <4>3. [b EXCEPT ![p] = v] = b
        BY <2>3, <4>2, Zenon
      <4>4. [e.fb EXCEPT ![d] = b] = e.fb
        BY <4>1, <4>2, Zenon
      <4>. QED BY <4>1, <4>3, <4>4
    <3> HIDE DEF d, p
    <3>3. Stroke(e, e.fb, x, y, c) = e.fb
      BY <3>2 DEF Stroke, d, p
    <3>. QED BY <3>1, <3>3
  <2>. QED BY <2>2, <2>3
<1>. QED BY <1>1, <1>2

\* A state of a draw: the engine f with its count and framebuffer replaced.
Paint(f, px, b) == [f EXCEPT !.pixels = px, !.fb = b]

LEMMA PaintIs ==
  ASSUME NEW f, Engine(f), NEW px \in Nat, NEW b \in FrameBuffer
  PROVE  /\ Engine(Paint(f, px, b)) /\ Regs(f, Paint(f, px, b))
         /\ Paint(f, px, b).pixels = px /\ Paint(f, px, b).fb = b
         /\ Paint(f, px, b).curr = f.curr /\ Paint(f, px, b).host_shift = f.host_shift
         /\ \A x, y, c : output_pixel(Paint(f, px, b), x, y, c) = Paint(f, px + 1, Stroke(f, b, x, y, c))
         /\ \A x, y, c : Stroke(f, b, x, y, c) \in FrameBuffer
<1> DEFINE g == Paint(f, px, b)
<1>1. g = [k \in EngineFields |-> IF k = "pixels" THEN px ELSE IF k = "fb" THEN b ELSE f[k]]
  BY DEF Paint, Engine, EngineFields
<1>2. /\ g.pixels = px /\ g.fb = b /\ \A k \in EngineFields \ {"pixels", "fb"} : g[k] = f[k]
  BY <1>1 DEF EngineFields
<1>3. /\ g.scalar = f.scalar /\ g.m0 = f.m0 /\ g.m1 = f.m1 /\ g.xs = f.xs /\ g.ys = f.ys /\ g.xe = f.xe /\ g.ye = f.ye
      /\ g.x_save = f.x_save /\ g.move = f.move /\ g.window = f.window /\ g.clip_mode = f.clip_mode
      /\ g.smask = f.smask /\ g.color = f.color /\ g.curr = f.curr /\ g.slope = f.slope
      /\ g.color_back = f.color_back /\ g.color_vram = f.color_vram /\ g.host = f.host
      /\ g.host_shift = f.host_shift /\ g.rb = f.rb
  BY <1>2 DEF EngineFields
<1>4. Engine(g)
  <2>1. g = [k \in EngineFields |-> g[k]]
    BY <1>1
  <2> HIDE DEF g
  <2>. QED BY <2>1, <1>2, <1>3 DEF Engine
<1>5. Regs(f, g)
  <2> HIDE DEF g
  <2>. QED BY <1>3 DEF Regs
<1>6. ASSUME NEW x, NEW y, NEW c
      PROVE  output_pixel(g, x, y, c) = Paint(f, px + 1, Stroke(f, b, x, y, c)) /\ Stroke(f, b, x, y, c) \in FrameBuffer
  <2>1. Stroke(g, g.fb, x, y, c) = Stroke(f, b, x, y, c)
    <3>1. clip_pass(g, x, y) = clip_pass(f, x, y) /\ WinX(g, x) = WinX(f, x) /\ WinY(g, y) = WinY(f, y)
      BY <1>5, RegsView
    <3> HIDE DEF g
    <3>. QED BY <3>1, <1>2, <1>3 DEF Stroke
  <2>2. output_pixel(g, x, y, c) = [g EXCEPT !.pixels = px + 1, !.fb = Stroke(f, b, x, y, c)]
        /\ Stroke(f, b, x, y, c) \in FrameBuffer
    <3> HIDE DEF g
    <3>1. /\ output_pixel(g, x, y, c) = [g EXCEPT !.pixels = g.pixels + 1, !.fb = Stroke(g, g.fb, x, y, c)]
          /\ Stroke(g, g.fb, x, y, c) \in FrameBuffer
      BY <1>4, OutputPixel
    <3>2. g.pixels = px
      BY <1>2
    <3>. QED BY <3>1, <3>2, <2>1, Zenon
  <2>. QED BY <2>2 DEF Paint, Engine, EngineFields
<1>. QED BY <1>2, <1>3, <1>4, <1>5, <1>6

\* Another state of a draw: iterators, their start and the host port's lane.
Lit(f, v, w, s) == [f EXCEPT !.curr = v, !.color = w, !.host_shift = s]

LEMMA LitIs ==
  ASSUME NEW f, Engine(f), NEW v \in [Channels -> Int], NEW w \in [Channels -> Int], NEW s
  PROVE  /\ Engine(Lit(f, v, w, s)) /\ Regs(f, Lit(f, v, w, s))
         /\ Lit(f, v, w, s).curr = v /\ Lit(f, v, w, s).color = w /\ Lit(f, v, w, s).host_shift = s
         /\ Lit(f, v, w, s).pixels = f.pixels /\ Lit(f, v, w, s).fb = f.fb
         /\ \A px, b : Lit(Paint(f, px, b), v, w, s) = Paint(Lit(f, v, w, s), px, b)
<1> DEFINE g == Lit(f, v, w, s)
<1>1. g = [k \in EngineFields |-> IF k = "curr" THEN v ELSE IF k = "color" THEN w
                                  ELSE IF k = "host_shift" THEN s ELSE f[k]]
  BY DEF Lit, Engine, EngineFields
<1>2. /\ g.curr = v /\ g.color = w /\ g.host_shift = s
      /\ \A k \in EngineFields \ {"curr", "color", "host_shift"} : g[k] = f[k]
  BY <1>1 DEF EngineFields
<1>3. /\ g.scalar = f.scalar /\ g.m0 = f.m0 /\ g.m1 = f.m1 /\ g.xs = f.xs /\ g.ys = f.ys /\ g.xe = f.xe /\ g.ye = f.ye
      /\ g.x_save = f.x_save /\ g.move = f.move /\ g.window = f.window /\ g.clip_mode = f.clip_mode
      /\ g.smask = f.smask /\ g.slope = f.slope /\ g.pixels = f.pixels /\ g.fb = f.fb
      /\ g.color_back = f.color_back /\ g.color_vram = f.color_vram /\ g.host = f.host /\ g.rb = f.rb
  BY <1>2 DEF EngineFields
<1>4. Engine(g)
  <2>1. g = [k \in EngineFields |-> g[k]]
    BY <1>1
  <2> HIDE DEF g
  <2>. QED BY <2>1, <1>2, <1>3 DEF Engine
<1>5. Regs(f, g)
  <2> HIDE DEF g
  <2>. QED BY <1>3 DEF Regs
<1>6. ASSUME NEW px, NEW b PROVE Lit(Paint(f, px, b), v, w, s) = Paint(Lit(f, v, w, s), px, b)
  BY DEF Lit, Paint, Engine, EngineFields
<1>. QED BY <1>2, <1>3, <1>4, <1>5, <1>6

\* The iterators after a step, and the colour they start from.
NextCurr(f) ==
  LET v(c) == (c \div 2048) % 512
      cl(c) == IF c < 0 \/ v(c) >= 384 THEN 0 ELSE IF v(c) > 255 THEN 524287 ELSE c
  IN  IF f.m0.ciclamp /\ f.m1.rgb THEN [ch \in Channels |-> cl(f.curr[ch] + f.slope[ch])]
      ELSE [ch \in Channels |-> f.curr[ch] + f.slope[ch]]

NextColor(f) ==
  LET top == <<15, 19, 21, 31>>[f.m1.depth + 1]
  IN  IF f.m0.ciclamp /\ ~f.m1.rgb /\ f.m1.depth < 3 /\ (f.color.red \div 2^top) % 2 = 1
       THEN [f.color EXCEPT !.red = 2^top - 1] ELSE f.color

LEMMA IterateIs ==
  ASSUME NEW f, Engine(f)
  PROVE  /\ NextCurr(f) \in [Channels -> Int] /\ NextColor(f) \in [Channels -> Int]
         /\ iterate_shade(f) = Lit(f, NextCurr(f), NextColor(f), f.host_shift)
<1> DEFINE top == <<15, 19, 21, 31>>[f.m1.depth + 1]
           v(c) == (c \div 2048) % 512
           cl(c) == IF c < 0 \/ v(c) >= 384 THEN 0 ELSE IF v(c) > 255 THEN 524287 ELSE c
           curr == [ch \in Channels |-> f.curr[ch] + f.slope[ch]]
<1>1. f.m1.depth < 3 => 2^top - 1 \in Int
  <2>1. f.m1.depth \in {0, 1, 2, 3}
    BY DEF Engine
  <2>2. f.m1.depth = 0 => 2^top = 2^15
    <3>1. f.m1.depth = 0 => top = 15
      OBVIOUS
    <3>. QED BY <3>1, Zenon
  <2>3. f.m1.depth = 1 => 2^top = 2^19
    <3>1. f.m1.depth = 1 => top = 19
      OBVIOUS
    <3>. QED BY <3>1, Zenon
  <2>4. f.m1.depth = 2 => 2^top = 2^21
    <3>1. f.m1.depth = 2 => top = 21
      OBVIOUS
    <3>. QED BY <3>1, Zenon
  <2>5. 2^15 \in Int /\ 2^19 \in Int /\ 2^21 \in Int
    OBVIOUS
  <2> DEFINE P == 2^top
             A == 2^15
             B == 2^19
             C == 2^21
  <2>6. P = A \/ P = B \/ P = C \/ f.m1.depth = 3
    BY <2>1, <2>2, <2>3, <2>4
  <2>7. A \in Int /\ B \in Int /\ C \in Int
    BY <2>5
  <2>8. f.m1.depth < 3 => P - 1 \in Int
    <3> HIDE DEF P, A, B, C
    <3>. QED BY <2>6, <2>7
  <2>. QED BY <2>8
<1>2. curr \in [Channels -> Int]
  BY DEF Engine
<1>3. NextCurr(f) = IF f.m0.ciclamp /\ f.m1.rgb THEN [ch \in Channels |-> cl(curr[ch])] ELSE curr
  BY DEF NextCurr
<1>4. \A x \in Int : cl(x) \in Int
  OBVIOUS
<1>5. NextCurr(f) \in [Channels -> Int]
  <2> HIDE DEF curr, cl
  <2>. QED BY <1>2, <1>3, <1>4
<1> DEFINE w == [f.color EXCEPT !.red = 2^top - 1]
           hit == f.m1.depth < 3 /\ (f.color.red \div 2^top) % 2 = 1
<1>6. NextColor(f) = IF f.m0.ciclamp /\ ~f.m1.rgb /\ hit THEN w ELSE f.color
  BY DEF NextColor
<1>7. hit => w \in [Channels -> Int]
  <2> DEFINE P == 2^top - 1
  <2>1. f.color \in [Channels -> Int]
    BY DEF Engine
  <2>2. hit => P \in Int
    BY <1>1
  <2>3. \A z \in Int : [f.color EXCEPT !.red = z] \in [Channels -> Int]
    BY <2>1
  <2> HIDE DEF P
  <2>4. hit => [f.color EXCEPT !.red = P] \in [Channels -> Int]
    BY <2>2, <2>3
  <2>. QED BY <2>4 DEF P
<1>8. f.color \in [Channels -> Int]
  BY DEF Engine
<1>9. NextColor(f) \in [Channels -> Int]
  <2> HIDE DEF w, hit
  <2>. QED BY <1>6, <1>7, <1>8
<1>10. iterate_shade(f) = Lit(f, NextCurr(f), NextColor(f), f.host_shift)
  <2>1. iterate_shade(f) =
          IF ~f.m0.ciclamp THEN [f EXCEPT !.curr = curr]
          ELSE IF f.m1.rgb THEN [f EXCEPT !.curr = [ch \in Channels |-> cl(curr[ch])]]
          ELSE [f EXCEPT !.curr = curr, !.color = IF hit THEN w ELSE f.color]
    <3> DEFINE P == 2^top
               A == IF f.m1.depth < 3 /\ (f.color.red \div P) % 2 = 1 THEN P - 1 ELSE f.color.red
    <3>1. iterate_shade(f) =
            IF ~f.m0.ciclamp THEN [f EXCEPT !.curr = curr]
            ELSE IF f.m1.rgb THEN [f EXCEPT !.curr = [ch \in Channels |-> cl(curr[ch])]]
            ELSE [f EXCEPT !.curr = curr, !.color.red = A]
      BY SMT DEF iterate_shade
    <3> HIDE DEF P, curr, cl
    <3>2. \A a : [f EXCEPT !.curr = curr, !.color.red = a] = [f EXCEPT !.curr = curr, !.color = [f.color EXCEPT !.red = a]]
      BY DEF Engine, EngineFields
    <3>3. [f.color EXCEPT !.red = f.color.red] = f.color
      BY DEF Engine, Channels
    <3>4. [f.color EXCEPT !.red = A] = IF f.m1.depth < 3 /\ (f.color.red \div P) % 2 = 1 THEN [f.color EXCEPT !.red = P - 1] ELSE f.color
      BY <3>3
    <3> HIDE DEF A
    <3>5. [f EXCEPT !.curr = curr, !.color.red = A] = [f EXCEPT !.curr = curr, !.color = [f.color EXCEPT !.red = A]]
      BY <3>2
    <3>. QED BY <3>1, <3>4, <3>5, Zenon DEF P
  <2>2. \A a : [f EXCEPT !.curr = a] = [f EXCEPT !.curr = a, !.color = f.color, !.host_shift = f.host_shift]
    BY DEF Engine, EngineFields
  <2>3. \A a, b : [f EXCEPT !.curr = a, !.color = b] = [f EXCEPT !.curr = a, !.color = b, !.host_shift = f.host_shift]
    BY DEF Engine, EngineFields
  <2> HIDE DEF curr, cl, w, hit
  <2>. QED BY <2>1, <2>2, <2>3, <1>3, <1>6 DEF Lit
<1>. QED BY <1>5, <1>9, <1>10

\* The engine after a pixel of a span, but for the pixel, and its colour.
Iterated(f) == IF f.m0.shade THEN iterate_shade(f) ELSE f

Fore(f, c, bit) == IF bit \in c.pattern /\ f.m0.color_host THEN HostTaken(Iterated(f)) ELSE Iterated(f)

Tint(f, c, x, y, bit) ==
  IF bit \notin c.pattern THEN f.color_back
  ELSE IF f.m0.color_host THEN HostColor(Iterated(f))
  ELSE IF c.shaded THEN rgb_from(f, Iterated(f).curr, x, y) ELSE c.color

LEMMA HostIs ==
  ASSUME NEW f, Engine(f)
  PROVE  HostTaken(f) = Lit(f, f.curr, f.color, NextShift(f))
  BY DEF HostTaken, Lit, Engine, EngineFields

LEMMA SameShift ==
  ASSUME NEW f, NEW g, Regs(f, g), g.host_shift = f.host_shift
  PROVE  NextShift(g) = NextShift(f) /\ HostColor(g) = HostColor(f)
<1>1. g.m1 = f.m1 /\ g.host = f.host
  BY DEF Regs
<1>. QED BY <1>1 DEF NextShift, HostColor

LEMMA RegsTwice == ASSUME NEW e, NEW f, NEW g, Regs(e, f), Regs(f, g) PROVE Regs(e, g)
  BY DEF Regs

LEMMA IteratedIs ==
  ASSUME NEW f, Engine(f)
  PROVE  /\ Engine(Iterated(f)) /\ Regs(f, Iterated(f))
         /\ Iterated(f).pixels = f.pixels /\ Iterated(f).fb = f.fb /\ Iterated(f).host_shift = f.host_shift
         /\ \A px \in Nat, b \in FrameBuffer : Iterated(Paint(f, px, b)) = Paint(Iterated(f), px, b)
<1>1. CASE ~f.m0.shade
  <2>1. \A px \in Nat, b \in FrameBuffer : ~Paint(f, px, b).m0.shade
    BY <1>1, PaintIs DEF Regs
  <2>2. Regs(f, f)
    BY DEF Regs
  <2>. QED BY <1>1, <2>1, <2>2 DEF Iterated
<1>2. CASE f.m0.shade
  <2> DEFINE v == NextCurr(f)
             w == NextColor(f)
             s == f.host_shift
  <2>1. iterate_shade(f) = Lit(f, v, w, s) /\ v \in [Channels -> Int] /\ w \in [Channels -> Int]
    BY IterateIs
  <2>2. Iterated(f) = Lit(f, v, w, s)
    BY <1>2, <2>1 DEF Iterated
  <2>3. /\ Engine(Iterated(f)) /\ Regs(f, Iterated(f))
        /\ Iterated(f).pixels = f.pixels /\ Iterated(f).fb = f.fb /\ Iterated(f).host_shift = f.host_shift
        /\ \A px, b : Lit(Paint(f, px, b), v, w, s) = Paint(Lit(f, v, w, s), px, b)
    <3> HIDE DEF v, w
    <3>. QED BY <2>1, <2>2, LitIs
  <2>4. ASSUME NEW px \in Nat, NEW b \in FrameBuffer PROVE Iterated(Paint(f, px, b)) = Paint(Iterated(f), px, b)
    <3> DEFINE g == Paint(f, px, b)
    <3>1. /\ Engine(g) /\ g.curr = f.curr /\ g.host_shift = s /\ g.m0 = f.m0 /\ g.m1 = f.m1 /\ g.slope = f.slope
      BY PaintIs DEF Regs
    <3>2. g.color = f.color
      BY DEF Paint, Engine, EngineFields
    <3>3. NextCurr(g) = v /\ NextColor(g) = w
      <4> HIDE DEF g
      <4>. QED BY <3>1, <3>2 DEF NextCurr, NextColor
    <3>4. iterate_shade(g) = Lit(g, v, w, s)
      <4> HIDE DEF g, v, w
      <4>. QED BY <3>1, <3>3, IterateIs
    <3>5. Iterated(g) = Lit(g, v, w, s)
      <4> HIDE DEF g, v, w
      <4>. QED BY <1>2, <3>1, <3>4 DEF Iterated
    <3>. QED BY <3>5, <2>2, <2>3
  <2>. QED BY <2>3, <2>4
<1>. QED BY <1>1, <1>2

LEMMA ForeIs ==
  ASSUME NEW f, Engine(f), NEW c, NEW bit
  PROVE  /\ Engine(Fore(f, c, bit)) /\ Regs(f, Fore(f, c, bit))
         /\ Fore(f, c, bit).pixels = f.pixels /\ Fore(f, c, bit).fb = f.fb
         /\ \A px \in Nat, b \in FrameBuffer :
              /\ Fore(Paint(f, px, b), c, bit) = Paint(Fore(f, c, bit), px, b)
              /\ \A x, y : Tint(Paint(f, px, b), c, x, y, bit) = Tint(f, c, x, y, bit)
<1> DEFINE a == Iterated(f)
           h == HostTaken(a)
           s == NextShift(a)
<1>1. Engine(a) /\ Regs(f, a) /\ a.pixels = f.pixels /\ a.fb = f.fb
  BY IteratedIs
<1>2. h = Lit(a, a.curr, a.color, s)
  <2> HIDE DEF a
  <2>. QED BY <1>1, HostIs
<1>3. a.curr \in [Channels -> Int] /\ a.color \in [Channels -> Int]
  <2> HIDE DEF a
  <2>. QED BY <1>1 DEF Engine
<1>4. Engine(h) /\ Regs(a, h) /\ h.pixels = a.pixels /\ h.fb = a.fb
  <2> HIDE DEF a, s
  <2>. QED BY <1>1, <1>2, <1>3, LitIs
<1>5. Regs(f, h)
  <2> HIDE DEF a, h
  <2>. QED BY <1>1, <1>4, RegsTwice
<1>6. /\ Engine(Fore(f, c, bit)) /\ Regs(f, Fore(f, c, bit))
      /\ Fore(f, c, bit).pixels = f.pixels /\ Fore(f, c, bit).fb = f.fb
  BY <1>1, <1>4, <1>5 DEF Fore
<1>7. ASSUME NEW px \in Nat, NEW b \in FrameBuffer
      PROVE  /\ Fore(Paint(f, px, b), c, bit) = Paint(Fore(f, c, bit), px, b)
             /\ \A x, y : Tint(Paint(f, px, b), c, x, y, bit) = Tint(f, c, x, y, bit)
  <2> DEFINE g == Paint(f, px, b)
             p == Paint(a, px, b)
  <2>1. /\ Engine(g) /\ Regs(f, g)
        /\ Iterated(g) = p
    BY PaintIs, IteratedIs
  <2>2. Engine(p) /\ Regs(a, p) /\ p.curr = a.curr /\ p.host_shift = a.host_shift /\ p.color = a.color
    <3>1. p.color = a.color
      <4> HIDE DEF a
      <4>. QED BY <1>1 DEF Paint, Engine, EngineFields
    <3> HIDE DEF a
    <3>. QED BY <1>1, <3>1, PaintIs
  <2>3. NextShift(p) = s /\ HostColor(p) = HostColor(a)
    <3> HIDE DEF a, p
    <3>. QED BY <2>2, SameShift
  <2>4. HostTaken(p) = Paint(h, px, b)
    <3>1. HostTaken(p) = Lit(p, p.curr, p.color, NextShift(p))
      <4> HIDE DEF p
      <4>. QED BY <2>2, HostIs
    <3>2. HostTaken(p) = Lit(p, a.curr, a.color, s)
      BY <3>1, <2>2, <2>3
    <3>3. \A pp, bb : Lit(Paint(a, pp, bb), a.curr, a.color, s) = Paint(Lit(a, a.curr, a.color, s), pp, bb)
      <4> HIDE DEF a, s
      <4>. QED BY <1>1, <1>3, LitIs
    <3>. QED BY <3>2, <3>3, <1>2
  <2>5. g.m0 = f.m0 /\ g.color_back = f.color_back
    <3> HIDE DEF g
    <3>. QED BY <2>1 DEF Regs
  <2>6. \A cc, x, y : rgb_from(g, cc, x, y) = rgb_from(f, cc, x, y)
    <3> HIDE DEF g
    <3>. QED BY <2>1, RegsView
  <2>7. Fore(g, c, bit) = Paint(Fore(f, c, bit), px, b)
    <3> HIDE DEF g, p, h
    <3>. QED BY <2>1, <2>4, <2>5 DEF Fore, p, h
  <2>8. \A x, y : Tint(g, c, x, y, bit) = Tint(f, c, x, y, bit)
    <3> HIDE DEF g
    <3>. QED BY <2>1, <2>2, <2>3, <2>5, <2>6 DEF Tint
  <2>. QED BY <2>7, <2>8
<1>. QED BY <1>6, <1>7

LEMMA StrokeRegs ==
  ASSUME NEW f, NEW g, Regs(f, g)
  PROVE  \A b, x, y, c : Stroke(g, b, x, y, c) = Stroke(f, b, x, y, c)
<1>1. g.rb = f.rb
  BY DEF Regs
<1>2. ASSUME NEW b, NEW x, NEW y, NEW c PROVE Stroke(g, b, x, y, c) = Stroke(f, b, x, y, c)
  <2>1. clip_pass(g, x, y) = clip_pass(f, x, y) /\ WinX(g, x) = WinX(f, x) /\ WinY(g, y) = WinY(f, y)
    BY RegsView
  <2>. QED BY <2>1, <1>1 DEF Stroke
<1>. QED BY <1>2

\* A pixel of the per-pixel path.
Painted(f, px, b, c, x, y, bit) ==
  IF bit \in c.pattern \/ c.opaque
   THEN Paint(Fore(f, c, bit), px + 1, Stroke(f, b, x, y, Tint(f, c, x, y, bit)))
   ELSE Paint(Fore(f, c, bit), px, b)

LEMMA PixelIs ==
  ASSUME NEW f, Engine(f), NEW c, NEW bit, NEW x, NEW y, NEW px \in Nat, NEW b \in FrameBuffer
  PROVE  PixelStep(Paint(f, px, b), c, x, y, bit) = Painted(f, px, b, c, x, y, bit)
<1> DEFINE g == Paint(f, px, b)
           a == Iterated(f)
           p == Paint(a, px, b)
           h == HostTaken(a)
<1>1. Engine(a) /\ Regs(f, a) /\ Iterated(g) = p
  BY IteratedIs
<1>2. Engine(p) /\ Regs(a, p) /\ p.curr = a.curr /\ p.host_shift = a.host_shift
  <2> HIDE DEF a
  <2>. QED BY <1>1, PaintIs
<1>3. Regs(f, p) /\ p.m0 = f.m0 /\ p.color_back = f.color_back
  <2> HIDE DEF a, p
  <2>. QED BY <1>1, <1>2, RegsTwice DEF Regs
<1>4. \A xx, yy, cc : output_pixel(p, xx, yy, cc) = Paint(a, px + 1, Stroke(f, b, xx, yy, cc))
  <2> HIDE DEF a
  <2>1. \A xx, yy, cc : output_pixel(p, xx, yy, cc) = Paint(a, px + 1, Stroke(a, b, xx, yy, cc))
    BY <1>1, PaintIs
  <2>2. \A xx, yy, cc : Stroke(a, b, xx, yy, cc) = Stroke(f, b, xx, yy, cc)
    BY <1>1, StrokeRegs
  <2>. QED BY <2>1, <2>2
<1>5. HostColor(p) = HostColor(a)
  <2> HIDE DEF a, p
  <2>. QED BY <1>2, SameShift
<1>6. \A cc, xx, yy : rgb_from(p, cc, xx, yy) = rgb_from(f, cc, xx, yy)
  <2> HIDE DEF p
  <2>. QED BY <1>3, RegsView
<1>7. PixelStep(g, c, x, y, bit)
        = IF bit \in c.pattern
           THEN IF p.m0.color_host
                 THEN output_pixel(HostTaken(p), x, y, HostColor(p))
                 ELSE output_pixel(p, x, y, IF c.shaded THEN rgb_color(p, x, y) ELSE c.color)
           ELSE IF c.opaque THEN output_pixel(p, x, y, p.color_back) ELSE p
  <2>1. PixelStep(g, c, x, y, bit)
        = IF bit \in c.pattern
           THEN IF Iterated(g).m0.color_host
                 THEN output_pixel(HostTaken(Iterated(g)), x, y, HostColor(Iterated(g)))
                 ELSE output_pixel(Iterated(g), x, y, IF c.shaded THEN rgb_color(Iterated(g), x, y) ELSE c.color)
           ELSE IF c.opaque THEN output_pixel(Iterated(g), x, y, Iterated(g).color_back) ELSE Iterated(g)
    <3> HIDE DEF g
    <3>. QED BY Zenon DEF PixelStep, Iterated
  <2>. QED BY <2>1, <1>1
<1>8. CASE bit \in c.pattern /\ f.m0.color_host
  <2>1. Fore(f, c, bit) = h /\ Tint(f, c, x, y, bit) = HostColor(a)
    BY <1>8 DEF Fore, Tint
  <2>2. HostTaken(p) = Paint(h, px, b)
    <3>1. Fore(a, c, bit) = HostTaken(Iterated(a)) /\ a.m0 = f.m0
      BY <1>1, <1>8 DEF Fore, Regs
    <3>2. HostTaken(p) = Lit(p, a.curr, p.color, NextShift(a)) /\ HostTaken(a) = Lit(a, a.curr, a.color, NextShift(a))
      <4> HIDE DEF a, p
      <4>. QED BY <1>1, <1>2, HostIs, SameShift
    <3>3. p.color = a.color
      <4> HIDE DEF a
      <4>. QED BY <1>1 DEF Paint, Engine, EngineFields
    <3>4. a.curr \in [Channels -> Int] /\ a.color \in [Channels -> Int]
      <4> HIDE DEF a
      <4>. QED BY <1>1 DEF Engine
    <3>5. Lit(Paint(a, px, b), a.curr, a.color, NextShift(a)) = Paint(Lit(a, a.curr, a.color, NextShift(a)), px, b)
      <4> HIDE DEF a
      <4>. QED BY <1>1, <3>4, LitIs
    <3>. QED BY <3>2, <3>3, <3>5
  <2>3. Engine(h) /\ Regs(f, h)
    BY <2>1, ForeIs
  <2>4. output_pixel(Paint(h, px, b), x, y, HostColor(a)) = Paint(h, px + 1, Stroke(f, b, x, y, HostColor(a)))
    <3> HIDE DEF h, a
    <3>1. output_pixel(Paint(h, px, b), x, y, HostColor(a)) = Paint(h, px + 1, Stroke(h, b, x, y, HostColor(a)))
      BY <2>3, PaintIs
    <3>. QED BY <3>1, <2>3, StrokeRegs
  <2> HIDE DEF p, h, a, g
  <2>. QED BY <1>3, <1>5, <1>7, <1>8, <2>1, <2>2, <2>4 DEF g, Painted
<1>9. CASE bit \in c.pattern /\ ~f.m0.color_host
  <2>1. Fore(f, c, bit) = a /\ Tint(f, c, x, y, bit) = IF c.shaded THEN rgb_from(f, a.curr, x, y) ELSE c.color
    BY <1>9 DEF Fore, Tint
  <2>2. rgb_color(p, x, y) = rgb_from(f, a.curr, x, y)
    <3> HIDE DEF p, a
    <3>. QED BY <1>2, <1>6 DEF rgb_color
  <2> HIDE DEF p, h, a
  <2>. QED BY <1>3, <1>4, <1>7, <1>9, <2>1, <2>2 DEF Painted
<1>10. CASE bit \notin c.pattern
  <2>1. Fore(f, c, bit) = a /\ Tint(f, c, x, y, bit) = f.color_back
    BY <1>10 DEF Fore, Tint
  <2> HIDE DEF p, h, a
  <2>. QED BY <1>3, <1>4, <1>7, <1>10, <2>1 DEF p, Painted
<1>. QED BY <1>8, <1>9, <1>10

\* The kernel's clip is the pixel's where no coordinate of the segment wraps.
LEMMA ClipIs ==
  ASSUME NEW e, Engine(e), NEW c, NEW k \in Int, NEW x0 \in Int, NEW y,
         x0 + k - 1 \in Coords, x0 + k - 1 + e.window.x - Bias \in Coords
  PROVE  /\ WinX(e, x0 + k - 1) = x0 + k - 1 + e.window.x - Bias
         /\ LanePasses(e, c, k, x0, y)
              <=> (((32 - k) % 32 \in c.pattern \/ c.opaque) /\ clip_pass(e, x0 + k - 1, y))
<1> DEFINE x == x0 + k - 1
           xw == x + e.window.x - Bias
           yw == WinY(e, y)
           on == e.clip_mode \cap (1 .. 4)
           rows == {b \in on : yw >= I16(e.smask[b].y0 - Bias) /\ yw <= I16(e.smask[b].y1 - Bias)}
           across(b) == xw >= I16(e.smask[b].x0 - Bias) /\ xw <= I16(e.smask[b].x1 - Bias)
           fired == (32 - k) % 32 \in c.pattern \/ c.opaque
           m == e.smask[0]
<1>1. WinX(e, x) = xw
  <2>1. x + e.window.x - Bias \in Int
    BY SizeAssumption DEF Engine
  <2>. QED BY <2>1, I16At DEF WinX
<1>2. InMask(m, 0, x, y) <=> (x >= m.x0 /\ x <= m.x1 /\ y >= m.y0 /\ y <= m.y1)
  <2>1. /\ m.x0 \in Coords /\ m.x1 \in Coords /\ m.y0 \in Coords /\ m.y1 \in Coords
        /\ Coords \subseteq Int
    BY SizeAssumption DEF Engine, Coords
  <2>2. /\ m.x0 - 0 = m.x0 /\ m.x1 - 0 = m.x1 /\ m.y0 - 0 = m.y0 /\ m.y1 - 0 = m.y1
    <3>1. \A v \in Int : v - 0 = v
      OBVIOUS
    <3> HIDE DEF m
    <3>. QED BY <3>1, <2>1
  <2>3. \A v \in Coords : I16(v) = v
    BY <2>1, I16At
  <2> HIDE DEF x, m
  <2>. QED BY <2>1, <2>2, <2>3 DEF InMask
<1>3. clip_pass(e, x, y)
        <=> /\ 0 \in e.clip_mode => x >= m.x0 /\ x <= m.x1 /\ y >= m.y0 /\ y <= m.y1
            /\ on # {} => \E b \in rows : across(b)
            /\ xw \in 0 .. FB_W - 1
            /\ yw \in 0 .. DISP_H - 1
  <2>1. (\E b \in on : InMask(e.smask[b], Bias, xw, yw)) <=> \E b \in rows : across(b)
    BY DEF InMask
  <2> HIDE DEF x, m, rows, across, xw
  <2>. QED BY <1>1, <1>2, <2>1 DEF clip_pass, m
<1>4. LanePasses(e, c, k, x0, y)
        <=> /\ yw \in 0 .. DISP_H - 1
            /\ 0 \in e.clip_mode => y >= m.y0 /\ y <= m.y1
            /\ on # {} => rows # {}
            /\ fired
            /\ 0 \in e.clip_mode => x >= m.x0 /\ x <= m.x1
            /\ xw \in 0 .. FB_W - 1
            /\ on # {} => \E b \in rows : across(b)
  BY Zenon DEF LanePasses
<1> HIDE DEF x, m, rows, across, xw, yw, fired
<1>5. (\E b \in rows : across(b)) => rows # {}
  OBVIOUS
<1>6. LanePasses(e, c, k, x0, y) <=> (fired /\ clip_pass(e, x, y))
  <2> HIDE DEF on
  <2>. QED BY <1>3, <1>4, <1>5
<1>. QED BY <1>1, <1>6 DEF x, xw, fired

\* The words of a plane after lanes 1 .. k of a segment, coloured col.
Words(e, c, x0, y, col, k) ==
  [p \in FbXY |-> LET i == p[1] - (x0 + e.window.x - Bias) + 1
                      old == e.fb[e.rb.dest][p]
                  IN  IF p[2] = WinY(e, y) /\ i \in 1 .. k /\ LanePasses(e, c, i, x0, y)
                       THEN rb_write(e.rb, old, col[i]) ELSE old]

RowOf(e, c, x0, y, col, k) == [e.fb EXCEPT ![e.rb.dest] = Words(e, c, x0, y, col, k)]

LEMMA RowIn ==
  ASSUME NEW e, Engine(e), NEW c, NEW x0, NEW y, NEW col, NEW k
  PROVE  /\ Words(e, c, x0, y, col, k) \in [FbXY -> SUBSET Bits24]
         /\ RowOf(e, c, x0, y, col, k) \in FrameBuffer
<1> DEFINE d == e.rb.dest
           A == Words(e, c, x0, y, col, k)
<1>1. \A p \in FbXY : e.fb[d][p] \in SUBSET Bits24 /\ \A cc : rb_write(e.rb, e.fb[d][p], cc) \in SUBSET Bits24
  BY WriteIn DEF Engine, FrameBuffer
<1>2. A \in [FbXY -> SUBSET Bits24]
  BY <1>1 DEF Words
<1>3. [e.fb EXCEPT ![d] = A] \in FrameBuffer
  <2> HIDE DEF A
  <2>. QED BY <1>2 DEF Engine, FrameBuffer
<1>. QED BY <1>2, <1>3 DEF RowOf

LEMMA RowZero ==
  ASSUME NEW e, Engine(e), NEW c, NEW x0, NEW y, NEW col
  PROVE  RowOf(e, c, x0, y, col, 0) = e.fb
<1> DEFINE d == e.rb.dest
<1>1. e.fb[d] = [p \in FbXY |-> e.fb[d][p]]
  BY DEF Engine, FrameBuffer
<1>2. Words(e, c, x0, y, col, 0) = [p \in FbXY |-> e.fb[d][p]]
  BY DEF Words
<1>. QED BY <1>1, <1>2 DEF RowOf, Engine, FrameBuffer

LEMMA RowStep ==
  ASSUME NEW e, Engine(e), NEW c, NEW x0 \in Int, NEW y, NEW col, NEW k \in Nat,
         x0 + k \in Coords, x0 + k + e.window.x - Bias \in Coords
  PROVE  RowOf(e, c, x0, y, col, k + 1)
           = IF (31 - k) % 32 \in c.pattern \/ c.opaque
              THEN Stroke(e, RowOf(e, c, x0, y, col, k), x0 + k, y, col[k + 1])
              ELSE RowOf(e, c, x0, y, col, k)
<1> DEFINE d == e.rb.dest
           xw == x0 + k + e.window.x - Bias
           q == <<xw, WinY(e, y)>>
           fired == (31 - k) % 32 \in c.pattern \/ c.opaque
           ok == LanePasses(e, c, k + 1, x0, y)
           clip == clip_pass(e, x0 + k, y)
           A == Words(e, c, x0, y, col, k)
           B == Words(e, c, x0, y, col, k + 1)
           new == rb_write(e.rb, A[q], col[k + 1])
<1>1. WinX(e, x0 + k) = xw /\ (ok <=> fired /\ clip)
  <2>1. x0 + (k + 1) - 1 = x0 + k /\ 32 - (k + 1) = 31 - k /\ k + 1 \in Int
    OBVIOUS
  <2>. QED BY <2>1, ClipIs
<1>2. e.window.x \in Int /\ Bias \in Int /\ xw \in Int
  BY SizeAssumption DEF Engine
<1>3. /\ A \in [FbXY -> SUBSET Bits24]
      /\ B \in [FbXY -> SUBSET Bits24]
  BY RowIn
<1>4. ASSUME NEW p \in FbXY
      PROVE  B[p] = IF ok /\ p = q THEN new ELSE A[p]
  <2> DEFINE i == p[1] - (x0 + e.window.x - Bias) + 1
             old == e.fb[d][p]
             U(j) == p[2] = WinY(e, y) /\ i \in 1 .. j /\ LanePasses(e, c, i, x0, y)
  <2>1. A[p] = (IF U(k) THEN rb_write(e.rb, old, col[i]) ELSE old)
    BY Zenon DEF Words
  <2>2. B[p] = (IF U(k + 1) THEN rb_write(e.rb, old, col[i]) ELSE old)
    BY Zenon DEF Words
  <2>3. p[1] \in Int /\ p = <<p[1], p[2]>>
    BY SizeAssumption DEF FbXY
  <2>4. i \in Int /\ (i = k + 1 <=> p[1] = xw)
    BY <1>2, <2>3
  <2>5. CASE i # k + 1
    <3>1. i \in 1 .. k + 1 <=> i \in 1 .. k
      BY <2>4, <2>5
    <3>2. p # q
      BY <2>4, <2>5
    <3> HIDE DEF i, A, B, q
    <3>. QED BY <2>1, <2>2, <3>1, <3>2
  <2>6. CASE i = k + 1
    <3>1. ~U(k)
      BY <2>6
    <3>2. p = q <=> p[2] = WinY(e, y)
      BY <2>3, <2>4, <2>6
    <3>3. U(k + 1) <=> p = q /\ ok
      BY <2>6, <3>2
    <3>4. p = q => A[q] = old
      BY <2>1, <3>1
    <3> HIDE DEF i, A, B, q, U, ok
    <3>. QED BY <2>1, <2>2, <2>6, <3>1, <3>3, <3>4
  <2>. QED BY <2>5, <2>6
<1>5. B = IF ok THEN [A EXCEPT ![q] = new] ELSE A
  <2> HIDE DEF A, B, q, new, ok
  <2>. QED BY <1>3, <1>4
<1>6. [e.fb EXCEPT ![d] = B] = IF ok THEN [[e.fb EXCEPT ![d] = A] EXCEPT ![d][q] = rb_write(e.rb, @, col[k + 1])]
                              ELSE [e.fb EXCEPT ![d] = A]
  <2>1. d \in {"rgbci", "cidaux"} /\ e.fb \in FrameBuffer
    BY DEF Engine
  <2>2. [e.fb EXCEPT ![d] = A][d] = A
    <3> HIDE DEF A, d
    <3>. QED BY <2>1 DEF FrameBuffer
  <2>3. [[e.fb EXCEPT ![d] = A] EXCEPT ![d][q] = rb_write(e.rb, @, col[k + 1])]
          = [[e.fb EXCEPT ![d] = A] EXCEPT ![d] = [A EXCEPT ![q] = new]]
    <3> HIDE DEF A, d, q
    <3>. QED BY <2>2
  <2>4. \A a, b : [[e.fb EXCEPT ![d] = a] EXCEPT ![d] = b] = [e.fb EXCEPT ![d] = b]
    <3> HIDE DEF d
    <3>. QED BY <2>1 DEF FrameBuffer
  <2> HIDE DEF A, B, d, q, ok, new
  <2>. QED BY <1>5, <2>3, <2>4
<1>7. ~fired \/ ~clip => ~ok
  BY <1>1
<1>8. Stroke(e, [e.fb EXCEPT ![d] = A], x0 + k, y, col[k + 1])
        = IF clip THEN [[e.fb EXCEPT ![d] = A] EXCEPT ![d][q] = rb_write(e.rb, @, col[k + 1])]
          ELSE [e.fb EXCEPT ![d] = A]
  <2> HIDE DEF A
  <2>. QED BY <1>1 DEF Stroke
<1>9. /\ RowOf(e, c, x0, y, col, k + 1) = [e.fb EXCEPT ![d] = B]
      /\ RowOf(e, c, x0, y, col, k) = [e.fb EXCEPT ![d] = A]
  BY DEF RowOf
<1> HIDE DEF A, B, d, ok, clip, fired, q
<1>. QED BY <1>1, <1>6, <1>8, <1>9 DEF fired

\* The engines between the lanes of a segment: fr[k] has drawn k of them.
Fronts(e, c, n, fr) ==
  fr = [k \in 0 .. n |-> IF k = 0 THEN e ELSE Fore(fr[k - 1], c, (32 - k) % 32)]

LEMMA FrontsExist == ASSUME NEW e, NEW c, NEW n \in Nat PROVE \E fr : Fronts(e, c, n, fr)
<1> DEFINE U == {m \in Nat : \E fr : Fronts(e, c, m, fr)}
<1>1. 0 \in U
  <2> DEFINE fr == [k \in 0 .. 0 |-> e]
  <2>1. Fronts(e, c, 0, fr)
    BY DEF Fronts
  <2>. QED BY <2>1
<1>2. ASSUME NEW m \in Nat, m \in U PROVE m + 1 \in U
  <2>1. PICK g : Fronts(e, c, m, g)
    BY <1>2
  <2> DEFINE fr == [k \in 0 .. m + 1 |-> IF k = m + 1 THEN Fore(g[m], c, (32 - k) % 32) ELSE g[k]]
  <2>2. \A k \in 0 .. m : g[k] = IF k = 0 THEN e ELSE Fore(g[k - 1], c, (32 - k) % 32)
    BY <2>1 DEF Fronts
  <2>3. ASSUME NEW k \in 0 .. m + 1 PROVE fr[k] = IF k = 0 THEN e ELSE Fore(fr[k - 1], c, (32 - k) % 32)
    <3>1. k # 0 => k - 1 \in 0 .. m /\ fr[k - 1] = g[k - 1]
      OBVIOUS
    <3>. QED BY <2>2, <3>1
  <2>4. fr = [k \in 0 .. m + 1 |-> IF k = 0 THEN e ELSE Fore(fr[k - 1], c, (32 - k) % 32)]
    <3>1. fr = [k \in 0 .. m + 1 |-> fr[k]]
      OBVIOUS
    <3> HIDE DEF fr
    <3>. QED BY <2>3, <3>1
  <2>5. Fronts(e, c, m + 1, fr)
    BY <2>4 DEF Fronts
  <2> HIDE DEF fr
  <2>. QED BY <2>5
<1>3. \A m \in Nat : m \in U
  <2> HIDE DEF U
  <2>. QED BY <1>1, <1>2, FromZero
<1>. QED BY <1>3

\* What they are; without the port they step the iterators only.
Chain(e, c, n, fr) ==
  /\ fr = [k \in 0 .. n |-> fr[k]]
  /\ fr[0] = e
  /\ \A k \in 1 .. n :
       /\ fr[k] = Fore(fr[k - 1], c, (32 - k) % 32)
       /\ e.m0.color_host /\ ~e.m0.shade
            => fr[k] = IF (32 - k) % 32 \in c.pattern THEN HostTaken(fr[k - 1]) ELSE fr[k - 1]
       /\ ~e.m0.color_host => fr[k] = IF e.m0.shade THEN iterate_shade(fr[k - 1]) ELSE fr[k - 1]
       /\ Iterated(fr[k - 1]).curr = fr[k].curr
  /\ \A k \in 0 .. n : Engine(fr[k]) /\ Regs(e, fr[k]) /\ fr[k].pixels = e.pixels /\ fr[k].fb = e.fb

LEMMA FrontsAre ==
  ASSUME NEW e, Engine(e), NEW c, NEW n \in Nat, NEW fr, Fronts(e, c, n, fr)
  PROVE  Chain(e, c, n, fr)
<1>1. \A k \in 0 .. n : fr[k] = IF k = 0 THEN e ELSE Fore(fr[k - 1], c, (32 - k) % 32)
  BY DEF Fronts
<1>2. fr[0] = e /\ \A k \in 1 .. n : fr[k] = Fore(fr[k - 1], c, (32 - k) % 32)
  BY <1>1
<1> DEFINE T(g) == Engine(g) /\ Regs(e, g) /\ g.pixels = e.pixels /\ g.fb = e.fb
           U == {k \in 0 .. n : T(fr[k])}
<1>3. 0 \in U
  BY <1>2 DEF Regs
<1>4. ASSUME NEW k \in 0 .. n - 1, k \in U PROVE k + 1 \in U
  <2>1. fr[k + 1] = Fore(fr[k], c, (32 - (k + 1)) % 32) /\ T(fr[k])
    BY <1>2, <1>4
  <2>2. PICK bit : fr[k + 1] = Fore(fr[k], c, bit)
    BY <2>1
  <2>3. Engine(fr[k]) /\ Regs(e, fr[k]) /\ fr[k].pixels = e.pixels /\ fr[k].fb = e.fb
    BY <2>1
  <2>4. PICK g : g = fr[k]
    OBVIOUS
  <2>5. PICK h : h = Fore(g, c, bit)
    OBVIOUS
  <2>6. Engine(h) /\ Regs(g, h) /\ h.pixels = g.pixels /\ h.fb = g.fb
    BY <2>3, <2>4, <2>5, ForeIs
  <2>7. Regs(e, h)
    BY <2>3, <2>4, <2>6, RegsTwice
  <2>8. T(h) /\ h = fr[k + 1]
    BY <2>2, <2>3, <2>4, <2>5, <2>6, <2>7
  <2>. QED BY <2>8
<1>5. \A k \in 0 .. n : k \in U
  <2> HIDE DEF U
  <2>. QED BY <1>3, <1>4, UpTo
<1>6. ASSUME NEW k \in 1 .. n
      PROVE  /\ e.m0.color_host /\ ~e.m0.shade
                  => fr[k] = IF (32 - k) % 32 \in c.pattern THEN HostTaken(fr[k - 1]) ELSE fr[k - 1]
             /\ ~e.m0.color_host => fr[k] = IF e.m0.shade THEN iterate_shade(fr[k - 1]) ELSE fr[k - 1]
             /\ Iterated(fr[k - 1]).curr = fr[k].curr
  <2>1. PICK f : f = fr[k - 1]
    OBVIOUS
  <2>2. Engine(f) /\ Regs(e, f) /\ fr[k] = Fore(f, c, (32 - k) % 32)
    BY <1>2, <1>5, <2>1
  <2>3. f.m0 = e.m0
    BY <2>2 DEF Regs
  <2>4. /\ e.m0.color_host /\ ~e.m0.shade => fr[k] = IF (32 - k) % 32 \in c.pattern THEN HostTaken(f) ELSE f
        /\ ~e.m0.color_host => fr[k] = IF e.m0.shade THEN iterate_shade(f) ELSE f
    BY <2>2, <2>3 DEF Fore, Iterated
  <2>5. Iterated(f).curr = fr[k].curr
    <3>1. PICK a : a = Iterated(f)
      OBVIOUS
    <3>2. Engine(a)
      BY <2>2, <3>1, IteratedIs
    <3>3. HostTaken(a).curr = a.curr
      <4>1. a.curr \in [Channels -> Int] /\ a.color \in [Channels -> Int]
        BY <3>2 DEF Engine
      <4>. QED BY <3>2, <4>1, HostIs, LitIs
    <3>. QED BY <2>2, <3>1, <3>3 DEF Fore
  <2>. QED BY <2>1, <2>4, <2>5
<1>7. fr = [k \in 0 .. n |-> fr[k]]
  BY DEF Fronts
<1>. QED BY <1>2, <1>5, <1>6, <1>7 DEF Chain

LEMMA ChainExists == ASSUME NEW e, Engine(e), NEW c, NEW n \in Nat PROVE \E fr : Chain(e, c, n, fr)
  BY FrontsExist, FrontsAre

Unmixed(e) == ~(e.m0.shade /\ (e.m0.color_host \/ e.m1.fastclear))

Ports(e, c, n, port) ==
  port = [k \in 0 .. n |-> IF k = 0 THEN e
                           ELSE IF (32 - k) % 32 \in c.pattern THEN HostTaken(port[k - 1]) ELSE port[k - 1]]

LEMMA PortIs ==
  ASSUME NEW e, Engine(e), NEW c, NEW n \in Nat, NEW fr, Chain(e, c, n, fr), e.m0.color_host, ~e.m0.shade,
         NEW port, Ports(e, c, n, port)
  PROVE  port = fr
<1> DEFINE U == {k \in 0 .. n : port[k] = fr[k]}
<1>1. \A k \in 0 .. n : port[k] = IF k = 0 THEN e
                                  ELSE IF (32 - k) % 32 \in c.pattern THEN HostTaken(port[k - 1]) ELSE port[k - 1]
  BY DEF Ports
<1>2. 0 \in U
  BY <1>1 DEF Chain
<1>3. ASSUME NEW k \in 0 .. n - 1, k \in U PROVE k + 1 \in U
  <2>1. port[k + 1] = IF (32 - (k + 1)) % 32 \in c.pattern THEN HostTaken(port[k]) ELSE port[k]
    <3>1. k + 1 \in 0 .. n /\ k + 1 # 0 /\ (k + 1) - 1 = k
      OBVIOUS
    <3>. QED BY <1>1, <3>1
  <2>2. fr[k + 1] = IF (32 - (k + 1)) % 32 \in c.pattern THEN HostTaken(fr[k]) ELSE fr[k]
    <3>1. \A j \in 1 .. n : fr[j] = IF (32 - j) % 32 \in c.pattern THEN HostTaken(fr[j - 1]) ELSE fr[j - 1]
      BY DEF Chain
    <3>2. k + 1 \in 1 .. n /\ (k + 1) - 1 = k
      OBVIOUS
    <3>. QED BY <3>1, <3>2
  <2>. QED BY <1>3, <2>1, <2>2
<1>4. \A k \in 0 .. n : k \in U
  <2> HIDE DEF U
  <2>. QED BY <1>2, <1>3, UpTo
<1>5. port = [k \in 0 .. n |-> port[k]] /\ fr = [k \in 0 .. n |-> fr[k]]
  BY DEF Ports, Chain
<1>. QED BY <1>4, <1>5

LEMMA IteratorsAre ==
  ASSUME NEW e, Engine(e), NEW c, NEW n \in Nat, NEW fr, Chain(e, c, n, fr), ~e.m0.color_host
  PROVE  LaneIterators(e, n) = [e |-> fr[n], it |-> [k \in 1 .. n |-> fr[k].curr]]
<1>1. /\ fr[0] = e
      /\ \A k \in 1 .. n : fr[k] = IF e.m0.shade THEN iterate_shade(fr[k - 1]) ELSE fr[k - 1]
      /\ fr = [k \in 0 .. n |-> fr[k]]
  <2>1. fr[0] = e
    BY DEF Chain
  <2>2. \A k \in 1 .. n : fr[k] = IF e.m0.shade THEN iterate_shade(fr[k - 1]) ELSE fr[k - 1]
    BY DEF Chain
  <2>3. fr = [k \in 0 .. n |-> fr[k]]
    BY DEF Chain
  <2>. QED BY <2>1, <2>2, <2>3
<1>2. CASE e.m0.shade /\ e.m0.ciclamp
  <2> DEFINE at == CHOOSE at : at = [k \in 0 .. n |-> IF k = 0 THEN e ELSE iterate_shade(at[k - 1])]
  <2>1. fr = [k \in 0 .. n |-> IF k = 0 THEN e ELSE iterate_shade(fr[k - 1])]
    <3>1. \A k \in 0 .. n : fr[k] = IF k = 0 THEN e ELSE iterate_shade(fr[k - 1])
      <4>1. \A k \in 0 .. n : k = 0 \/ k \in 1 .. n
        OBVIOUS
      <4> HIDE DEF at
      <4>. QED BY <1>1, <1>2, <4>1
    <3>. QED BY <1>1, <3>1
  <2>2. at = [k \in 0 .. n |-> IF k = 0 THEN e ELSE iterate_shade(at[k - 1])]
    BY <2>1
  <2>3. LaneIterators(e, n) = [e |-> at[n], it |-> [k \in 1 .. n |-> at[k].curr]]
    BY <1>2, Zenon DEF LaneIterators
  <2> HIDE DEF at
  <2> DEFINE U == {k \in 0 .. n : at[k] = fr[k]}
  <2>4. \A k \in 0 .. n : at[k] = IF k = 0 THEN e ELSE iterate_shade(at[k - 1])
    BY <2>2
  <2>5. 0 \in U
    BY <1>1, <2>4
  <2>6. ASSUME NEW k \in 0 .. n - 1, k \in U PROVE k + 1 \in U
    <3>1. k + 1 \in 0 .. n /\ k + 1 \in 1 .. n /\ k + 1 # 0 /\ (k + 1) - 1 = k
      OBVIOUS
    <3>2. at[k + 1] = iterate_shade(at[k])
      BY <2>4, <3>1
    <3>3. fr[k + 1] = iterate_shade(fr[k])
      BY <1>1, <1>2, <3>1
    <3>. QED BY <2>6, <3>1, <3>2, <3>3
  <2>7. \A k \in 0 .. n : k \in U
    <3> HIDE DEF U
    <3>. QED BY <2>5, <2>6, UpTo
  <2>8. \A k \in 0 .. n : at[k] = fr[k]
    BY <2>7
  <2> HIDE DEF U
  <2>9. at[n] = fr[n] /\ \A k \in 1 .. n : at[k].curr = fr[k].curr
    BY <2>8
  <2>10. [k \in 1 .. n |-> at[k].curr] = [k \in 1 .. n |-> fr[k].curr]
    BY <2>9, Zenon
  <2>. QED BY <2>3, <2>9, <2>10
<1>3. CASE e.m0.shade /\ ~e.m0.ciclamp
  <2> DEFINE at(k) == [ch \in Channels |-> e.curr[ch] + k * e.slope[ch]]
             U == {k \in 0 .. n : fr[k] = [e EXCEPT !.curr = at(k)]}
  <2>1. e.curr \in [Channels -> Int] /\ e.slope \in [Channels -> Int]
    BY DEF Engine
  <2>2. 0 \in U
    <3>1. \A ch \in Channels : e.curr[ch] + 0 * e.slope[ch] = e.curr[ch]
      BY <2>1
    <3>2. at(0) = e.curr
      BY <2>1, <3>1
    <3>3. e = [e EXCEPT !.curr = e.curr]
      BY Zenon DEF Engine, EngineFields
    <3> HIDE DEF at
    <3>. QED BY <1>1, <3>2, <3>3
  <2>3. ASSUME NEW k \in 0 .. n - 1, k \in U PROVE k + 1 \in U
    <3>1. k + 1 \in 1 .. n /\ (k + 1) - 1 = k
      OBVIOUS
    <3>2. fr[k + 1] = iterate_shade(fr[k])
      BY <1>1, <1>3, <3>1
    <3>3. PICK f : f = [e EXCEPT !.curr = at(k)] /\ f = fr[k]
      BY <2>3
    <3>4. f.curr = at(k) /\ f.slope = e.slope /\ f.m0 = e.m0
      BY <3>3 DEF Engine, EngineFields
    <3>5. iterate_shade(f) = [f EXCEPT !.curr = [ch \in Channels |-> f.curr[ch] + f.slope[ch]]]
      BY <1>3, <3>4 DEF iterate_shade
    <3>6. [ch \in Channels |-> f.curr[ch] + f.slope[ch]] = at(k + 1)
      <4>1. ASSUME NEW ch \in Channels PROVE e.curr[ch] + k * e.slope[ch] + e.slope[ch] = e.curr[ch] + (k + 1) * e.slope[ch]
        <5>1. \A a, b \in Int : a + k * b + b = a + (k + 1) * b
          OBVIOUS
        <5>. QED BY <2>1, <5>1
      <4>. QED BY <3>4, <4>1
    <3>7. [f EXCEPT !.curr = at(k + 1)] = [e EXCEPT !.curr = at(k + 1)]
      <4> HIDE DEF at
      <4>. QED BY <3>3 DEF Engine, EngineFields
    <3>8. fr[k + 1] = [e EXCEPT !.curr = at(k + 1)]
      <4>1. iterate_shade(f) = [f EXCEPT !.curr = at(k + 1)]
        BY <3>5, <3>6, Zenon
      <4> HIDE DEF at
      <4>. QED BY <3>2, <3>3, <3>7, <4>1
    <3>9. k + 1 \in 0 .. n
      OBVIOUS
    <3> HIDE DEF at
    <3>. QED BY <3>8, <3>9
  <2>4. \A k \in 0 .. n : k \in U
    <3> HIDE DEF U
    <3>. QED BY <2>2, <2>3, UpTo
  <2>5. LaneIterators(e, n) = [e |-> [e EXCEPT !.curr = at(n)], it |-> [k \in 1 .. n |-> at(k)]]
    BY <1>3, Zenon DEF LaneIterators
  <2>6. \A k \in 0 .. n : fr[k] = [e EXCEPT !.curr = at(k)]
    BY <2>4
  <2>7. \A v : [e EXCEPT !.curr = v].curr = v
    BY DEF Engine, EngineFields
  <2>8. \A k \in 0 .. n : fr[k].curr = at(k)
    <3> HIDE DEF at
    <3>1. ASSUME NEW k \in 0 .. n PROVE fr[k].curr = at(k)
      <4>1. fr[k] = [e EXCEPT !.curr = at(k)]
        BY <2>6
      <4>. QED BY <4>1, <2>7
    <3>. QED BY <3>1
  <2>9. fr[n] = [e EXCEPT !.curr = at(n)]
    <3> HIDE DEF at
    <3>. QED BY <2>6
  <2>10. [k \in 1 .. n |-> fr[k].curr] = [k \in 1 .. n |-> at(k)]
    <3> HIDE DEF at
    <3>. QED BY <2>8
  <2> HIDE DEF at
  <2>. QED BY <2>5, <2>9, <2>10
<1>4. CASE ~e.m0.shade
  <2> DEFINE U == {k \in 0 .. n : fr[k] = e}
  <2>1. 0 \in U
    BY <1>1
  <2>2. ASSUME NEW k \in 0 .. n - 1, k \in U PROVE k + 1 \in U
    <3>1. k + 1 \in 1 .. n /\ (k + 1) - 1 = k
      OBVIOUS
    <3>. QED BY <1>1, <1>4, <2>2, <3>1
  <2>3. \A k \in 0 .. n : k \in U
    <3> HIDE DEF U
    <3>. QED BY <2>1, <2>2, UpTo
  <2>. QED BY <1>4, <2>3 DEF LaneIterators
<1>. QED BY <1>2, <1>3, <1>4

\* The colours of the lanes.
Tints(fr, c, n, x0, y) == [k \in 1 .. n |-> Tint(fr[k - 1], c, x0 + k - 1, y, (32 - k) % 32)]

\* A pixel's colour from its iterators is the lane's, dithered or not.
LEMMA ShadeIs ==
  ASSUME NEW e, Engine(e), NEW it \in [Channels -> Int], NEW x \in Coords, NEW y \in Int
  PROVE  rgb_from(e, it, x, y)
           = IF e.m1.rgb /\ e.m1.dither THEN dither_lane(e, it, Bayer(x, y)) ELSE rgb_from(e, it, I16(x), y)
<1>1. x \in Int
  BY SizeAssumption DEF Coords
<1>2. I16(x) = x
  BY <1>1, I16At
<1>3. Bayer(x, y) \in Int
  <2>1. x % 4 \in 0 .. 3 /\ y % 4 \in 0 .. 3
    BY <1>1
  <2>2. PICK a \in 1 .. 4, b \in 1 .. 4 : a = (x % 4) + 1 /\ b = (y % 4) + 1
    BY <2>1
  <2>3. Bayer(x, y) = <<<<0, 12, 3, 15>>, <<8, 4, 11, 7>>, <<2, 14, 1, 13>>, <<10, 6, 9, 5>>>>[a][b]
    BY <2>2, Zenon DEF Bayer
  <2>4. a \in {1, 2, 3, 4} /\ b \in {1, 2, 3, 4}
    BY <2>2
  <2>. QED BY <2>3, <2>4
<1>4. CASE e.m1.rgb /\ e.m1.dither
  <2> DEFINE bay == Bayer(x, y)
  <2>1. dither_lane(e, it, bay)
          = Shl(NumBits(ShadeClamp(it.alpha), 8), 24)
              \cup DitherColor(e.m1.depth, ShadeClamp(it.red), ShadeClamp(it.green), ShadeClamp(it.blue), bay)
    <3> HIDE DEF bay
    <3>1. bay \in Int
      BY <1>3 DEF bay
    <3>. QED BY <3>1, DitherLane
  <2>2. rgb_from(e, it, x, y)
          = Shl(NumBits(ShadeClamp(it.alpha), 8), 24)
              \cup DitherColor(e.m1.depth, ShadeClamp(it.red), ShadeClamp(it.green), ShadeClamp(it.blue), bay)
    BY <1>4 DEF rgb_from
  <2> HIDE DEF bay
  <2>3. rgb_from(e, it, x, y) = dither_lane(e, it, bay)
    BY <2>1, <2>2
  <2>. QED BY <1>4, <2>3 DEF bay
<1>. QED BY <1>2, <1>4

LEMMA LaneColorsIs ==
  ASSUME NEW e, Engine(e), Unmixed(e), NEW c, c.shaded = ((e.m0.shade \/ e.m1.rgb) /\ ~e.m1.fastclear),
         NEW n \in Nat, NEW fr, Chain(e, c, n, fr), NEW x0 \in Int, NEW y \in Int,
         \A k \in 1 .. n : x0 + k - 1 \in Coords
  PROVE  LaneColors(e, c, n, x0, y) = [e |-> fr[n], col |-> Tints(fr, c, n, x0, y)]
<1> DEFINE pat(k) == (32 - k) % 32 \in c.pattern
           its == LaneIterators(e, n)
           port == CHOOSE port : port = [k \in 0 .. n |-> IF k = 0 THEN e ELSE IF pat(k) THEN HostTaken(port[k - 1]) ELSE port[k - 1]]
           col(k) == IF e.m0.color_host THEN HostColor(port[k - 1])
                     ELSE IF ~c.shaded THEN c.color
                     ELSE IF e.m1.rgb /\ e.m1.dither THEN dither_lane(e, its.it[k], Bayer(x0 + k - 1, y))
                     ELSE rgb_from(e, its.it[k], I16(x0 + k - 1), y)
<1>1. LaneColors(e, c, n, x0, y)
        = [e |-> IF e.m0.color_host THEN port[n] ELSE IF c.shaded THEN its.e ELSE e,
           col |-> [k \in 1 .. n |-> IF pat(k) THEN col(k) ELSE e.color_back]]
  BY Zenon DEF LaneColors
<1>2. \A k \in 0 .. n : Engine(fr[k]) /\ Regs(e, fr[k])
  BY DEF Chain
<1>3. \A k \in 1 .. n : fr[k - 1].color_back = e.color_back /\ fr[k - 1].m0 = e.m0 /\ Engine(fr[k - 1]) /\ Regs(e, fr[k - 1])
                        /\ Iterated(fr[k - 1]).curr = fr[k].curr /\ fr[k].curr \in [Channels -> Int]
  <2>1. \A k \in 1 .. n : Iterated(fr[k - 1]).curr = fr[k].curr
    BY DEF Chain
  <2>2. ASSUME NEW k \in 1 .. n
        PROVE  /\ fr[k - 1].color_back = e.color_back /\ fr[k - 1].m0 = e.m0
               /\ Engine(fr[k - 1]) /\ Regs(e, fr[k - 1]) /\ fr[k].curr \in [Channels -> Int]
    <3>1. PICK f, g : f = fr[k - 1] /\ g = fr[k]
      OBVIOUS
    <3>2. Engine(f) /\ Regs(e, f) /\ Engine(g)
      BY <1>2, <3>1
    <3>3. f.color_back = e.color_back /\ f.m0 = e.m0 /\ g.curr \in [Channels -> Int]
      BY <3>2 DEF Regs, Engine
    <3>. QED BY <3>1, <3>2, <3>3
  <2>. QED BY <2>1, <2>2
<1>4. CASE e.m0.color_host
  <2>1. ~e.m0.shade
    BY <1>4 DEF Unmixed
  <2>2. Ports(e, c, n, fr)
    <3>1. \A k \in 0 .. n : k = 0 \/ k \in 1 .. n
      OBVIOUS
    <3>2. \A k \in 0 .. n : fr[k] = IF k = 0 THEN e ELSE IF (32 - k) % 32 \in c.pattern THEN HostTaken(fr[k - 1]) ELSE fr[k - 1]
      BY <1>4, <2>1, <3>1 DEF Chain
    <3>3. fr = [k \in 0 .. n |-> fr[k]]
      BY DEF Chain
    <3>. QED BY <3>2, <3>3 DEF Ports
  <2>3. Ports(e, c, n, port)
    <3>1. port = [k \in 0 .. n |-> IF k = 0 THEN e ELSE IF pat(k) THEN HostTaken(port[k - 1]) ELSE port[k - 1]]
      <4>1. fr = [k \in 0 .. n |-> IF k = 0 THEN e ELSE IF pat(k) THEN HostTaken(fr[k - 1]) ELSE fr[k - 1]]
        BY <2>2 DEF Ports
      <4> HIDE DEF pat
      <4>. QED BY <4>1
    <3> HIDE DEF port
    <3>. QED BY <3>1 DEF Ports
  <2> HIDE DEF port, its, col
  <2>4. \A k \in 0 .. n : port[k] = fr[k]
    <3>1. PICK p : p = port
      OBVIOUS
    <3>2. Ports(e, c, n, p)
      BY <2>3, <3>1
    <3>3. p = fr
      BY <1>4, <2>1, <3>2, PortIs
    <3>. QED BY <3>1, <3>3
  <2>5. ASSUME NEW k \in 1 .. n
        PROVE  (IF pat(k) THEN col(k) ELSE e.color_back) = Tint(fr[k - 1], c, x0 + k - 1, y, (32 - k) % 32)
    <3>1. PICK f : f = fr[k - 1]
      OBVIOUS
    <3>2. f.m0 = e.m0 /\ f.color_back = e.color_back
      BY <1>3, <3>1
    <3>3. Iterated(f) = f
      BY <2>1, <3>2 DEF Iterated
    <3>4. port[k - 1] = f
      BY <2>4, <3>1
    <3>5. col(k) = HostColor(f)
      BY <1>4, <3>4 DEF col
    <3> HIDE DEF col
    <3>. QED BY <1>4, <3>1, <3>2, <3>3, <3>5 DEF Tint
  <2>6. [k \in 1 .. n |-> IF pat(k) THEN col(k) ELSE e.color_back] = Tints(fr, c, n, x0, y)
    <3> HIDE DEF pat, col
    <3>. QED BY <2>5 DEF Tints
  <2>7. port[n] = fr[n]
    BY <2>4
  <2> HIDE DEF pat, col, its
  <2>8. LaneColors(e, c, n, x0, y) = [e |-> port[n], col |-> [k \in 1 .. n |-> IF pat(k) THEN col(k) ELSE e.color_back]]
    BY <1>1, <1>4
  <2>. QED BY <2>6, <2>7, <2>8
<1>5. CASE ~e.m0.color_host
  <2>1. its = [e |-> fr[n], it |-> [k \in 1 .. n |-> fr[k].curr]]
    BY <1>5, IteratorsAre
  <2>2. its.e = fr[n] /\ \A k \in 1 .. n : its.it[k] = fr[k].curr
    <3> HIDE DEF its
    <3>. QED BY <2>1
  <2> HIDE DEF its
  <2>3. ~c.shaded => fr[n] = e
    <3>1. ~c.shaded => ~e.m0.shade
      BY DEF Unmixed
    <3>2. ASSUME ~e.m0.shade PROVE fr[n] = e
      <4> DEFINE U == {k \in 0 .. n : fr[k] = e}
      <4>1. 0 \in U
        BY DEF Chain
      <4>2. ASSUME NEW k \in 0 .. n - 1, k \in U PROVE k + 1 \in U
        <5>1. k + 1 \in 1 .. n /\ (k + 1) - 1 = k
          OBVIOUS
        <5>2. \A j \in 1 .. n : fr[j] = fr[j - 1]
          BY <1>5, <3>2 DEF Chain
        <5>. QED BY <4>2, <5>1, <5>2
      <4>3. \A k \in 0 .. n : k \in U
        <5> HIDE DEF U
        <5>. QED BY <4>1, <4>2, UpTo
      <4>. QED BY <4>3
    <3>. QED BY <3>1, <3>2
  <2>4. ASSUME NEW k \in 1 .. n
        PROVE  (IF pat(k) THEN col(k) ELSE e.color_back) = Tint(fr[k - 1], c, x0 + k - 1, y, (32 - k) % 32)
    <3>1. PICK f, it, x : f = fr[k - 1] /\ it = fr[k].curr /\ x = x0 + k - 1
      OBVIOUS
    <3>2. f.m0 = e.m0 /\ f.color_back = e.color_back /\ Engine(f) /\ Regs(e, f) /\ Iterated(f).curr = it
          /\ it \in [Channels -> Int] /\ x \in Coords
      BY <1>3, <3>1
    <3>3. col(k) = IF ~c.shaded THEN c.color
                   ELSE IF e.m1.rgb /\ e.m1.dither THEN dither_lane(e, it, Bayer(x, y))
                   ELSE rgb_from(e, it, I16(x), y)
      BY <1>5, <2>2, <3>1
    <3>4. rgb_from(f, it, x, y) = rgb_from(e, it, x, y)
      BY <3>2, RegsView
    <3>5. rgb_from(e, it, x, y)
            = IF e.m1.rgb /\ e.m1.dither THEN dither_lane(e, it, Bayer(x, y)) ELSE rgb_from(e, it, I16(x), y)
      BY <3>2, ShadeIs
    <3>6. col(k) = IF c.shaded THEN rgb_from(f, Iterated(f).curr, x, y) ELSE c.color
      BY <3>2, <3>3, <3>4, <3>5
    <3> HIDE DEF col
    <3>. QED BY <1>5, <3>1, <3>2, <3>6 DEF Tint
  <2>5. [k \in 1 .. n |-> IF pat(k) THEN col(k) ELSE e.color_back] = Tints(fr, c, n, x0, y)
    <3> HIDE DEF pat, col
    <3>. QED BY <2>4 DEF Tints
  <2> HIDE DEF pat, col, port
  <2>. QED BY <1>1, <1>5, <2>2, <2>3, <2>5
<1>. QED BY <1>4, <1>5

\* Lanes 1 .. k that draw.
Fired(c, k) == {i \in 1 .. k : (32 - i) % 32 \in c.pattern \/ c.opaque}

LEMMA KernelIs ==
  ASSUME NEW e, Engine(e), Unmixed(e), NEW c, c.shaded = ((e.m0.shade \/ e.m1.rgb) /\ ~e.m1.fastclear),
         NEW n \in Nat, NEW fr, Chain(e, c, n, fr), NEW x0 \in Int, NEW y \in Int,
         \A k \in 1 .. n : x0 + k - 1 \in Coords
  PROVE  SpanKernel(e, c, n, x0, y)
           = Paint(fr[n], e.pixels + Cardinality(Fired(c, n)), RowOf(e, c, x0, y, Tints(fr, c, n, x0, y), n))
<1> DEFINE d == e.rb.dest
           lane(p) == p[1] - (x0 + e.window.x - Bias) + 1
           put(old, color) ==
             LET v == Lanes(e.rb, color)
             IN  rb_store(e.rb, old, IF e.rb.fast_clear THEN v
                                     ELSE LogicTable(e.rb.logicop, v, rb_read(e.rb, old)))
           col == Tints(fr, c, n, x0, y)
<1>1. PICK g : g = fr[n] /\ Engine(g) /\ g.fb = e.fb /\ g.pixels = e.pixels
  BY DEF Chain
<1>2. LaneColors(e, c, n, x0, y) = [e |-> g, col |-> col]
  <2>1. LaneColors(e, c, n, x0, y) = [e |-> fr[n], col |-> Tints(fr, c, n, x0, y)]
    BY LaneColorsIs, SMTT(20)
  <2>. QED BY <1>1, <2>1
<1> HIDE DEF col
<1>3. LaneColors(e, c, n, x0, y).e = g /\ LaneColors(e, c, n, x0, y).col = col
  BY <1>2
<1> DEFINE drawn == LaneColors(e, c, n, x0, y)
           Row(b, q) == [p \in FbXY |-> IF p[2] = WinY(e, y) /\ lane(p) \in 1 .. n /\ LanePasses(e, c, lane(p), x0, y)
                                        THEN put(b[p], q[lane(p)]) ELSE b[p]]
<1>4. SpanKernel(e, c, n, x0, y)
        = [drawn.e EXCEPT !.pixels = drawn.e.pixels + Cardinality(Fired(c, n)),
                          !.fb[d] = Row(drawn.e.fb[d], drawn.col)]
  <2> HIDE DEF drawn
  <2>. QED BY Zenon DEF SpanKernel, Fired, drawn
<1>5. SpanKernel(e, c, n, x0, y) = [g EXCEPT !.pixels = e.pixels + Cardinality(Fired(c, n)), !.fb[d] = Row(e.fb[d], col)]
  <2> HIDE DEF Row
  <2>. QED BY <1>1, <1>3, <1>4
<1>6. Row(e.fb[d], col) = Words(e, c, x0, y, col, n)
  <2>1. ASSUME NEW p \in FbXY PROVE \A cc : put(e.fb[d][p], cc) = rb_write(e.rb, e.fb[d][p], cc)
    <3>1. e.fb[d][p] \in SUBSET Bits24 /\ e.rb.src_shift \in Nat /\ e.rb.logicop \in 0 .. 15
      BY DEF Engine, FrameBuffer
    <3>. QED BY <3>1, WriteIn
  <2> HIDE DEF put
  <2>. QED BY <2>1 DEF Words
<1>7. [g EXCEPT !.pixels = e.pixels + Cardinality(Fired(c, n)), !.fb[d] = Words(e, c, x0, y, col, n)]
        = Paint(g, e.pixels + Cardinality(Fired(c, n)), RowOf(e, c, x0, y, col, n))
  <2>1. \A w : [g EXCEPT !.pixels = e.pixels + Cardinality(Fired(c, n)), !.fb[d] = w]
                 = [g EXCEPT !.pixels = e.pixels + Cardinality(Fired(c, n)), !.fb = [e.fb EXCEPT ![d] = w]]
    BY <1>1 DEF Engine, EngineFields
  <2>. QED BY <2>1 DEF Paint, RowOf
<1> HIDE DEF Row
<1>. QED BY <1>1, <1>5, <1>6, <1>7 DEF col

LEMMA FiredStep ==
  ASSUME NEW c, NEW k \in Nat
  PROVE  /\ Cardinality(Fired(c, k)) \in Nat
         /\ Cardinality(Fired(c, 0)) = 0
         /\ Cardinality(Fired(c, k + 1))
              = IF (31 - k) % 32 \in c.pattern \/ c.opaque THEN Cardinality(Fired(c, k)) + 1 ELSE Cardinality(Fired(c, k))
<1> DEFINE F(i) == (32 - i) % 32 \in c.pattern \/ c.opaque
<1>1. Fired(c, k) = {i \in 1 .. k : F(i)} /\ Fired(c, k + 1) = {i \in 1 .. k + 1 : F(i)} /\ Fired(c, 0) = {i \in 1 .. 0 : F(i)}
  BY DEF Fired
<1>2. F(k + 1) <=> (31 - k) % 32 \in c.pattern \/ c.opaque
  <2>1. 32 - (k + 1) = 31 - k
    OBVIOUS
  <2>. QED BY <2>1
<1> HIDE DEF F
<1>3. IsFiniteSet(Fired(c, k))
  <2>1. IsFiniteSet(1 .. k)
    BY FS_Interval
  <2>2. Fired(c, k) \subseteq 1 .. k
    BY <1>1
  <2>. QED BY <2>1, <2>2, FS_Subset
<1>4. Cardinality(Fired(c, 0)) = 0
  <2>1. Fired(c, 0) = {}
    BY <1>1
  <2>. QED BY <2>1, FS_EmptySet
<1>5. CASE F(k + 1)
  <2>1. Fired(c, k + 1) = Fired(c, k) \cup {k + 1} /\ k + 1 \notin Fired(c, k)
    BY <1>1, <1>5
  <2>. QED BY <1>2, <1>3, <1>4, <1>5, <2>1, FS_AddElement, FS_CardinalityType
<1>6. CASE ~F(k + 1)
  <2>1. Fired(c, k + 1) = Fired(c, k)
    BY <1>1, <1>6
  <2>. QED BY <1>2, <1>3, <1>4, <1>6, <2>1, FS_CardinalityType
<1>. QED BY <1>5, <1>6

LEMMA LaneCountIs ==
  ASSUME NEW c, c.prim_end_x \in Coords, c.end_x \in Coords, NEW x0 \in Coords, NEW n, n = LaneCount(c, x0)
  PROVE  /\ n \in 1 .. 2 * Half
         /\ x0 + n - 1 < Half
              => /\ \A k \in 1 .. n - 1 : \A s : s.x = x0 + k => MorePixels(c, s)
                 /\ \A s : s.x = I16(x0 + n) => ~MorePixels(c, s)
<1> DEFINE k(t) == IF t = x0 THEN 2 * Half ELSE (t - x0) % (2 * Half)
<1>1. Half \in Nat /\ Half > 3 /\ \A x : x \in Coords <=> x \in Int /\ -Half <= x /\ x <= Half - 1
  BY SizeAssumption DEF Coords
<1>2. ASSUME NEW t \in Coords PROVE k(t) = IF t > x0 THEN t - x0 ELSE t - x0 + 2 * Half
  <2>1. PICK m \in Nat : m = 2 * Half /\ m > 0
    BY <1>1
  <2>2. t - x0 \in Int /\ (t > x0 => t - x0 \in 0 .. m - 1) /\ (t < x0 => t - x0 \in -m .. -1)
    BY <1>1, <2>1
  <2>3. (t > x0 => (t - x0) % m = t - x0) /\ (t < x0 => (t - x0) % m = t - x0 + m)
    BY <2>1, <2>2, RemAt
  <2>. QED BY <1>1, <2>1, <2>3
<1>3. n = IF ~c.stop_on_x THEN 1 ELSE IF k(c.prim_end_x) < k(c.end_x) THEN k(c.prim_end_x) ELSE k(c.end_x)
  BY DEF LaneCount
<1> HIDE DEF k
<1>4. PICK p, q \in Coords : p = c.prim_end_x /\ q = c.end_x
  OBVIOUS
<1>5. k(p) = (IF p > x0 THEN p - x0 ELSE p - x0 + 2 * Half) /\ k(q) = (IF q > x0 THEN q - x0 ELSE q - x0 + 2 * Half)
  BY <1>2
<1>6. n \in 1 .. 2 * Half
  BY <1>1, <1>3, <1>4, <1>5
<1>7. ASSUME x0 + n - 1 < Half, NEW i \in 1 .. n - 1
      PROVE  x0 + i # p /\ x0 + i # q /\ c.stop_on_x
  BY <1>1, <1>3, <1>4, <1>5, <1>7
<1>8. ASSUME x0 + n - 1 < Half
      PROVE  I16(x0 + n) = p \/ I16(x0 + n) = q \/ ~c.stop_on_x
  <2>1. x0 + n \in Int
    BY <1>1, <1>6
  <2>2. x0 + n < Half => I16(x0 + n) = x0 + n
    BY <1>1, <1>6, <2>1, I16At
  <2>3. x0 + n = Half => I16(x0 + n) = -Half
    <3>1. Half \in Half .. 3 * Half - 1
      BY <1>1
    <3>. QED BY <1>1, <3>1, I16At
  <2>4. x0 + n < Half \/ x0 + n = Half
    BY <1>1, <1>6, <1>8
  <2>. QED BY <1>1, <1>3, <1>4, <1>5, <1>8, <2>2, <2>3, <2>4
<1>. QED BY <1>4, <1>6, <1>7, <1>8 DEF MorePixels

\* A segment of n lanes from x0 that the kernel applies to.
SpanOf(e, c, n, fr, x0, y) ==
  /\ Engine(e) /\ Unmixed(e) /\ c.shaded = ((e.m0.shade \/ e.m1.rgb) /\ ~e.m1.fastclear) /\ c.dx = 1
  /\ n \in Nat /\ Chain(e, c, n, fr) /\ x0 \in Coords /\ y \in Int
  /\ \A k \in 1 .. n : x0 + k - 1 \in Coords /\ x0 + k - 1 + e.window.x - Bias \in Coords

\* The per-pixel loop after k of them.
After(e, c, n, fr, x0, y, k) ==
  [e |-> Paint(fr[k], e.pixels + Cardinality(Fired(c, k)), RowOf(e, c, x0, y, Tints(fr, c, n, x0, y), k)),
   x |-> I16(x0 + k), bit |-> (31 - k) % 32]

LEMMA AfterZero ==
  ASSUME NEW e, NEW c, NEW n, NEW fr, NEW x0, NEW y, SpanOf(e, c, n, fr, x0, y)
  PROVE  After(e, c, n, fr, x0, y, 0) = [e |-> e, x |-> x0, bit |-> 31]
<1>1. Engine(e) /\ fr[0] = e /\ x0 \in Int /\ x0 \in Coords
  BY SizeAssumption DEF SpanOf, Chain, Coords
<1>2. RowOf(e, c, x0, y, Tints(fr, c, n, x0, y), 0) = e.fb
  BY <1>1, RowZero
<1>3. e.pixels + Cardinality(Fired(c, 0)) = e.pixels
  <2>1. Cardinality(Fired(c, 0)) = 0
    BY FiredStep
  <2>. QED BY <1>1, <2>1 DEF Engine
<1>4. Paint(e, e.pixels, e.fb) = e
  BY <1>1 DEF Paint, Engine, EngineFields
<1>5. x0 + 0 = x0 /\ I16(x0) = x0 /\ (31 - 0) % 32 = 31
  BY <1>1, I16At
<1>. QED BY <1>1, <1>2, <1>3, <1>4, <1>5 DEF After

LEMMA AfterStep ==
  ASSUME NEW e, NEW c, NEW n, NEW fr, NEW x0, NEW y, SpanOf(e, c, n, fr, x0, y), NEW k \in 0 .. n - 1
  PROVE  NextPixel(c, y, After(e, c, n, fr, x0, y, k)) = After(e, c, n, fr, x0, y, k + 1)
<1> DEFINE col == Tints(fr, c, n, x0, y)
           b == RowOf(e, c, x0, y, col, k)
           px == e.pixels + Cardinality(Fired(c, k))
           bit == (31 - k) % 32
           fired == bit \in c.pattern \/ c.opaque
<1>1. /\ Engine(e) /\ n \in Nat /\ x0 \in Int /\ x0 + k \in Coords /\ x0 + k + e.window.x - Bias \in Coords /\ y \in Int
      /\ c.dx = 1 /\ k \in Nat /\ k \in 0 .. n /\ k + 1 \in 1 .. n
  <2>1. n \in Nat /\ k + 1 \in 1 .. n /\ (k + 1) - 1 = k /\ x0 \in Int
    BY SizeAssumption DEF SpanOf, Coords
  <2>2. \A i \in 1 .. n : x0 + i - 1 \in Coords /\ x0 + i - 1 + e.window.x - Bias \in Coords
    BY DEF SpanOf
  <2>3. x0 + (k + 1) - 1 = x0 + k
    BY <2>1
  <2>4. x0 + k \in Coords /\ x0 + k + e.window.x - Bias \in Coords
    BY <2>1, <2>2, <2>3
  <2>. QED BY <2>1, <2>4 DEF SpanOf
<1>2. PICK f : f = fr[k] /\ Engine(f) /\ Regs(e, f) /\ fr[k + 1] = Fore(f, c, bit)
  <2>1. \A i \in 0 .. n : Engine(fr[i]) /\ Regs(e, fr[i])
    BY DEF SpanOf, Chain
  <2>2. \A i \in 1 .. n : fr[i] = Fore(fr[i - 1], c, (32 - i) % 32)
    BY DEF SpanOf, Chain
  <2>3. (k + 1) - 1 = k /\ 32 - (k + 1) = 31 - k
    BY <1>1
  <2>4. fr[k + 1] = Fore(fr[k], c, bit)
    BY <1>1, <2>2, <2>3
  <2>. QED BY <1>1, <2>1, <2>4
<1>3. px \in Nat /\ b \in FrameBuffer
  BY <1>1, FiredStep, RowIn DEF Engine
<1>4. col[k + 1] = Tint(f, c, x0 + k, y, bit)
  <2>1. (k + 1) - 1 = k /\ 32 - (k + 1) = 31 - k /\ x0 + (k + 1) - 1 = x0 + k
    BY <1>1
  <2>. QED BY <1>1, <1>2, <2>1 DEF Tints
<1>5. PixelStep(Paint(f, px, b), c, x0 + k, y, bit)
        = IF fired THEN Paint(Fore(f, c, bit), px + 1, Stroke(e, b, x0 + k, y, col[k + 1])) ELSE Paint(Fore(f, c, bit), px, b)
  <2> HIDE DEF px, b, bit, col
  <2>1. PixelStep(Paint(f, px, b), c, x0 + k, y, bit)
          = IF fired THEN Paint(Fore(f, c, bit), px + 1, Stroke(f, b, x0 + k, y, Tint(f, c, x0 + k, y, bit)))
            ELSE Paint(Fore(f, c, bit), px, b)
    <3>1. PixelStep(Paint(f, px, b), c, x0 + k, y, bit) = Painted(f, px, b, c, x0 + k, y, bit)
      BY <1>2, <1>3, PixelIs
    <3>. QED BY <3>1 DEF Painted
  <2>2. Stroke(f, b, x0 + k, y, col[k + 1]) = Stroke(e, b, x0 + k, y, col[k + 1])
    BY <1>2, StrokeRegs
  <2>. QED BY <1>4, <2>1, <2>2
<1>6. RowOf(e, c, x0, y, col, k + 1) = IF fired THEN Stroke(e, b, x0 + k, y, col[k + 1]) ELSE b
  <2> HIDE DEF col
  <2>. QED BY <1>1, RowStep
<1>7. e.pixels + Cardinality(Fired(c, k + 1)) = IF fired THEN px + 1 ELSE px
  <2>1. Cardinality(Fired(c, k + 1)) = IF fired THEN Cardinality(Fired(c, k)) + 1 ELSE Cardinality(Fired(c, k))
    BY <1>1, FiredStep
  <2>2. Cardinality(Fired(c, k)) \in Nat /\ e.pixels \in Nat
    BY <1>1, FiredStep DEF Engine
  <2> HIDE DEF fired
  <2>. QED BY <2>1, <2>2
<1>8. I16(x0 + k) = x0 + k /\ I16(x0 + k + c.dx) = I16(x0 + (k + 1)) /\ (bit - 1) % 32 = (31 - (k + 1)) % 32
  <2>1. x0 + k + c.dx = x0 + (k + 1)
    BY <1>1
  <2>2. (bit - 1) % 32 = (31 - (k + 1)) % 32
    BY <1>1
  <2>. QED BY <1>1, <2>1, <2>2, I16At
<1> HIDE DEF fired, b, px, bit, col
<1>9. After(e, c, n, fr, x0, y, k) = [e |-> Paint(f, px, b), x |-> x0 + k, bit |-> bit]
  BY <1>2, <1>8 DEF After, px, b, bit, col
<1>10. NextPixel(c, y, After(e, c, n, fr, x0, y, k))
         = [e |-> PixelStep(Paint(f, px, b), c, x0 + k, y, bit), x |-> I16(x0 + (k + 1)), bit |-> (31 - (k + 1)) % 32]
  BY <1>8, <1>9 DEF NextPixel
<1>11. After(e, c, n, fr, x0, y, k + 1)
         = [e |-> Paint(Fore(f, c, bit), IF fired THEN px + 1 ELSE px, IF fired THEN Stroke(e, b, x0 + k, y, col[k + 1]) ELSE b),
            x |-> I16(x0 + (k + 1)), bit |-> (31 - (k + 1)) % 32]
  BY <1>2, <1>6, <1>7 DEF After, col
<1>. QED BY <1>5, <1>10, <1>11

\* The loop's function.
PixelLoop(e, c, x, y, at) ==
  at = [k \in 1 .. 2 * Half |->
          IF k = 1 THEN NextPixel(c, y, [e |-> e, x |-> x, bit |-> 31])
          ELSE LET s == at[k - 1] IN IF MorePixels(c, s) THEN NextPixel(c, y, s) ELSE s]

LEMMA PixelLoopIs ==
  ASSUME NEW e, NEW c, NEW x, NEW y, NEW at, PixelLoop(e, c, x, y, at), ~c.lr_abort
  PROVE  Pixels(e, c, x, y) = [e |-> at[2 * Half].e, x |-> at[2 * Half].x]
<1> DEFINE a == CHOOSE a : PixelLoop(e, c, x, y, a)
<1>1. PixelLoop(e, c, x, y, a)
  OBVIOUS
<1>2. Pixels(e, c, x, y) = [e |-> a[2 * Half].e, x |-> a[2 * Half].x]
  BY DEF Pixels, PixelLoop
<1> HIDE DEF a
<1>3. \A k \in 1 .. 2 * Half : a[k] = IF k = 1 THEN NextPixel(c, y, [e |-> e, x |-> x, bit |-> 31])
                               ELSE IF MorePixels(c, a[k - 1]) THEN NextPixel(c, y, a[k - 1]) ELSE a[k - 1]
  BY <1>1 DEF PixelLoop
<1>4. \A k \in 1 .. 2 * Half : at[k] = IF k = 1 THEN NextPixel(c, y, [e |-> e, x |-> x, bit |-> 31])
                               ELSE IF MorePixels(c, at[k - 1]) THEN NextPixel(c, y, at[k - 1]) ELSE at[k - 1]
  BY DEF PixelLoop
<1> DEFINE U == {k \in 1 .. 2 * Half : a[k] = at[k]}
<1>5. PICK m \in Nat : m = 2 * Half /\ m > 1
  BY SizeAssumption
<1>6. 1 \in U
  BY <1>3, <1>4, <1>5
<1>7. ASSUME NEW k \in 1 .. m - 1, k \in U PROVE k + 1 \in U
  <2>1. k + 1 \in 1 .. 2 * Half /\ k + 1 # 1 /\ (k + 1) - 1 = k
    BY <1>5
  <2>2. a[k + 1] = IF MorePixels(c, a[k]) THEN NextPixel(c, y, a[k]) ELSE a[k]
    BY <1>3, <2>1
  <2>3. at[k + 1] = IF MorePixels(c, at[k]) THEN NextPixel(c, y, at[k]) ELSE at[k]
    BY <1>4, <2>1
  <2>. QED BY <1>7, <2>1, <2>2, <2>3
<1>8. \A k \in 1 .. m : k \in U
  <2> HIDE DEF U
  <2>. QED BY <1>5, <1>6, <1>7, UpTo
<1>9. a[2 * Half] = at[2 * Half]
  BY <1>5, <1>8
<1>. QED BY <1>2, <1>9

LEMMA PixelsAre ==
  ASSUME NEW e, NEW c, NEW n, NEW fr, NEW x0, NEW y, SpanOf(e, c, n, fr, x0, y), ~c.lr_abort,
         c.prim_end_x \in Coords, c.end_x \in Coords, n = LaneCount(c, x0), x0 + n - 1 < Half
  PROVE  Pixels(e, c, x0, y) = [e |-> After(e, c, n, fr, x0, y, n).e, x |-> I16(x0 + n)]
<1> DEFINE St(k) == After(e, c, n, fr, x0, y, k)
           w == [k \in 1 .. 2 * Half |-> IF k < n THEN St(k) ELSE St(n)]
<1>1. /\ x0 \in Coords /\ x0 \in Int /\ n \in 1 .. 2 * Half /\ Half \in Nat
      /\ \A k \in 1 .. n - 1 : \A s : s.x = x0 + k => MorePixels(c, s)
      /\ \A s : s.x = I16(x0 + n) => ~MorePixels(c, s)
  <2>1. x0 \in Coords /\ x0 \in Int /\ Half \in Nat
    BY SizeAssumption DEF SpanOf, Coords
  <2>. QED BY <2>1, LaneCountIs
<1>2. ASSUME NEW k \in 1 .. n - 1 PROVE MorePixels(c, St(k))
  <2>1. x0 + k \in Coords
    <3>1. \A i \in 1 .. n : x0 + i - 1 \in Coords
      BY DEF SpanOf
    <3>2. k + 1 \in 1 .. n /\ x0 + (k + 1) - 1 = x0 + k
      BY <1>1
    <3>. QED BY <3>1, <3>2
  <2>2. I16(x0 + k) = x0 + k
    BY <1>1, <2>1, I16At
  <2>3. St(k).x = x0 + k
    BY <2>2 DEF After
  <2> HIDE DEF St
  <2>. QED BY <1>1, <2>3
<1>3. ~MorePixels(c, St(n)) /\ St(n).x = I16(x0 + n)
  <2>1. St(n).x = I16(x0 + n)
    BY DEF After
  <2> HIDE DEF St
  <2>. QED BY <1>1, <2>1
<1>4. \A k \in 0 .. n - 1 : NextPixel(c, y, St(k)) = St(k + 1)
  BY AfterStep
<1>5. St(0) = [e |-> e, x |-> x0, bit |-> 31]
  BY AfterZero
<1> HIDE DEF St
<1>6. ASSUME NEW k \in 1 .. 2 * Half
      PROVE  w[k] = IF k = 1 THEN NextPixel(c, y, [e |-> e, x |-> x0, bit |-> 31])
                    ELSE IF MorePixels(c, w[k - 1]) THEN NextPixel(c, y, w[k - 1]) ELSE w[k - 1]
  <2>1. CASE k = 1
    <3>1. w[1] = St(1)
      BY <1>1
    <3>2. 0 \in 0 .. n - 1 /\ 0 + 1 = 1
      BY <1>1
    <3>. QED BY <1>4, <1>5, <2>1, <3>1, <3>2
  <2>2. CASE k # 1 /\ k <= n
    <3>1. w[k] = St(k) /\ w[k - 1] = St(k - 1) /\ k - 1 \in 1 .. n - 1 /\ k - 1 \in 0 .. n - 1 /\ (k - 1) + 1 = k
      BY <1>1, <2>2
    <3>2. MorePixels(c, St(k - 1)) /\ NextPixel(c, y, St(k - 1)) = St(k)
      BY <1>2, <1>4, <3>1
    <3>. QED BY <2>2, <3>1, <3>2
  <2>3. CASE k > n
    <3>1. w[k] = St(n) /\ w[k - 1] = St(n) /\ k # 1
      BY <1>1, <2>3
    <3>. QED BY <1>3, <3>1
  <2>. QED BY <1>1, <2>1, <2>2, <2>3
<1>7. PixelLoop(e, c, x0, y, w)
  <2>1. w = [k \in 1 .. 2 * Half |-> w[k]]
    OBVIOUS
  <2> HIDE DEF w
  <2>. QED BY <1>6, <2>1 DEF PixelLoop
<1>8. w[2 * Half] = St(n)
  <2>1. 2 * Half \in 1 .. 2 * Half /\ (2 * Half < n => 2 * Half = n)
    BY <1>1
  <2>. QED BY <2>1
<1> HIDE DEF w
<1>9. Pixels(e, c, x0, y) = [e |-> w[2 * Half].e, x |-> w[2 * Half].x]
  BY <1>7, PixelLoopIs
<1>. QED BY <1>3, <1>8, <1>9 DEF St

\* What a draw derives is used with: its colour source and its ends.
Plan(e, c) ==
  /\ c.shaded = ((e.m0.shade \/ e.m1.rgb) /\ ~e.m1.fastclear)
  /\ c.prim_end_x \in Coords /\ c.end_x \in Coords /\ c.end_y \in Coords
  /\ c.dx \in Int /\ c.dy \in Int

\* The kernel draws what the loop draws.
LEMMA SegmentIs ==
  ASSUME NEW e, Engine(e), Unmixed(e), NEW c, Plan(e, c), NEW x \in Coords, NEW y \in Int
  PROVE  Segment(e, c, x, y) = Pixels(e, c, x, y)
<1> DEFINE n == LaneCount(c, x)
<1>1. CASE ~(~e.scalar /\ c.dx = 1 /\ ~c.lr_abort /\ KernelApplies(e, n, x))
  BY <1>1 DEF Segment
<1>2. CASE ~e.scalar /\ c.dx = 1 /\ ~c.lr_abort /\ KernelApplies(e, n, x)
  <2>1. n \in 1 .. 2 * Half /\ x \in Int /\ Half \in Nat /\ Bias \in Int /\ e.window.x \in Int
    BY SizeAssumption, LaneCountIs DEF Plan, Engine, Coords
  <2>2. n \in Nat
    BY <2>1
  <2>3. /\ x + n - 1 < Half /\ x + e.window.x - Bias >= -Half /\ x + e.window.x - Bias + n - 1 < Half
    BY <1>2 DEF KernelApplies
  <2>4. \A k \in 1 .. n : x + k - 1 \in Coords /\ x + k - 1 + e.window.x - Bias \in Coords
    <3> HIDE DEF n
    <3>. QED BY <2>1, <2>2, <2>3 DEF Coords
  <2>5. PICK fr : Chain(e, c, n, fr)
    BY <2>2, ChainExists
  <2>6. SpanOf(e, c, n, fr, x, y)
    BY <1>2, <2>2, <2>4, <2>5 DEF SpanOf, Plan
  <2>7. SpanKernel(e, c, n, x, y) = After(e, c, n, fr, x, y, n).e
    <3>1. SpanKernel(e, c, n, x, y)
            = Paint(fr[n], e.pixels + Cardinality(Fired(c, n)), RowOf(e, c, x, y, Tints(fr, c, n, x, y), n))
      <4> HIDE DEF n
      <4>1. c.shaded = ((e.m0.shade \/ e.m1.rgb) /\ ~e.m1.fastclear)
        BY DEF Plan
      <4>. QED BY <2>1, <2>2, <2>4, <2>5, <4>1, KernelIs
    <3> HIDE DEF n
    <3>. QED BY <3>1 DEF After
  <2>8. Pixels(e, c, x, y) = [e |-> After(e, c, n, fr, x, y, n).e, x |-> I16(x + n)]
    BY <1>2, <2>3, <2>6, PixelsAre DEF Plan
  <2>9. Segment(e, c, x, y) = [e |-> SpanKernel(e, c, n, x, y), x |-> I16(x + n)]
    BY <1>2 DEF Segment
  <2> HIDE DEF n
  <2>. QED BY <2>7, <2>8, <2>9
<1>. QED BY <1>1, <1>2
-----------------------------------------------------------------------------
(* An engine and its twin, which draws pixel by pixel *)

Twin(e, f) == Engine(e) /\ f = [e EXCEPT !.scalar = TRUE]

\* Twins g and h, drawn by an engine e of the same modes.
Drawn(e, g, h) == Twin(g, h) /\ g.m0 = e.m0 /\ g.m1 = e.m1

LEMMA TwinView ==
  ASSUME NEW e, NEW f, Twin(e, f)
  PROVE  /\ Engine(e) /\ Engine(f) /\ Regs(e, f) /\ f = [k \in EngineFields |-> IF k = "scalar" THEN TRUE ELSE e[k]]
         /\ f.scalar = TRUE /\ f.xs = e.xs /\ f.ys = e.ys /\ f.xe = e.xe /\ f.ye = e.ye /\ f.x_save = e.x_save
         /\ f.move = e.move /\ f.oct = e.oct /\ f.color = e.color /\ f.curr = e.curr /\ f.slope = e.slope
         /\ f.color_i = e.color_i /\ f.ls_pattern = e.ls_pattern /\ f.ls_saved = e.ls_saved
         /\ f.z_pattern = e.z_pattern /\ f.host_shift = e.host_shift /\ f.pixels = e.pixels /\ f.fb = e.fb
<1>1. f = [k \in EngineFields |-> IF k = "scalar" THEN TRUE ELSE e[k]]
  BY DEF Twin, Engine, EngineFields
<1>2. f.scalar = TRUE /\ \A k \in EngineFields \ {"scalar"} : f[k] = e[k]
  BY <1>1 DEF EngineFields
<1>3. /\ f.m0 = e.m0 /\ f.m1 = e.m1 /\ f.xs = e.xs /\ f.ys = e.ys /\ f.xe = e.xe /\ f.ye = e.ye
      /\ f.x_save = e.x_save /\ f.move = e.move /\ f.window = e.window /\ f.clip_mode = e.clip_mode
      /\ f.smask = e.smask /\ f.oct = e.oct /\ f.color = e.color /\ f.curr = e.curr /\ f.slope = e.slope
      /\ f.color_i = e.color_i /\ f.color_back = e.color_back /\ f.color_vram = e.color_vram
      /\ f.ls_pattern = e.ls_pattern /\ f.ls_saved = e.ls_saved /\ f.z_pattern = e.z_pattern
      /\ f.host = e.host /\ f.host_shift = e.host_shift /\ f.pixels = e.pixels /\ f.rb = e.rb /\ f.fb = e.fb
  BY <1>2 DEF EngineFields
<1>4. Engine(f)
  <2>1. f = [k \in EngineFields |-> f[k]]
    BY <1>1
  <2>. QED BY <2>1, <1>3 DEF Engine, Twin
<1>5. Regs(e, f)
  BY <1>3 DEF Regs
<1>6. Engine(e)
  BY DEF Twin
<1>. QED BY <1>1, <1>2, <1>3, <1>4, <1>5, <1>6

LEMMA TwinFacts ==
  ASSUME NEW e, NEW f, Twin(e, f)
  PROVE  /\ Engine(e) /\ Engine(f) /\ Regs(e, f) /\ f.m0 = e.m0 /\ f.m1 = e.m1
         /\ f.xs = e.xs /\ f.ys = e.ys /\ f.xe = e.xe /\ f.ye = e.ye /\ f.x_save = e.x_save
         /\ f.move = e.move /\ f.oct = e.oct /\ f.color = e.color /\ f.curr = e.curr /\ f.slope = e.slope
         /\ f.color_i = e.color_i /\ f.ls_pattern = e.ls_pattern /\ f.ls_saved = e.ls_saved
         /\ f.z_pattern = e.z_pattern /\ f.host_shift = e.host_shift /\ f.pixels = e.pixels /\ f.fb = e.fb
         /\ f.rb = e.rb /\ f.smask = e.smask
<1>1. f = [k \in EngineFields |-> IF k = "scalar" THEN TRUE ELSE e[k]]
  BY DEF Twin, Engine, EngineFields
<1>2. f.scalar = TRUE /\ \A k \in EngineFields \ {"scalar"} : f[k] = e[k]
  BY <1>1 DEF EngineFields
<1>3. /\ f.m0 = e.m0 /\ f.m1 = e.m1 /\ f.xs = e.xs /\ f.ys = e.ys /\ f.xe = e.xe /\ f.ye = e.ye
      /\ f.x_save = e.x_save /\ f.move = e.move /\ f.window = e.window /\ f.clip_mode = e.clip_mode
      /\ f.smask = e.smask /\ f.oct = e.oct /\ f.color = e.color /\ f.curr = e.curr /\ f.slope = e.slope
      /\ f.color_i = e.color_i /\ f.color_back = e.color_back /\ f.color_vram = e.color_vram
      /\ f.ls_pattern = e.ls_pattern /\ f.ls_saved = e.ls_saved /\ f.z_pattern = e.z_pattern
      /\ f.host = e.host /\ f.host_shift = e.host_shift /\ f.pixels = e.pixels /\ f.rb = e.rb /\ f.fb = e.fb
  BY <1>2 DEF EngineFields
<1>4. Engine(e) /\ Engine(f) /\ Regs(e, f)
  BY TwinView
<1>. QED BY <1>3, <1>4

LEMMA DrawnTwice ==
  ASSUME NEW e, NEW g, NEW h, NEW j, NEW k, Drawn(e, g, h), Drawn(g, j, k) PROVE Drawn(e, j, k)
  BY DEF Drawn

LEMMA TwinPaint ==
  ASSUME NEW e, NEW f, Twin(e, f), NEW px \in Nat, NEW b \in FrameBuffer
  PROVE  Drawn(e, Paint(e, px, b), Paint(f, px, b))
<1>1. Engine(Paint(e, px, b)) /\ Regs(e, Paint(e, px, b))
  BY PaintIs DEF Twin
<1>2. Paint(f, px, b) = [Paint(e, px, b) EXCEPT !.scalar = TRUE]
  BY DEF Paint, Twin, Engine, EngineFields
<1>. QED BY <1>1, <1>2 DEF Drawn, Twin, Regs

LEMMA TwinLit ==
  ASSUME NEW e, NEW f, Twin(e, f), NEW v \in [Channels -> Int], NEW w \in [Channels -> Int], NEW s
  PROVE  Drawn(e, Lit(e, v, w, s), Lit(f, v, w, s))
<1>1. Engine(Lit(e, v, w, s)) /\ Regs(e, Lit(e, v, w, s))
  BY LitIs DEF Twin
<1>2. Lit(f, v, w, s) = [Lit(e, v, w, s) EXCEPT !.scalar = TRUE]
  BY DEF Lit, Twin, Engine, EngineFields
<1>. QED BY <1>1, <1>2 DEF Drawn, Twin, Regs

LEMMA TwinPixel ==
  ASSUME NEW e, NEW f, Twin(e, f), NEW x, NEW y, NEW c
  PROVE  Drawn(e, output_pixel(e, x, y, c), output_pixel(f, x, y, c))
<1> DEFINE b == Stroke(e, e.fb, x, y, c)
           px == e.pixels + 1
<1>1. Engine(e) /\ Engine(f) /\ Regs(e, f) /\ f.pixels = e.pixels /\ f.fb = e.fb
  BY TwinFacts
<1>2. output_pixel(e, x, y, c) = Paint(e, px, b) /\ b \in FrameBuffer
  BY <1>1, OutputPixel DEF Paint
<1>3. Stroke(f, f.fb, x, y, c) = b
  BY <1>1, StrokeRegs
<1>4. output_pixel(f, x, y, c) = Paint(f, px, b)
  <2>1. output_pixel(f, x, y, c) = Paint(f, f.pixels + 1, Stroke(f, f.fb, x, y, c)) /\ Stroke(f, f.fb, x, y, c) \in FrameBuffer
    <3>1. Engine(f)
      BY <1>1
    <3> HIDE DEF b, px
    <3>. QED BY <3>1, OutputPixel DEF Paint
  <2> HIDE DEF b
  <2>. QED BY <2>1, <1>1, <1>3
<1>5. px \in Nat
  BY <1>1 DEF Engine
<1> HIDE DEF b, px
<1>. QED BY <1>2, <1>4, <1>5, TwinPaint

LEMMA TwinIterate ==
  ASSUME NEW e, NEW f, Twin(e, f)
  PROVE  Drawn(e, iterate_shade(e), iterate_shade(f))
<1> DEFINE v == NextCurr(e)
           w == NextColor(e)
<1>1. Engine(e) /\ Engine(f) /\ f.m0 = e.m0 /\ f.m1 = e.m1 /\ f.curr = e.curr /\ f.slope = e.slope
      /\ f.color = e.color /\ f.host_shift = e.host_shift
  BY TwinFacts
<1>2. NextCurr(f) = v /\ NextColor(f) = w
  BY <1>1 DEF NextCurr, NextColor
<1>3. iterate_shade(e) = Lit(e, v, w, e.host_shift) /\ iterate_shade(f) = Lit(f, v, w, e.host_shift)
      /\ v \in [Channels -> Int] /\ w \in [Channels -> Int]
  <2> HIDE DEF v, w
  <2>1. NextCurr(e) = v /\ NextColor(e) = w
    BY DEF v, w
  <2>. QED BY <1>1, <1>2, <2>1, IterateIs
<1> HIDE DEF v, w
<1>. QED BY <1>3, TwinLit

LEMMA TwinRestart == ASSUME NEW e, NEW f, Twin(e, f) PROVE Drawn(e, Restart(e), Restart(f))
<1>1. Engine(e) /\ Engine(f) /\ f.color = e.color /\ f.host_shift = e.host_shift
  BY TwinFacts
<1>2. Restart(e) = Lit(e, e.color, e.color, e.host_shift) /\ Restart(f) = Lit(f, e.color, e.color, e.host_shift)
  BY <1>1 DEF Restart, Lit, Engine, EngineFields
<1>3. e.color \in [Channels -> Int]
  BY <1>1 DEF Engine
<1>. QED BY <1>2, <1>3, TwinLit

LEMMA TwinHost ==
  ASSUME NEW e, NEW f, Twin(e, f)
  PROVE  Drawn(e, HostTaken(e), HostTaken(f)) /\ HostColor(f) = HostColor(e)
<1>1. Engine(e) /\ Engine(f) /\ Regs(e, f) /\ f.color = e.color /\ f.curr = e.curr /\ f.host_shift = e.host_shift
  BY TwinFacts
<1>2. NextShift(f) = NextShift(e) /\ HostColor(f) = HostColor(e)
  BY <1>1, SameShift
<1>3. HostTaken(e) = Lit(e, e.curr, e.color, NextShift(e)) /\ HostTaken(f) = Lit(f, e.curr, e.color, NextShift(e))
  BY <1>1, <1>2, HostIs
<1>4. e.color \in [Channels -> Int] /\ e.curr \in [Channels -> Int]
  BY <1>1 DEF Engine
<1>. QED BY <1>2, <1>3, <1>4, TwinLit

LEMMA TwinIterated == ASSUME NEW e, NEW f, Twin(e, f) PROVE Drawn(e, Iterated(e), Iterated(f))
<1>1. f.m0 = e.m0
  BY TwinFacts
<1>2. Drawn(e, e, f)
  BY DEF Drawn
<1>. QED BY <1>1, <1>2, TwinIterate DEF Iterated

LEMMA TwinStep ==
  ASSUME NEW e, NEW f, Twin(e, f), NEW c, NEW x, NEW y, NEW bit
  PROVE  Drawn(e, PixelStep(e, c, x, y, bit), PixelStep(f, c, x, y, bit))
<1>1. PICK a, b : a = Iterated(e) /\ b = Iterated(f)
  OBVIOUS
<1>2. Drawn(e, a, b) /\ Twin(a, b)
  BY <1>1, TwinIterated DEF Drawn
<1>3. PICK ha, hb : ha = HostTaken(a) /\ hb = HostTaken(b)
  OBVIOUS
<1>4. Drawn(a, ha, hb) /\ Twin(ha, hb) /\ HostColor(b) = HostColor(a)
  BY <1>2, <1>3, TwinHost DEF Drawn
<1>5. b.m0 = a.m0 /\ b.color_back = a.color_back /\ b.curr = a.curr
  BY <1>2, TwinView DEF Regs
<1>6. rgb_color(b, x, y) = rgb_color(a, x, y)
  <2>1. Regs(a, b)
    BY <1>2, TwinView
  <2>. QED BY <2>1, <1>5, RegsView DEF rgb_color
<1>7. PixelStep(e, c, x, y, bit)
        = IF bit \in c.pattern
           THEN IF a.m0.color_host THEN output_pixel(ha, x, y, HostColor(a))
                ELSE output_pixel(a, x, y, IF c.shaded THEN rgb_color(a, x, y) ELSE c.color)
           ELSE IF c.opaque THEN output_pixel(a, x, y, a.color_back) ELSE a
  BY <1>1, <1>3, Zenon DEF PixelStep, Iterated
<1>8. PixelStep(f, c, x, y, bit)
        = IF bit \in c.pattern
           THEN IF b.m0.color_host THEN output_pixel(hb, x, y, HostColor(b))
                ELSE output_pixel(b, x, y, IF c.shaded THEN rgb_color(b, x, y) ELSE c.color)
           ELSE IF c.opaque THEN output_pixel(b, x, y, b.color_back) ELSE b
  BY <1>1, <1>3, Zenon DEF PixelStep, Iterated
<1>9. \A k : Drawn(a, output_pixel(a, x, y, k), output_pixel(b, x, y, k))
  BY <1>2, TwinPixel
<1>10. \A k : Drawn(ha, output_pixel(ha, x, y, k), output_pixel(hb, x, y, k))
  BY <1>4, TwinPixel
<1>11. \A k : Drawn(e, output_pixel(a, x, y, k), output_pixel(b, x, y, k))
  BY <1>2, <1>9, DrawnTwice
<1>12. \A k : Drawn(e, output_pixel(ha, x, y, k), output_pixel(hb, x, y, k))
  <2>1. Drawn(e, ha, hb)
    BY <1>2, <1>4, DrawnTwice
  <2>. QED BY <2>1, <1>10, DrawnTwice
<1>. QED BY <1>2, <1>4, <1>5, <1>6, <1>7, <1>8, <1>11, <1>12
-----------------------------------------------------------------------------
(* The engine's loops, as runs of at most n turns *)

\* The pixels of a segment
PixelsNext(e, c, x, y, k, s) == IF MorePixels(c, s) THEN NextPixel(c, y, s) ELSE s

PixelsRun(e, c, x, y, n, at) == at = [k \in 1 .. n |-> IF k = 1 THEN NextPixel(c, y, [e |-> e, x |-> x, bit |-> 31]) ELSE PixelsNext(e, c, x, y, k, at[k - 1])]

LEMMA PixelsRunExists == ASSUME NEW e, NEW c, NEW x, NEW y, NEW n \in Nat PROVE \E at : PixelsRun(e, c, x, y, n, at)
<1> DEFINE U == {m \in Nat : \E at : PixelsRun(e, c, x, y, m, at)}
<1>1. 0 \in U
  <2> DEFINE at == [k \in 1 .. 0 |-> NextPixel(c, y, [e |-> e, x |-> x, bit |-> 31])]
  <2>1. PixelsRun(e, c, x, y, 0, at)
    BY DEF PixelsRun
  <2>. QED BY <2>1
<1>2. ASSUME NEW m \in Nat, m \in U PROVE m + 1 \in U
  <2>1. PICK g : PixelsRun(e, c, x, y, m, g)
    BY <1>2
  <2> DEFINE at == [k \in 1 .. m + 1 |-> IF k = 1 THEN NextPixel(c, y, [e |-> e, x |-> x, bit |-> 31])
                                      ELSE IF k = m + 1 THEN PixelsNext(e, c, x, y, k, g[m]) ELSE g[k]]
  <2>2. \A k \in 1 .. m : g[k] = IF k = 1 THEN NextPixel(c, y, [e |-> e, x |-> x, bit |-> 31]) ELSE PixelsNext(e, c, x, y, k, g[k - 1])
    BY <2>1 DEF PixelsRun
  <2>3. ASSUME NEW k \in 1 .. m + 1 PROVE at[k] = IF k = 1 THEN NextPixel(c, y, [e |-> e, x |-> x, bit |-> 31]) ELSE PixelsNext(e, c, x, y, k, at[k - 1])
    <3>1. k # 1 => k - 1 \in 1 .. m /\ at[k - 1] = g[k - 1]
      <4>1. 1 \in 1 .. m => g[1] = NextPixel(c, y, [e |-> e, x |-> x, bit |-> 31])
        BY <2>2
      <4> DEFINE A == NextPixel(c, y, [e |-> e, x |-> x, bit |-> 31])
      <4> HIDE DEF A
      <4>. QED BY <4>1
    <3>. QED BY <2>2, <3>1
  <2>4. at = [k \in 1 .. m + 1 |-> IF k = 1 THEN NextPixel(c, y, [e |-> e, x |-> x, bit |-> 31]) ELSE PixelsNext(e, c, x, y, k, at[k - 1])]
    <3>1. at = [k \in 1 .. m + 1 |-> at[k]]
      OBVIOUS
    <3> HIDE DEF at
    <3>. QED BY <2>3, <3>1
  <2>5. PixelsRun(e, c, x, y, m + 1, at)
    BY <2>4 DEF PixelsRun
  <2> HIDE DEF at
  <2>. QED BY <2>5
<1>3. \A m \in Nat : m \in U
  <2> HIDE DEF U
  <2>. QED BY <1>1, <1>2, FromZero
<1>. QED BY <1>3

PixelsTurned(e, c, x, y, n, at) ==
  /\ n >= 1 => at[1] = NextPixel(c, y, [e |-> e, x |-> x, bit |-> 31])
  /\ \A k \in 1 .. n - 1 : at[k + 1] = PixelsNext(e, c, x, y, k + 1, at[k])

LEMMA PixelsTurns ==
  ASSUME NEW e, NEW c, NEW x, NEW y, NEW n \in Nat, NEW at, PixelsRun(e, c, x, y, n, at)
  PROVE  PixelsTurned(e, c, x, y, n, at)
<1>1. \A k \in 1 .. n : at[k] = IF k = 1 THEN NextPixel(c, y, [e |-> e, x |-> x, bit |-> 31]) ELSE PixelsNext(e, c, x, y, k, at[k - 1])
  BY DEF PixelsRun
<1>2. ASSUME NEW k \in 1 .. n - 1 PROVE at[k + 1] = PixelsNext(e, c, x, y, k + 1, at[k])
  <2>1. k + 1 \in 1 .. n /\ k + 1 # 1 /\ (k + 1) - 1 = k
    OBVIOUS
  <2>. QED BY <1>1, <2>1
<1>3. n >= 1 => at[1] = NextPixel(c, y, [e |-> e, x |-> x, bit |-> 31])
  BY <1>1
<1>. QED BY <1>2, <1>3 DEF PixelsTurned

LEMMA PixelsIs ==
  ASSUME NEW e, NEW c, NEW x, NEW y, ~c.lr_abort
  PROVE  \E at : PixelsRun(e, c, x, y, 2 * Half, at) /\ Pixels(e, c, x, y) = [e |-> at[2 * Half].e, x |-> at[2 * Half].x]
<1> DEFINE a == CHOOSE a : PixelsRun(e, c, x, y, 2 * Half, a)
<1>1. 2 * Half \in Nat
  BY SizeAssumption
<1>2. PixelsRun(e, c, x, y, 2 * Half, a)
  BY <1>1, PixelsRunExists
<1>3. Pixels(e, c, x, y) = [e |-> a[2 * Half].e, x |-> a[2 * Half].x]
  BY DEF Pixels, PixelsRun, PixelsNext
<1> HIDE DEF a
<1>. QED BY <1>2, <1>3


\* the segments of a row
DrawRowNext(c, r, k, s) == IF s.more /\ s.y = r.y THEN NextSegment(c, s) ELSE s

DrawRowRun(c, r, n, at) == at = [k \in 1 .. n |-> IF k = 1 THEN NextSegment(c, r) ELSE DrawRowNext(c, r, k, at[k - 1])]

LEMMA DrawRowRunExists == ASSUME NEW c, NEW r, NEW n \in Nat PROVE \E at : DrawRowRun(c, r, n, at)
<1> DEFINE U == {m \in Nat : \E at : DrawRowRun(c, r, m, at)}
<1>1. 0 \in U
  <2> DEFINE at == [k \in 1 .. 0 |-> NextSegment(c, r)]
  <2>1. DrawRowRun(c, r, 0, at)
    BY DEF DrawRowRun
  <2>. QED BY <2>1
<1>2. ASSUME NEW m \in Nat, m \in U PROVE m + 1 \in U
  <2>1. PICK g : DrawRowRun(c, r, m, g)
    BY <1>2
  <2> DEFINE at == [k \in 1 .. m + 1 |-> IF k = 1 THEN NextSegment(c, r)
                                      ELSE IF k = m + 1 THEN DrawRowNext(c, r, k, g[m]) ELSE g[k]]
  <2>2. \A k \in 1 .. m : g[k] = IF k = 1 THEN NextSegment(c, r) ELSE DrawRowNext(c, r, k, g[k - 1])
    BY <2>1 DEF DrawRowRun
  <2>3. ASSUME NEW k \in 1 .. m + 1 PROVE at[k] = IF k = 1 THEN NextSegment(c, r) ELSE DrawRowNext(c, r, k, at[k - 1])
    <3>1. k # 1 => k - 1 \in 1 .. m /\ at[k - 1] = g[k - 1]
      <4>1. 1 \in 1 .. m => g[1] = NextSegment(c, r)
        BY <2>2
      <4> DEFINE A == NextSegment(c, r)
      <4> HIDE DEF A
      <4>. QED BY <4>1
    <3>. QED BY <2>2, <3>1
  <2>4. at = [k \in 1 .. m + 1 |-> IF k = 1 THEN NextSegment(c, r) ELSE DrawRowNext(c, r, k, at[k - 1])]
    <3>1. at = [k \in 1 .. m + 1 |-> at[k]]
      OBVIOUS
    <3> HIDE DEF at
    <3>. QED BY <2>3, <3>1
  <2>5. DrawRowRun(c, r, m + 1, at)
    BY <2>4 DEF DrawRowRun
  <2> HIDE DEF at
  <2>. QED BY <2>5
<1>3. \A m \in Nat : m \in U
  <2> HIDE DEF U
  <2>. QED BY <1>1, <1>2, FromZero
<1>. QED BY <1>3

LEMMA DrawRowTurns ==
  ASSUME NEW c, NEW r, NEW n \in Nat, NEW at, DrawRowRun(c, r, n, at)
  PROVE  /\ n >= 1 => at[1] = NextSegment(c, r)
         /\ \A k \in 1 .. n - 1 : at[k + 1] = DrawRowNext(c, r, k + 1, at[k])
<1>1. \A k \in 1 .. n : at[k] = IF k = 1 THEN NextSegment(c, r) ELSE DrawRowNext(c, r, k, at[k - 1])
  BY DEF DrawRowRun
<1>2. ASSUME NEW k \in 1 .. n - 1 PROVE at[k + 1] = DrawRowNext(c, r, k + 1, at[k])
  <2>1. k + 1 \in 1 .. n /\ k + 1 # 1 /\ (k + 1) - 1 = k
    OBVIOUS
  <2>. QED BY <1>1, <2>1
<1>3. n >= 1 => at[1] = NextSegment(c, r)
  BY <1>1
<1>. QED BY <1>2, <1>3

LEMMA DrawRowIs ==
  ASSUME NEW c, NEW r, NEW n \in Nat, n = Turns(r.x, c.end_x, c.dx)
  PROVE  \E at : DrawRowRun(c, r, n, at) /\ DrawRow(c, r) = at[n]
<1> DEFINE a == CHOOSE a : DrawRowRun(c, r, n, a)
<1>1. DrawRowRun(c, r, n, a)
  BY DrawRowRunExists
<1>2. DrawRow(c, r) = a[n]
  BY DEF DrawRow, DrawRowRun, DrawRowNext
<1> HIDE DEF a
<1>. QED BY <1>1, <1>2


\* the pixels of a row of a copy
CopyRowNext(c, r, k, s) == IF s.more /\ s.y = r.y THEN NextCopy(c, s) ELSE s

CopyRowRun(c, r, n, at) == at = [k \in 1 .. n |-> IF k = 1 THEN NextCopy(c, r) ELSE CopyRowNext(c, r, k, at[k - 1])]

LEMMA CopyRowRunExists == ASSUME NEW c, NEW r, NEW n \in Nat PROVE \E at : CopyRowRun(c, r, n, at)
<1> DEFINE U == {m \in Nat : \E at : CopyRowRun(c, r, m, at)}
<1>1. 0 \in U
  <2> DEFINE at == [k \in 1 .. 0 |-> NextCopy(c, r)]
  <2>1. CopyRowRun(c, r, 0, at)
    BY DEF CopyRowRun
  <2>. QED BY <2>1
<1>2. ASSUME NEW m \in Nat, m \in U PROVE m + 1 \in U
  <2>1. PICK g : CopyRowRun(c, r, m, g)
    BY <1>2
  <2> DEFINE at == [k \in 1 .. m + 1 |-> IF k = 1 THEN NextCopy(c, r)
                                      ELSE IF k = m + 1 THEN CopyRowNext(c, r, k, g[m]) ELSE g[k]]
  <2>2. \A k \in 1 .. m : g[k] = IF k = 1 THEN NextCopy(c, r) ELSE CopyRowNext(c, r, k, g[k - 1])
    BY <2>1 DEF CopyRowRun
  <2>3. ASSUME NEW k \in 1 .. m + 1 PROVE at[k] = IF k = 1 THEN NextCopy(c, r) ELSE CopyRowNext(c, r, k, at[k - 1])
    <3>1. k # 1 => k - 1 \in 1 .. m /\ at[k - 1] = g[k - 1]
      <4>1. 1 \in 1 .. m => g[1] = NextCopy(c, r)
        BY <2>2
      <4> DEFINE A == NextCopy(c, r)
      <4> HIDE DEF A
      <4>. QED BY <4>1
    <3>. QED BY <2>2, <3>1
  <2>4. at = [k \in 1 .. m + 1 |-> IF k = 1 THEN NextCopy(c, r) ELSE CopyRowNext(c, r, k, at[k - 1])]
    <3>1. at = [k \in 1 .. m + 1 |-> at[k]]
      OBVIOUS
    <3> HIDE DEF at
    <3>. QED BY <2>3, <3>1
  <2>5. CopyRowRun(c, r, m + 1, at)
    BY <2>4 DEF CopyRowRun
  <2> HIDE DEF at
  <2>. QED BY <2>5
<1>3. \A m \in Nat : m \in U
  <2> HIDE DEF U
  <2>. QED BY <1>1, <1>2, FromZero
<1>. QED BY <1>3

LEMMA CopyRowTurns ==
  ASSUME NEW c, NEW r, NEW n \in Nat, NEW at, CopyRowRun(c, r, n, at)
  PROVE  /\ n >= 1 => at[1] = NextCopy(c, r)
         /\ \A k \in 1 .. n - 1 : at[k + 1] = CopyRowNext(c, r, k + 1, at[k])
<1>1. \A k \in 1 .. n : at[k] = IF k = 1 THEN NextCopy(c, r) ELSE CopyRowNext(c, r, k, at[k - 1])
  BY DEF CopyRowRun
<1>2. ASSUME NEW k \in 1 .. n - 1 PROVE at[k + 1] = CopyRowNext(c, r, k + 1, at[k])
  <2>1. k + 1 \in 1 .. n /\ k + 1 # 1 /\ (k + 1) - 1 = k
    OBVIOUS
  <2>. QED BY <1>1, <2>1
<1>3. n >= 1 => at[1] = NextCopy(c, r)
  BY <1>1
<1>. QED BY <1>2, <1>3

LEMMA CopyRowIs ==
  ASSUME NEW c, NEW r, NEW n \in Nat, n = Turns(r.x, c.end_x, c.dx)
  PROVE  \E at : CopyRowRun(c, r, n, at) /\ CopyRow(c, r) = at[n]
<1> DEFINE a == CHOOSE a : CopyRowRun(c, r, n, a)
<1>1. CopyRowRun(c, r, n, a)
  BY CopyRowRunExists
<1>2. CopyRow(c, r) = a[n]
  BY DEF CopyRow, CopyRowRun, CopyRowNext
<1> HIDE DEF a
<1>. QED BY <1>1, <1>2


\* the rows of a draw
DrawRowsNext(c, r, k, s) == IF s.more THEN DrawRow(c, s) ELSE s

DrawRowsRun(c, r, n, at) == at = [k \in 1 .. n |-> IF k = 1 THEN DrawRow(c, r) ELSE DrawRowsNext(c, r, k, at[k - 1])]

LEMMA DrawRowsRunExists == ASSUME NEW c, NEW r, NEW n \in Nat PROVE \E at : DrawRowsRun(c, r, n, at)
<1> DEFINE U == {m \in Nat : \E at : DrawRowsRun(c, r, m, at)}
<1>1. 0 \in U
  <2> DEFINE at == [k \in 1 .. 0 |-> DrawRow(c, r)]
  <2>1. DrawRowsRun(c, r, 0, at)
    BY DEF DrawRowsRun
  <2>. QED BY <2>1
<1>2. ASSUME NEW m \in Nat, m \in U PROVE m + 1 \in U
  <2>1. PICK g : DrawRowsRun(c, r, m, g)
    BY <1>2
  <2> DEFINE at == [k \in 1 .. m + 1 |-> IF k = 1 THEN DrawRow(c, r)
                                      ELSE IF k = m + 1 THEN DrawRowsNext(c, r, k, g[m]) ELSE g[k]]
  <2>2. \A k \in 1 .. m : g[k] = IF k = 1 THEN DrawRow(c, r) ELSE DrawRowsNext(c, r, k, g[k - 1])
    BY <2>1 DEF DrawRowsRun
  <2>3. ASSUME NEW k \in 1 .. m + 1 PROVE at[k] = IF k = 1 THEN DrawRow(c, r) ELSE DrawRowsNext(c, r, k, at[k - 1])
    <3>1. k # 1 => k - 1 \in 1 .. m /\ at[k - 1] = g[k - 1]
      <4>1. 1 \in 1 .. m => g[1] = DrawRow(c, r)
        BY <2>2
      <4> DEFINE A == DrawRow(c, r)
      <4> HIDE DEF A
      <4>. QED BY <4>1
    <3>. QED BY <2>2, <3>1
  <2>4. at = [k \in 1 .. m + 1 |-> IF k = 1 THEN DrawRow(c, r) ELSE DrawRowsNext(c, r, k, at[k - 1])]
    <3>1. at = [k \in 1 .. m + 1 |-> at[k]]
      OBVIOUS
    <3> HIDE DEF at
    <3>. QED BY <2>3, <3>1
  <2>5. DrawRowsRun(c, r, m + 1, at)
    BY <2>4 DEF DrawRowsRun
  <2> HIDE DEF at
  <2>. QED BY <2>5
<1>3. \A m \in Nat : m \in U
  <2> HIDE DEF U
  <2>. QED BY <1>1, <1>2, FromZero
<1>. QED BY <1>3

LEMMA DrawRowsTurns ==
  ASSUME NEW c, NEW r, NEW n \in Nat, NEW at, DrawRowsRun(c, r, n, at)
  PROVE  /\ n >= 1 => at[1] = DrawRow(c, r)
         /\ \A k \in 1 .. n - 1 : at[k + 1] = DrawRowsNext(c, r, k + 1, at[k])
<1>1. \A k \in 1 .. n : at[k] = IF k = 1 THEN DrawRow(c, r) ELSE DrawRowsNext(c, r, k, at[k - 1])
  BY DEF DrawRowsRun
<1>2. ASSUME NEW k \in 1 .. n - 1 PROVE at[k + 1] = DrawRowsNext(c, r, k + 1, at[k])
  <2>1. k + 1 \in 1 .. n /\ k + 1 # 1 /\ (k + 1) - 1 = k
    OBVIOUS
  <2>. QED BY <1>1, <2>1
<1>3. n >= 1 => at[1] = DrawRow(c, r)
  BY <1>1
<1>. QED BY <1>2, <1>3

LEMMA DrawRowsIs ==
  ASSUME NEW c, NEW r, NEW n \in Nat, n = Turns(r.y, c.end_y, c.dy)
  PROVE  \E at : DrawRowsRun(c, r, n, at) /\ DrawRows(c, r) = at[n]
<1> DEFINE a == CHOOSE a : DrawRowsRun(c, r, n, a)
<1>1. DrawRowsRun(c, r, n, a)
  BY DrawRowsRunExists
<1>2. DrawRows(c, r) = a[n]
  BY DEF DrawRows, DrawRowsRun, DrawRowsNext
<1> HIDE DEF a
<1>. QED BY <1>1, <1>2


\* the rows of a copy
CopyRowsNext(c, r, k, s) == IF s.more THEN CopyRow(c, s) ELSE s

CopyRowsRun(c, r, n, at) == at = [k \in 1 .. n |-> IF k = 1 THEN CopyRow(c, r) ELSE CopyRowsNext(c, r, k, at[k - 1])]

LEMMA CopyRowsRunExists == ASSUME NEW c, NEW r, NEW n \in Nat PROVE \E at : CopyRowsRun(c, r, n, at)
<1> DEFINE U == {m \in Nat : \E at : CopyRowsRun(c, r, m, at)}
<1>1. 0 \in U
  <2> DEFINE at == [k \in 1 .. 0 |-> CopyRow(c, r)]
  <2>1. CopyRowsRun(c, r, 0, at)
    BY DEF CopyRowsRun
  <2>. QED BY <2>1
<1>2. ASSUME NEW m \in Nat, m \in U PROVE m + 1 \in U
  <2>1. PICK g : CopyRowsRun(c, r, m, g)
    BY <1>2
  <2> DEFINE at == [k \in 1 .. m + 1 |-> IF k = 1 THEN CopyRow(c, r)
                                      ELSE IF k = m + 1 THEN CopyRowsNext(c, r, k, g[m]) ELSE g[k]]
  <2>2. \A k \in 1 .. m : g[k] = IF k = 1 THEN CopyRow(c, r) ELSE CopyRowsNext(c, r, k, g[k - 1])
    BY <2>1 DEF CopyRowsRun
  <2>3. ASSUME NEW k \in 1 .. m + 1 PROVE at[k] = IF k = 1 THEN CopyRow(c, r) ELSE CopyRowsNext(c, r, k, at[k - 1])
    <3>1. k # 1 => k - 1 \in 1 .. m /\ at[k - 1] = g[k - 1]
      <4>1. 1 \in 1 .. m => g[1] = CopyRow(c, r)
        BY <2>2
      <4> DEFINE A == CopyRow(c, r)
      <4> HIDE DEF A
      <4>. QED BY <4>1
    <3>. QED BY <2>2, <3>1
  <2>4. at = [k \in 1 .. m + 1 |-> IF k = 1 THEN CopyRow(c, r) ELSE CopyRowsNext(c, r, k, at[k - 1])]
    <3>1. at = [k \in 1 .. m + 1 |-> at[k]]
      OBVIOUS
    <3> HIDE DEF at
    <3>. QED BY <2>3, <3>1
  <2>5. CopyRowsRun(c, r, m + 1, at)
    BY <2>4 DEF CopyRowsRun
  <2> HIDE DEF at
  <2>. QED BY <2>5
<1>3. \A m \in Nat : m \in U
  <2> HIDE DEF U
  <2>. QED BY <1>1, <1>2, FromZero
<1>. QED BY <1>3

LEMMA CopyRowsTurns ==
  ASSUME NEW c, NEW r, NEW n \in Nat, NEW at, CopyRowsRun(c, r, n, at)
  PROVE  /\ n >= 1 => at[1] = CopyRow(c, r)
         /\ \A k \in 1 .. n - 1 : at[k + 1] = CopyRowsNext(c, r, k + 1, at[k])
<1>1. \A k \in 1 .. n : at[k] = IF k = 1 THEN CopyRow(c, r) ELSE CopyRowsNext(c, r, k, at[k - 1])
  BY DEF CopyRowsRun
<1>2. ASSUME NEW k \in 1 .. n - 1 PROVE at[k + 1] = CopyRowsNext(c, r, k + 1, at[k])
  <2>1. k + 1 \in 1 .. n /\ k + 1 # 1 /\ (k + 1) - 1 = k
    OBVIOUS
  <2>. QED BY <1>1, <2>1
<1>3. n >= 1 => at[1] = CopyRow(c, r)
  BY <1>1
<1>. QED BY <1>2, <1>3

LEMMA CopyRowsIs ==
  ASSUME NEW c, NEW r, NEW n \in Nat, n = Turns(r.y, c.end_y, c.dy)
  PROVE  \E at : CopyRowsRun(c, r, n, at) /\ CopyRows(c, r) = at[n]
<1> DEFINE a == CHOOSE a : CopyRowsRun(c, r, n, a)
<1>1. CopyRowsRun(c, r, n, a)
  BY CopyRowsRunExists
<1>2. CopyRows(c, r) = a[n]
  BY DEF CopyRows, CopyRowsRun, CopyRowsNext
<1> HIDE DEF a
<1>. QED BY <1>1, <1>2


\* the points of a line
WalkNext(bi, inc, unit, s0, k, s) == NextPoint(bi, inc, unit, s)

WalkRun(bi, inc, unit, s0, n, at) == at = [k \in 0 .. n |-> IF k = 0 THEN s0 ELSE WalkNext(bi, inc, unit, s0, k, at[k - 1])]

LEMMA WalkRunExists == ASSUME NEW bi, NEW inc, NEW unit, NEW s0, NEW n \in Nat PROVE \E at : WalkRun(bi, inc, unit, s0, n, at)
<1> DEFINE U == {m \in Nat : \E at : WalkRun(bi, inc, unit, s0, m, at)}
<1>1. 0 \in U
  <2> DEFINE at == [k \in 0 .. 0 |-> s0]
  <2>1. WalkRun(bi, inc, unit, s0, 0, at)
    BY DEF WalkRun
  <2>. QED BY <2>1
<1>2. ASSUME NEW m \in Nat, m \in U PROVE m + 1 \in U
  <2>1. PICK g : WalkRun(bi, inc, unit, s0, m, g)
    BY <1>2
  <2> DEFINE at == [k \in 0 .. m + 1 |-> IF k = 0 THEN s0
                                      ELSE IF k = m + 1 THEN WalkNext(bi, inc, unit, s0, k, g[m]) ELSE g[k]]
  <2>2. \A k \in 0 .. m : g[k] = IF k = 0 THEN s0 ELSE WalkNext(bi, inc, unit, s0, k, g[k - 1])
    BY <2>1 DEF WalkRun
  <2>3. ASSUME NEW k \in 0 .. m + 1 PROVE at[k] = IF k = 0 THEN s0 ELSE WalkNext(bi, inc, unit, s0, k, at[k - 1])
    <3>1. k # 0 => k - 1 \in 0 .. m /\ at[k - 1] = g[k - 1]
      <4>1. 0 \in 0 .. m => g[0] = s0
        BY <2>2
      <4> DEFINE A == s0
      <4> HIDE DEF A
      <4>. QED BY <4>1
    <3>. QED BY <2>2, <3>1
  <2>4. at = [k \in 0 .. m + 1 |-> IF k = 0 THEN s0 ELSE WalkNext(bi, inc, unit, s0, k, at[k - 1])]
    <3>1. at = [k \in 0 .. m + 1 |-> at[k]]
      OBVIOUS
    <3> HIDE DEF at
    <3>. QED BY <2>3, <3>1
  <2>5. WalkRun(bi, inc, unit, s0, m + 1, at)
    BY <2>4 DEF WalkRun
  <2> HIDE DEF at
  <2>. QED BY <2>5
<1>3. \A m \in Nat : m \in U
  <2> HIDE DEF U
  <2>. QED BY <1>1, <1>2, FromZero
<1>. QED BY <1>3

WalkTurned(bi, inc, unit, s0, n, at) ==
  /\ n >= 0 => at[0] = s0
  /\ \A k \in 0 .. n - 1 : at[k + 1] = WalkNext(bi, inc, unit, s0, k + 1, at[k])

LEMMA WalkTurns ==
  ASSUME NEW bi, NEW inc, NEW unit, NEW s0, NEW n \in Nat, NEW at, WalkRun(bi, inc, unit, s0, n, at)
  PROVE  WalkTurned(bi, inc, unit, s0, n, at)
<1>1. \A k \in 0 .. n : at[k] = IF k = 0 THEN s0 ELSE WalkNext(bi, inc, unit, s0, k, at[k - 1])
  BY DEF WalkRun
<1>2. ASSUME NEW k \in 0 .. n - 1 PROVE at[k + 1] = WalkNext(bi, inc, unit, s0, k + 1, at[k])
  <2>1. k + 1 \in 0 .. n /\ k + 1 # 0 /\ (k + 1) - 1 = k
    OBVIOUS
  <2>. QED BY <1>1, <2>1
<1>3. n >= 0 => at[0] = s0
  BY <1>1
<1>. QED BY <1>2, <1>3 DEF WalkTurned

LEMMA WalkIs ==
  ASSUME NEW bi, NEW inc, NEW unit, NEW s0, NEW n \in Nat
  PROVE  \E at : WalkRun(bi, inc, unit, s0, n, at) /\ Walk(bi, inc, unit, s0, n) = at[n]
<1> DEFINE a == CHOOSE a : WalkRun(bi, inc, unit, s0, n, a)
<1>1. n \in Nat
  BY SizeAssumption
<1>2. WalkRun(bi, inc, unit, s0, n, a)
  BY <1>1, WalkRunExists
<1>3. Walk(bi, inc, unit, s0, n) = a[n]
  BY DEF Walk, WalkRun, WalkNext
<1> HIDE DEF a
<1>. QED BY <1>2, <1>3
-----------------------------------------------------------------------------
(* Spans and blocks of twins *)

Row(e, r, s) == Drawn(e, r.e, s.e) /\ s.x = r.x /\ r.x \in Coords

Place(e, r, s) == Row(e, r, s) /\ s.y = r.y /\ r.y \in Coords /\ s.more = r.more

LEMMA TwinNextPixel ==
  ASSUME NEW e, NEW c, c.dx \in Int, NEW y, NEW r, NEW s, Row(e, r, s), s.bit = r.bit
  PROVE  Row(e, NextPixel(c, y, r), NextPixel(c, y, s)) /\ NextPixel(c, y, s).bit = NextPixel(c, y, r).bit
<1>1. Drawn(e, r.e, s.e) /\ Twin(r.e, s.e) /\ s.x = r.x /\ r.x \in Coords
  BY DEF Row, Drawn
<1>2. Drawn(e, PixelStep(r.e, c, r.x, y, r.bit), PixelStep(s.e, c, r.x, y, r.bit))
  BY <1>1, TwinStep, DrawnTwice
<1>3. I16(r.x + c.dx) \in Coords
  <2>1. r.x + c.dx \in Int
    BY <1>1, SizeAssumption DEF Coords
  <2>. QED BY <2>1, I16At
<1>. QED BY <1>1, <1>2, <1>3 DEF NextPixel, Row

LEMMA TwinPixels ==
  ASSUME NEW e, NEW f, Twin(e, f), NEW c, c.dx \in Int, NEW x \in Coords, NEW y
  PROVE  Row(e, Pixels(e, c, x, y), Pixels(f, c, x, y))
<1>1. CASE c.lr_abort
  BY <1>1 DEF Pixels, Row, Drawn
<1>2. CASE ~c.lr_abort
  <2>1. PICK at : PixelsRun(e, c, x, y, 2 * Half, at) /\ Pixels(e, c, x, y) = [e |-> at[2 * Half].e, x |-> at[2 * Half].x]
    BY <1>2, PixelsIs
  <2>2. PICK bt : PixelsRun(f, c, x, y, 2 * Half, bt) /\ Pixels(f, c, x, y) = [e |-> bt[2 * Half].e, x |-> bt[2 * Half].x]
    BY <1>2, PixelsIs
  <2>3. PICK m \in Nat : m = 2 * Half /\ m > 1
    BY SizeAssumption
  <2>4. PICK r0, s0 : r0 = [e |-> e, x |-> x, bit |-> 31] /\ s0 = [e |-> f, x |-> x, bit |-> 31]
    OBVIOUS
  <2>5. at[1] = NextPixel(c, y, r0) /\ \A k \in 1 .. m - 1 : at[k + 1] = PixelsNext(e, c, x, y, k + 1, at[k])
    <3>1. PixelsRun(e, c, x, y, m, at) /\ m >= 1
      BY <2>1, <2>3
    <3>2. PixelsTurned(e, c, x, y, m, at)
      BY <3>1, PixelsTurns
    <3>. QED BY <2>4, <3>1, <3>2 DEF PixelsTurned
  <2>6. bt[1] = NextPixel(c, y, s0) /\ \A k \in 1 .. m - 1 : bt[k + 1] = PixelsNext(f, c, x, y, k + 1, bt[k])
    <3>1. PixelsRun(f, c, x, y, m, bt) /\ m >= 1
      BY <2>2, <2>3
    <3>2. PixelsTurned(f, c, x, y, m, bt)
      BY <3>1, PixelsTurns
    <3>. QED BY <2>4, <3>1, <3>2 DEF PixelsTurned
  <2> DEFINE U == {k \in 1 .. m : Row(e, at[k], bt[k]) /\ bt[k].bit = at[k].bit}
  <2>7. 1 \in U
    <3>1. Row(e, r0, s0) /\ s0.bit = r0.bit
      BY <2>4 DEF Row, Drawn
    <3>. QED BY <2>3, <2>5, <2>6, <3>1, TwinNextPixel
  <2>8. ASSUME NEW k \in 1 .. m - 1, k \in U PROVE k + 1 \in U
    <3>1. PICK r, s : r = at[k] /\ s = bt[k]
      OBVIOUS
    <3>2. Row(e, r, s) /\ s.bit = r.bit
      BY <2>8, <3>1
    <3>3. at[k + 1] = IF MorePixels(c, r) THEN NextPixel(c, y, r) ELSE r
      BY <2>5, <3>1 DEF PixelsNext
    <3>4. bt[k + 1] = IF MorePixels(c, s) THEN NextPixel(c, y, s) ELSE s
      BY <2>6, <3>1 DEF PixelsNext
    <3>5. MorePixels(c, s) = MorePixels(c, r)
      BY <3>2 DEF MorePixels, Row
    <3>6. Row(e, at[k + 1], bt[k + 1]) /\ bt[k + 1].bit = at[k + 1].bit
      BY <3>2, <3>3, <3>4, <3>5, TwinNextPixel
    <3>. QED BY <3>6
  <2>9. \A k \in 1 .. m : k \in U
    <3> HIDE DEF U
    <3>. QED BY <2>3, <2>7, <2>8, UpTo
  <2>10. Row(e, at[m], bt[m])
    BY <2>3, <2>9
  <2>. QED BY <2>1, <2>2, <2>3, <2>10 DEF Row
<1>. QED BY <1>1, <1>2

LEMMA TwinSegment ==
  ASSUME NEW e, NEW f, Twin(e, f), Unmixed(e), NEW c, Plan(e, c), NEW x \in Coords, NEW y \in Int
  PROVE  Row(e, Segment(e, c, x, y), Segment(f, c, x, y))
<1>1. Engine(e) /\ f.scalar = TRUE
  BY TwinView
<1>2. Segment(e, c, x, y) = Pixels(e, c, x, y)
  BY <1>1, SegmentIs
<1>3. Segment(f, c, x, y) = Pixels(f, c, x, y)
  BY <1>1 DEF Segment
<1>4. c.dx \in Int
  BY DEF Plan
<1>. QED BY <1>2, <1>3, <1>4, TwinPixels

LEMMA TwinNextSegment ==
  ASSUME NEW e, Unmixed(e), NEW c, Plan(e, c), NEW r, NEW s, Place(e, r, s)
  PROVE  Place(e, NextSegment(c, r), NextSegment(c, s))
<1>1. Drawn(e, r.e, s.e) /\ Twin(r.e, s.e) /\ s.x = r.x /\ s.y = r.y /\ r.x \in Coords /\ r.y \in Coords
  BY DEF Place, Row, Drawn
<1>2. Unmixed(r.e) /\ Plan(r.e, c) /\ r.y \in Int
  BY <1>1, SizeAssumption DEF Unmixed, Plan, Drawn, Coords
<1>3. PICK p, q : p = Segment(r.e, c, r.x, r.y) /\ q = Segment(s.e, c, r.x, r.y)
  OBVIOUS
<1>4. Row(r.e, p, q)
  BY <1>1, <1>2, <1>3, TwinSegment
<1>5. Drawn(e, p.e, q.e) /\ Twin(p.e, q.e) /\ q.x = p.x /\ p.x \in Coords
  BY <1>1, <1>4, DrawnTwice DEF Row, Drawn
<1>6. Drawn(e, Restart(p.e), Restart(q.e))
  BY <1>5, TwinRestart, DrawnTwice
<1>7. r.e.x_save \in Coords /\ s.e.x_save = r.e.x_save
  <2>1. PICK a, b : a = r.e /\ b = s.e
    OBVIOUS
  <2>2. Twin(a, b)
    BY <1>1, <2>1
  <2>3. Engine(a) /\ b.x_save = a.x_save
    BY <2>2, TwinView
  <2>. QED BY <2>1, <2>3 DEF Engine
<1>8. I16(r.y + c.dy) \in Coords
  <2>1. r.y + c.dy \in Int
    BY <1>2 DEF Plan
  <2>. QED BY <2>1, I16At
<1> DEFINE done == (c.dx > 0 /\ p.x >= c.end_x) \/ (c.dx < 0 /\ p.x <= c.end_x) \/ c.lr_abort
           y == IF done /\ c.block THEN I16(r.y + c.dy) ELSE r.y
           more == c.block /\ y # c.end_y /\ c.stop_on_y
<1>9. NextSegment(c, r) = [e |-> IF done THEN Restart(p.e) ELSE p.e,
                           x |-> IF done /\ c.block THEN r.e.x_save ELSE p.x, y |-> y, more |-> more]
  BY <1>3 DEF NextSegment
<1>10. NextSegment(c, s) = [e |-> IF done THEN Restart(q.e) ELSE q.e,
                            x |-> IF done /\ c.block THEN r.e.x_save ELSE p.x, y |-> y, more |-> more]
  <2>1. q = Segment(s.e, c, s.x, s.y)
    BY <1>1, <1>3
  <2>. QED BY <2>1, <1>1, <1>5, <1>7 DEF NextSegment
<1>11. y \in Coords
  BY <1>1, <1>8
<1> HIDE DEF done, y, more
<1>. QED BY <1>1, <1>5, <1>6, <1>7, <1>9, <1>10, <1>11 DEF Place, Row

LEMMA TwinDrawRow ==
  ASSUME NEW e, Unmixed(e), NEW c, Plan(e, c), NEW r, NEW s, Place(e, r, s)
  PROVE  Place(e, DrawRow(c, r), DrawRow(c, s))
<1>1. PICK m \in Nat : m = Turns(r.x, c.end_x, c.dx) /\ m >= 1 /\ s.x = r.x
  BY TurnsIn DEF Place, Row, Plan
<1>2. PICK at : DrawRowRun(c, r, m, at) /\ DrawRow(c, r) = at[m]
  BY <1>1, DrawRowIs
<1>3. PICK bt : DrawRowRun(c, s, m, bt) /\ DrawRow(c, s) = bt[m]
  BY <1>1, DrawRowIs
<1>4. at[1] = NextSegment(c, r) /\ \A k \in 1 .. m - 1 : at[k + 1] = DrawRowNext(c, r, k + 1, at[k])
  <2>1. m \in Nat /\ m >= 1 /\ DrawRowRun(c, r, m, at)
    BY <1>1, <1>2
  <2>. QED BY <2>1, DrawRowTurns
<1>5. bt[1] = NextSegment(c, s) /\ \A k \in 1 .. m - 1 : bt[k + 1] = DrawRowNext(c, s, k + 1, bt[k])
  <2>1. m \in Nat /\ m >= 1 /\ DrawRowRun(c, s, m, bt)
    BY <1>1, <1>3
  <2>. QED BY <2>1, DrawRowTurns
<1> DEFINE U == {k \in 1 .. m : Place(e, at[k], bt[k])}
<1>6. 1 \in U
  BY <1>1, <1>4, <1>5, TwinNextSegment
<1>7. ASSUME NEW k \in 1 .. m - 1, k \in U PROVE k + 1 \in U
  <2>1. PICK a, b : a = at[k] /\ b = bt[k]
    OBVIOUS
  <2>2. Place(e, a, b)
    BY <1>7, <2>1
  <2>3. at[k + 1] = IF a.more /\ a.y = r.y THEN NextSegment(c, a) ELSE a
    BY <1>4, <2>1 DEF DrawRowNext
  <2>4. bt[k + 1] = IF b.more /\ b.y = s.y THEN NextSegment(c, b) ELSE b
    BY <1>5, <2>1 DEF DrawRowNext
  <2>5. b.more = a.more /\ b.y = a.y /\ s.y = r.y
    BY <2>2 DEF Place
  <2>6. Place(e, NextSegment(c, a), NextSegment(c, b))
    BY <2>2, TwinNextSegment
  <2>7. Place(e, at[k + 1], bt[k + 1])
    BY <2>2, <2>3, <2>4, <2>5, <2>6
  <2>. QED BY <2>7
<1>8. \A k \in 1 .. m : k \in U
  <2> HIDE DEF U
  <2>. QED BY <1>1, <1>6, <1>7, UpTo
<1>9. Place(e, at[m], bt[m])
  BY <1>1, <1>8
<1>. QED BY <1>1, <1>2, <1>3, <1>9


LEMMA TwinDrawRows ==
  ASSUME NEW e, Unmixed(e), NEW c, Plan(e, c), NEW r, NEW s, Place(e, r, s)
  PROVE  Place(e, DrawRows(c, r), DrawRows(c, s))
<1>1. PICK m \in Nat : m = Turns(r.y, c.end_y, c.dy) /\ m >= 1 /\ s.y = r.y
  BY TurnsIn DEF Place, Row, Plan
<1>2. PICK at : DrawRowsRun(c, r, m, at) /\ DrawRows(c, r) = at[m]
  BY <1>1, DrawRowsIs
<1>3. PICK bt : DrawRowsRun(c, s, m, bt) /\ DrawRows(c, s) = bt[m]
  BY <1>1, DrawRowsIs
<1>4. at[1] = DrawRow(c, r) /\ \A k \in 1 .. m - 1 : at[k + 1] = DrawRowsNext(c, r, k + 1, at[k])
  <2>1. m \in Nat /\ m >= 1 /\ DrawRowsRun(c, r, m, at)
    BY <1>1, <1>2
  <2>. QED BY <2>1, DrawRowsTurns
<1>5. bt[1] = DrawRow(c, s) /\ \A k \in 1 .. m - 1 : bt[k + 1] = DrawRowsNext(c, s, k + 1, bt[k])
  <2>1. m \in Nat /\ m >= 1 /\ DrawRowsRun(c, s, m, bt)
    BY <1>1, <1>3
  <2>. QED BY <2>1, DrawRowsTurns
<1> DEFINE U == {k \in 1 .. m : Place(e, at[k], bt[k])}
<1>6. 1 \in U
  BY <1>1, <1>4, <1>5, TwinDrawRow
<1>7. ASSUME NEW k \in 1 .. m - 1, k \in U PROVE k + 1 \in U
  <2>1. PICK a, b : a = at[k] /\ b = bt[k]
    OBVIOUS
  <2>2. Place(e, a, b)
    BY <1>7, <2>1
  <2>3. at[k + 1] = IF a.more THEN DrawRow(c, a) ELSE a
    BY <1>4, <2>1 DEF DrawRowsNext
  <2>4. bt[k + 1] = IF b.more THEN DrawRow(c, b) ELSE b
    BY <1>5, <2>1 DEF DrawRowsNext
  <2>5. b.more = a.more /\ b.y = a.y /\ s.y = r.y
    BY <2>2 DEF Place
  <2>6. Place(e, DrawRow(c, a), DrawRow(c, b))
    BY <2>2, TwinDrawRow
  <2>7. Place(e, at[k + 1], bt[k + 1])
    BY <2>2, <2>3, <2>4, <2>5, <2>6
  <2>. QED BY <2>7
<1>8. \A k \in 1 .. m : k \in U
  <2> HIDE DEF U
  <2>. QED BY <1>1, <1>6, <1>7, UpTo
<1>9. Place(e, at[m], bt[m])
  BY <1>1, <1>8
<1>. QED BY <1>1, <1>2, <1>3, <1>9
LEMMA TwinStart ==
  ASSUME NEW e, NEW f, Twin(e, f), NEW x \in Int, NEW y \in Int
  PROVE  Drawn(e, write_start(e, x, y), write_start(f, x, y))
<1>1. PICK u, v \in Int : u = Sext20(x) /\ v = Sext20(y)
  BY WholeAt
<1>2. PICK g, h : g = write_start(e, x, y) /\ h = write_start(f, x, y)
  OBVIOUS
<1>3. g = [k \in EngineFields |-> IF k = "xs" THEN u ELSE IF k = "ys" THEN v ELSE e[k]]
  BY <1>1, <1>2 DEF write_start, Twin, Engine, EngineFields
<1>4. h = [g EXCEPT !.scalar = TRUE]
  BY <1>1, <1>2 DEF write_start, Twin, Engine, EngineFields
<1>5. Engine(e) /\ g.xs \in Int /\ g.ys \in Int /\ \A k \in EngineFields \ {"xs", "ys"} : g[k] = e[k]
  BY <1>3 DEF EngineFields, Twin
<1>6. Engine(g) /\ g.m0 = e.m0 /\ g.m1 = e.m1
  <2>1. /\ g.m0 = e.m0 /\ g.m1 = e.m1 /\ g.xe = e.xe /\ g.ye = e.ye
        /\ g.x_save = e.x_save /\ g.window = e.window /\ g.smask = e.smask /\ g.color = e.color /\ g.curr = e.curr
        /\ g.slope = e.slope /\ g.pixels = e.pixels /\ g.fb = e.fb /\ g.rb = e.rb
    BY <1>5 DEF EngineFields
  <2>2. g = [k \in EngineFields |-> g[k]]
    BY <1>3
  <2>. QED BY <1>5, <2>1, <2>2 DEF Engine
<1>. QED BY <1>2, <1>4, <1>6 DEF Drawn, Twin

LEMMA PlanIs ==
  ASSUME NEW e, Engine(e), NEW block
  PROVE  Plan(e, Draw(e, block))
<1>1. PICK c : c = Draw(e, block)
  OBVIOUS
<1>2. PICK dx, dy \in Int : dx = (IF e.oct.xdec THEN -1 ELSE 1) /\ dy = (IF e.oct.ydec THEN -1 ELSE 1)
  OBVIOUS
<1>3. c.dx = dx /\ c.dy = dy /\ c.shaded = ((e.m0.shade \/ e.m1.rgb) /\ ~e.m1.fastclear)
  BY <1>1, <1>2 DEF Draw
<1>4. PICK sx, xe \in Coords : sx = Whole(e.xs) /\ xe = Whole(e.xe)
  BY WholeAt DEF Engine
<1>5. \A k \in Coords : k \in Int
  BY SizeAssumption DEF Coords
<1>6. c.end_x = I16(xe + dx)
  BY <1>1, <1>2, <1>4 DEF Draw
<1>7. c.end_x \in Coords
  <2>1. xe + dx \in Int
    BY <1>4, <1>5
  <2>. QED BY <2>1, <1>6, I16At
<1>8. PICK n, l \in Int : n = <<4, 4, 2, 1>>[e.m1.hostdepth + 1] * (IF e.m1.rwdouble THEN 2 ELSE 1) /\ l = Length32
  <2>1. e.m1.hostdepth \in 0 .. 3
    BY DEF Engine
  <2>. QED BY <2>1, SizeAssumption
<1> DEFINE cut == e.m0.len32 /\ (IF block THEN c.end_x - sx >= l ELSE Abs(c.end_x - sx) > l)
           prim == IF cut THEN I16(sx + l * dx) ELSE c.end_x
<1>9. c.prim_end_x = IF (e.m0.color_host /\ e.m1.rwpacked) /\ Abs(prim - sx) > n THEN I16(sx + dx * n) ELSE prim
  BY <1>1, <1>2, <1>4, <1>6, <1>8 DEF Draw
<1>10. I16(sx + l * dx) \in Coords /\ I16(sx + dx * n) \in Coords
  <2>1. sx + l * dx \in Int /\ sx + dx * n \in Int
    BY <1>4, <1>5, <1>2
  <2>. QED BY <2>1, I16At
<1> HIDE DEF cut
<1>11. c.prim_end_x \in Coords
  BY <1>7, <1>9, <1>10
<1>12. c.end_y \in Coords
  <2>1. PICK ye \in Coords : ye = Whole(e.ye)
    BY WholeAt DEF Engine
  <2>2. ye + dy \in Int
    BY <1>5
  <2>3. I16(ye + dy) \in Coords
    BY <2>2, I16At
  <2>4. c.end_y = IF block THEN I16(ye + dy) ELSE ye
    BY <1>1, <1>2, <2>1 DEF Draw
  <2>. QED BY <2>3, <2>4
<1>. QED BY <1>1, <1>2, <1>3, <1>7, <1>11, <1>12 DEF Plan

LEMMA TwinDraw ==
  ASSUME NEW e, NEW f, Twin(e, f), NEW block
  PROVE  Draw(f, block) = Draw(e, block)
<1>1. /\ f.m0 = e.m0 /\ f.m1 = e.m1 /\ f.xs = e.xs /\ f.ys = e.ys /\ f.xe = e.xe /\ f.ye = e.ye /\ f.oct = e.oct
      /\ f.z_pattern = e.z_pattern /\ f.ls_pattern = e.ls_pattern /\ f.color_i = e.color_i
  BY TwinFacts
<1>2. \A k : default_color(f, k) = default_color(e, k)
  BY TwinView, RegsView
<1>. QED BY <1>1, <1>2 DEF Draw

\* A place as a start position, in sixteenths.
LEMMA SixteenIn == ASSUME NEW x \in Coords PROVE 16 * x \in Int /\ x \in Int
  BY SizeAssumption DEF Coords

LEMMA TwinSpan ==
  ASSUME NEW e, NEW f, Twin(e, f), Unmixed(e), NEW block
  PROVE  Drawn(e, span_or_block(e, block), span_or_block(f, block))
<1>1. PICK c : c = Draw(e, block) /\ c = Draw(f, block)
  BY TwinDraw
<1>2. Engine(e) /\ f.xs = e.xs /\ f.ys = e.ys
  BY TwinFacts
<1>3. Plan(e, c)
  BY <1>1, <1>2, PlanIs
<1>4. PICK r0, s0 : r0 = [e |-> e, x |-> Whole(e.xs), y |-> Whole(e.ys), more |-> TRUE]
                    /\ s0 = [e |-> f, x |-> Whole(f.xs), y |-> Whole(f.ys), more |-> TRUE]
  OBVIOUS
<1>5. Place(e, r0, s0)
  <2>1. Whole(e.xs) \in Coords /\ Whole(e.ys) \in Coords
    BY <1>2, WholeAt DEF Engine
  <2>. QED BY <1>2, <1>4, <2>1 DEF Place, Row, Drawn
<1>6. PICK r, s : r = DrawRows(c, r0) /\ s = DrawRows(c, s0)
  OBVIOUS
<1>7. Place(e, r, s)
  BY <1>3, <1>5, <1>6, TwinDrawRows
<1>8. PICK a, b : a = r.e /\ b = s.e
  OBVIOUS
<1>9. Drawn(e, a, b) /\ Twin(a, b) /\ s.x = r.x /\ s.y = r.y /\ r.x \in Coords /\ r.y \in Coords
  BY <1>7, <1>8 DEF Place, Row, Drawn
<1>10. a.ys \in Int /\ b.ys = a.ys
  <2>1. Engine(a) /\ b.ys = a.ys
    BY <1>9, TwinView
  <2>. QED BY <2>1 DEF Engine
<1>11. PICK u \in Int, v \in Int : u = 16 * r.x /\ v = (IF block THEN 16 * r.y ELSE a.ys)
  <2>1. 16 * r.x \in Int /\ 16 * r.y \in Int
    BY <1>9, SixteenIn
  <2>. QED BY <1>10, <2>1
<1>12. span_or_block(e, block) = write_start(a, u, v)
  BY <1>1, <1>4, <1>6, <1>8, <1>11 DEF span_or_block
<1>13. span_or_block(f, block) = write_start(b, u, v)
  BY <1>1, <1>4, <1>6, <1>8, <1>9, <1>10, <1>11 DEF span_or_block
<1>14. Drawn(a, write_start(a, u, v), write_start(b, u, v))
  BY <1>9, TwinStart
<1>. QED BY <1>9, <1>12, <1>13, <1>14, DrawnTwice
-----------------------------------------------------------------------------
(* Lines of twins *)

Point(e, p, q) ==
  /\ Drawn(e, p.e, q.e) /\ q.x = p.x /\ q.y = p.y /\ q.d = p.d
  /\ p.x \in Int /\ p.y \in Int /\ p.d \in Int

LEMMA TwinPlot ==
  ASSUME NEW e, NEW f, Twin(e, f), NEW x, NEW y
  PROVE  Drawn(e, Plot(e, x, y), Plot(f, x, y))
<1>1. Engine(e) /\ Regs(e, f) /\ f.m0 = e.m0 /\ f.m1 = e.m1 /\ f.color_i = e.color_i /\ f.curr = e.curr
  <2>1. Engine(e) /\ Regs(e, f) /\ f.color_i = e.color_i /\ f.curr = e.curr
    BY TwinFacts
  <2>. QED BY <2>1 DEF Regs
<1>2. PICK c : c = (IF e.m0.shade \/ e.m1.rgb THEN rgb_color(e, x, y) ELSE default_color(e, e.color_i))
  OBVIOUS
<1>3. rgb_color(f, x, y) = rgb_color(e, x, y) /\ default_color(f, e.color_i) = default_color(e, e.color_i)
  BY <1>1, RegsView DEF rgb_color
<1>4. PICK a, b : a = output_pixel(e, x, y, c) /\ b = output_pixel(f, x, y, c)
  OBVIOUS
<1>5. Drawn(e, a, b) /\ Twin(a, b)
  BY <1>4, TwinPixel DEF Drawn
<1>6. Drawn(e, iterate_shade(a), iterate_shade(b))
  BY <1>5, TwinIterate, DrawnTwice
<1>7. Plot(e, x, y) = IF e.m0.shade THEN iterate_shade(a) ELSE a
  BY <1>2, <1>4, Zenon DEF Plot
<1>8. Plot(f, x, y) = IF e.m0.shade THEN iterate_shade(b) ELSE b
  <2>1. c = (IF f.m0.shade \/ f.m1.rgb THEN rgb_color(f, x, y) ELSE default_color(f, f.color_i))
    BY <1>1, <1>2, <1>3
  <2>2. Plot(f, x, y) = IF f.m0.shade THEN iterate_shade(b) ELSE b
    BY <2>1, <1>4, Zenon DEF Plot
  <2>. QED BY <2>2, <1>1
<1>. QED BY <1>5, <1>6, <1>7, <1>8

LEMMA TwinNextPoint ==
  ASSUME NEW e, NEW bi, bi.x1 \in Int, bi.x2 \in Int, bi.y1 \in Int, bi.y2 \in Int,
         NEW i \in Int, NEW j \in Int, NEW inc, inc = <<i, j>>, NEW unit, NEW p, NEW q, Point(e, p, q)
  PROVE  Point(e, NextPoint(bi, inc, unit, p), NextPoint(bi, inc, unit, q))
<1>1. Drawn(e, p.e, q.e) /\ Twin(p.e, q.e) /\ q.x = p.x /\ q.y = p.y /\ q.d = p.d
      /\ p.x \in Int /\ p.y \in Int /\ p.d \in Int
  BY DEF Point, Drawn
<1>2. PICK x, y : x = I16(p.x \div unit) /\ y = I16(p.y \div unit)
  OBVIOUS
<1>3. Drawn(e, Plot(p.e, x, y), Plot(q.e, x, y))
  BY <1>1, TwinPlot, DrawnTwice
<1>4. NextPoint(bi, inc, unit, p) = [e |-> Plot(p.e, x, y),
         x |-> p.x + (IF p.d < 0 THEN bi.x1 ELSE bi.x2), y |-> p.y - (IF p.d < 0 THEN bi.y1 ELSE bi.y2),
         d |-> p.d + (IF p.d < 0 THEN inc[1] ELSE inc[2])]
  BY <1>2, Zenon DEF NextPoint
<1>5. NextPoint(bi, inc, unit, q) = [e |-> Plot(q.e, x, y),
         x |-> p.x + (IF p.d < 0 THEN bi.x1 ELSE bi.x2), y |-> p.y - (IF p.d < 0 THEN bi.y1 ELSE bi.y2),
         d |-> p.d + (IF p.d < 0 THEN inc[1] ELSE inc[2])]
  BY <1>1, <1>2, Zenon DEF NextPoint
<1>6. /\ p.x + (IF p.d < 0 THEN bi.x1 ELSE bi.x2) \in Int
      /\ p.y - (IF p.d < 0 THEN bi.y1 ELSE bi.y2) \in Int
      /\ p.d + (IF p.d < 0 THEN inc[1] ELSE inc[2]) \in Int
  BY <1>1
<1>. QED BY <1>3, <1>4, <1>5, <1>6 DEF Point

LEMMA TwinWalk ==
  ASSUME NEW e, NEW bi, bi.x1 \in Int, bi.x2 \in Int, bi.y1 \in Int, bi.y2 \in Int,
         NEW i \in Int, NEW j \in Int, NEW inc, inc = <<i, j>>, NEW unit, NEW p, NEW q, Point(e, p, q), NEW n \in Nat
  PROVE  Point(e, Walk(bi, inc, unit, p, n), Walk(bi, inc, unit, q, n))
<1>1. PICK at : WalkRun(bi, inc, unit, p, n, at) /\ Walk(bi, inc, unit, p, n) = at[n]
  BY WalkIs
<1>2. PICK bt : WalkRun(bi, inc, unit, q, n, bt) /\ Walk(bi, inc, unit, q, n) = bt[n]
  BY WalkIs
<1>3. at[0] = p /\ \A k \in 0 .. n - 1 : at[k + 1] = NextPoint(bi, inc, unit, at[k])
  <2>1. WalkTurned(bi, inc, unit, p, n, at)
    BY <1>1, WalkTurns
  <2>. QED BY <2>1 DEF WalkTurned, WalkNext
<1>4. bt[0] = q /\ \A k \in 0 .. n - 1 : bt[k + 1] = NextPoint(bi, inc, unit, bt[k])
  <2>1. WalkTurned(bi, inc, unit, q, n, bt)
    BY <1>2, WalkTurns
  <2>. QED BY <2>1 DEF WalkTurned, WalkNext
<1> DEFINE U == {k \in 0 .. n : Point(e, at[k], bt[k])}
<1>5. 0 \in U
  BY <1>3, <1>4
<1>6. ASSUME NEW k \in 0 .. n - 1, k \in U PROVE k + 1 \in U
  <2>1. PICK a, b : a = at[k] /\ b = bt[k]
    OBVIOUS
  <2>2. Point(e, a, b)
    BY <1>6, <2>1
  <2>3. Point(e, NextPoint(bi, inc, unit, a), NextPoint(bi, inc, unit, b))
    BY <2>2, TwinNextPoint
  <2>. QED BY <1>3, <1>4, <2>1, <2>3
<1>7. \A k \in 0 .. n : k \in U
  <2> HIDE DEF U
  <2>. QED BY <1>5, <1>6, UpTo
<1>. QED BY <1>1, <1>2, <1>7

LEMMA CountIs ==
  ASSUME NEW e, NEW f, f.m0 = e.m0, NEW n \in Int
  PROVE  LoopCount(e, n) \in Nat /\ LoopCount(f, n) = LoopCount(e, n) /\ IterateOne(f) = IterateOne(e)
  BY SizeAssumption DEF LoopCount, Limit, IterateOne

LEMMA BresIn ==
  ASSUME NEW oct PROVE Bres(oct).x1 \in Int /\ Bres(oct).x2 \in Int /\ Bres(oct).y1 \in Int /\ Bres(oct).y2 \in Int
  BY DEF Bres

LEMMA AbsIn == ASSUME NEW v \in Int PROVE Abs(v) \in Int
  BY DEF Abs

LEMMA TwinILine ==
  ASSUME NEW e, NEW f, Twin(e, f)
  PROVE  Drawn(e, do_iline(e), do_iline(f))
<1>1. Engine(e) /\ f.m0 = e.m0 /\ f.xs = e.xs /\ f.ys = e.ys /\ f.xe = e.xe /\ f.ye = e.ye /\ f.oct = e.oct
  BY TwinFacts
<1>2. PICK x, y, x2, y2 \in Coords : x = Whole(e.xs) /\ y = Whole(e.ys) /\ x2 = Whole(e.xe) /\ y2 = Whole(e.ye)
  BY <1>1, WholeAt DEF Engine
<1>3. x \in Int /\ y \in Int /\ x2 \in Int /\ y2 \in Int
  BY SixteenIn
<1>4. PICK major, minor \in Int : /\ major = (IF e.oct.xmajor THEN Abs(x2 - x) ELSE Abs(y2 - y))
                                  /\ minor = (IF e.oct.xmajor THEN Abs(y2 - y) ELSE Abs(x2 - x))
  <2>1. PICK u, v \in Int : u = x2 - x /\ v = y2 - y
    BY <1>3
  <2>2. Abs(u) \in Int /\ Abs(v) \in Int
    BY <2>1, AbsIn
  <2>. QED BY <2>1, <2>2
<1>5. PICK i, j, d \in Int : i = 2 * minor /\ j = 2 * (minor - major) /\ d = 2 * minor - major
  OBVIOUS
<1>6. PICK inc, bi : inc = <<i, j>> /\ bi = Bres(e.oct)
  OBVIOUS
<1>7. PICK n \in Nat : n = (IF IterateOne(e) THEN 1 ELSE LoopCount(e, major))
  BY CountIs
<1>8. PICK p0, q0 : p0 = [e |-> e, x |-> x, y |-> y, d |-> d] /\ q0 = [e |-> f, x |-> x, y |-> y, d |-> d]
  OBVIOUS
<1>9. PICK p, q : p = Walk(bi, inc, 1, p0, n) /\ q = Walk(bi, inc, 1, q0, n)
  OBVIOUS
<1>10. do_iline(e) = IF IterateOne(e) \/ e.m0.skip_last THEN write_start(p.e, 16 * p.x, 16 * p.y)
                     ELSE write_start(Plot(p.e, x2, y2), 16 * x2, 16 * y2)
  BY <1>2, <1>4, <1>5, <1>6, <1>7, <1>8, <1>9 DEF do_iline
<1>11. do_iline(f) = IF IterateOne(e) \/ e.m0.skip_last THEN write_start(q.e, 16 * q.x, 16 * q.y)
                     ELSE write_start(Plot(q.e, x2, y2), 16 * x2, 16 * y2)
  <2>1. n = (IF IterateOne(f) THEN 1 ELSE LoopCount(f, major)) /\ IterateOne(f) = IterateOne(e)
    BY <1>1, <1>7, CountIs
  <2>. QED BY <1>1, <1>2, <1>4, <1>5, <1>6, <1>8, <1>9, <2>1 DEF do_iline
<1>12. Point(e, p, q)
  <2>1. Point(e, p0, q0)
    BY <1>3, <1>8 DEF Point, Drawn
  <2>2. bi.x1 \in Int /\ bi.x2 \in Int /\ bi.y1 \in Int /\ bi.y2 \in Int
    BY <1>6, BresIn
  <2>. QED BY <1>6, <1>9, <2>1, <2>2, TwinWalk
<1>13. PICK a, b : a = p.e /\ b = q.e
  OBVIOUS
<1>14. Drawn(e, a, b) /\ Twin(a, b) /\ q.x = p.x /\ q.y = p.y /\ 16 * p.x \in Int /\ 16 * p.y \in Int
  BY <1>12, <1>13 DEF Point, Drawn
<1>15. Drawn(e, write_start(a, 16 * p.x, 16 * p.y), write_start(b, 16 * p.x, 16 * p.y))
  BY <1>14, TwinStart, DrawnTwice
<1>16. PICK pa, pb : pa = Plot(a, x2, y2) /\ pb = Plot(b, x2, y2)
  OBVIOUS
<1>17. Drawn(e, pa, pb) /\ Twin(pa, pb)
  BY <1>14, <1>16, TwinPlot, DrawnTwice DEF Drawn
<1>18. Drawn(e, write_start(pa, 16 * x2, 16 * y2), write_start(pb, 16 * x2, 16 * y2))
  <2>1. 16 * x2 \in Int /\ 16 * y2 \in Int
    BY <1>3
  <2>. QED BY <2>1, <1>17, TwinStart, DrawnTwice
<1>. QED BY <1>10, <1>11, <1>13, <1>14, <1>15, <1>16, <1>18

LEMMA TwinFLine ==
  ASSUME NEW e, NEW f, Twin(e, f)
  PROVE  Drawn(e, do_fline(e), do_fline(f))
<1>1. Engine(e) /\ f.m0 = e.m0 /\ f.xs = e.xs /\ f.ys = e.ys /\ f.xe = e.xe /\ f.ye = e.ye /\ f.oct = e.oct
  BY TwinFacts
<1>2. PICK xs, ys, xe, ye \in Int : xs = e.xs /\ ys = e.ys /\ xe = e.xe /\ ye = e.ye
  BY <1>1 DEF Engine
<1>3. PICK xt, yt, xu, yu, xf, yf \in Int : /\ xt = xs - (xs % 16) /\ yt = ys - (ys % 16)
                                            /\ xu = xe - (xe % 16) /\ yu = ye - (ye % 16)
                                            /\ xf = xs % 16 /\ yf = ys % 16
  OBVIOUS
<1>4. PICK dx, dy \in Int : dx = Abs(xs - xe) /\ dy = Abs(ys - ye)
  <2>1. PICK u, v \in Int : u = xs - xe /\ v = ys - ye
    OBVIOUS
  <2>. QED BY <2>1, AbsIn
<1>5. PICK fx, fy \in Int : fx = (IF e.oct.xdec THEN 16 - xf ELSE xf) /\ fy = (IF e.oct.ydec THEN yf ELSE 16 - yf)
  OBVIOUS
<1>6. PICK major, minor \in Int : major = (IF e.oct.xmajor THEN dx ELSE dy) /\ minor = (IF e.oct.xmajor THEN dy ELSE dx)
  OBVIOUS
<1>7. PICK p1, p2, p3, p4 \in Int : /\ p1 = (dx * fy) \div 16 /\ p2 = (dy * fx) \div 16
                                    /\ p3 = (dy * fx) \div 16 /\ p4 = (dx * fy) \div 16
  <2>1. PICK u, v \in Int : u = dx * fy /\ v = dy * fx
    OBVIOUS
  <2>2. u \div 16 \in Int /\ v \div 16 \in Int
    OBVIOUS
  <2>. QED BY <2>1, <2>2
<1>8. PICK d0 \in Int : d0 = 3 * minor - 2 * major + 2 * (IF e.oct.xmajor THEN p1 - p2 ELSE p3 - p4)
  OBVIOUS
<1>9. PICK i, j \in Int : i = 2 * minor /\ j = 2 * (minor - major)
  OBVIOUS
<1>10. PICK inc, bi : inc = <<i, j>> /\ bi = Bres(e.oct)
  OBVIOUS
<1>11. bi.x1 \in Int /\ bi.x2 \in Int /\ bi.y1 \in Int /\ bi.y2 \in Int
  BY <1>10, BresIn
<1>12. PICK loop \in Int : loop = (IF e.oct.xmajor THEN Abs(xt - xu) ELSE Abs(yt - yu)) - 1
  <2>1. PICK u, v \in Int : u = xt - xu /\ v = yt - yu
    OBVIOUS
  <2>2. Abs(u) \in Int /\ Abs(v) \in Int
    BY AbsIn
  <2>. QED BY <2>1, <2>2
<1>13. PICK n \in Nat : n = (IF IterateOne(e) THEN 1 ELSE LoopCount(e, loop))
  BY CountIs
<1>14. PICK x, y, d \in Int : /\ x = (IF d0 - 2 * major > 0 /\ ~e.oct.xmajor THEN xt + bi.x2 ELSE xt)
                              /\ y = (IF d0 - 2 * major > 0 /\ e.oct.xmajor THEN yt + bi.y2 ELSE yt)
                              /\ d = (IF d0 - 2 * major > 0 THEN d0 - 2 * major ELSE d0)
  <2> DEFINE over == d0 - 2 * major > 0
             u == IF over /\ ~e.oct.xmajor THEN xt + bi.x2 ELSE xt
             v == IF over /\ e.oct.xmajor THEN yt + bi.y2 ELSE yt
             w == IF over THEN d0 - 2 * major ELSE d0
  <2>1. u \in Int /\ v \in Int /\ w \in Int
    <3> HIDE DEF over
    <3>. QED BY <1>11
  <2>. QED BY <2>1
<1>15. PICK p0, q0 : p0 = [e |-> e, x |-> x, y |-> y, d |-> d] /\ q0 = [e |-> f, x |-> x, y |-> y, d |-> d]
  OBVIOUS
<1>16. PICK p, q : p = Walk(bi, inc, 16, p0, n) /\ q = Walk(bi, inc, 16, q0, n)
  OBVIOUS
<1>17. PICK x2, y2, x3, y3 : x2 = I16(xe \div 16) /\ y2 = I16(ye \div 16) /\ x3 = xe \div 128 /\ y3 = ye \div 128
  OBVIOUS
<1>18. x3 \in Int /\ y3 \in Int
  BY <1>17
<1>19. do_fline(e) = IF IterateOne(e) \/ e.m0.skip_last THEN write_start(p.e, p.x, p.y)
                     ELSE write_start(Plot(p.e, x2, y2), x3, y3)
  <2>1. e.xs = xs /\ e.ys = ys /\ e.xe = xe /\ e.ye = ye
    BY <1>2
  <2> DEFINE xt1 == e.xs - (e.xs % 16)
             yt1 == e.ys - (e.ys % 16)
             mx == e.oct.xmajor
             bi1 == Bres(e.oct)
             dx1 == Abs(e.xs - e.xe)
             dy1 == Abs(e.ys - e.ye)
             major1 == IF mx THEN dx1 ELSE dy1
             minor1 == IF mx THEN dy1 ELSE dx1
             fx1 == IF e.oct.xdec THEN 16 - (e.xs % 16) ELSE e.xs % 16
             fy1 == IF e.oct.ydec THEN e.ys % 16 ELSE 16 - (e.ys % 16)
             inc1 == <<2 * minor1, 2 * (minor1 - major1)>>
             d01 == 3 * minor1 - 2 * major1
                      + 2 * (IF mx THEN ((dx1 * fy1) \div 16) - ((dy1 * fx1) \div 16)
                             ELSE ((dy1 * fx1) \div 16) - ((dx1 * fy1) \div 16))
             over == d01 - 2 * major1 > 0
             loop1 == (IF mx THEN Abs(xt1 - (e.xe - (e.xe % 16))) ELSE Abs(yt1 - (e.ye - (e.ye % 16)))) - 1
             n1 == IF IterateOne(e) THEN 1 ELSE LoopCount(e, loop1)
             z == [e |-> e, x |-> IF over /\ ~mx THEN xt1 + bi1.x2 ELSE xt1,
                   y |-> IF over /\ mx THEN yt1 + bi1.y2 ELSE yt1, d |-> IF over THEN d01 - 2 * major1 ELSE d01]
             w == Walk(bi1, inc1, 16, z, n1)
  <2>2. do_fline(e) = IF IterateOne(e) \/ e.m0.skip_last THEN write_start(w.e, w.x, w.y)
                      ELSE write_start(Plot(w.e, I16(e.xe \div 16), I16(e.ye \div 16)), e.xe \div 128, e.ye \div 128)
    BY Zenon DEF do_fline
  <2>3. xt1 = xt /\ yt1 = yt /\ mx = e.oct.xmajor /\ dx1 = dx /\ dy1 = dy /\ fx1 = fx /\ fy1 = fy /\ bi1 = bi
    BY <2>1, <1>3, <1>4, <1>5, <1>10
  <2>4. loop1 = loop
    <3>1. e.xe - (e.xe % 16) = xu /\ e.ye - (e.ye % 16) = yu
      BY <2>1, <1>3
    <3> HIDE DEF xt1, yt1, mx
    <3>. QED BY <2>3, <3>1, <1>12
  <2>5. I16(e.xe \div 16) = x2 /\ I16(e.ye \div 16) = y2 /\ e.xe \div 128 = x3 /\ e.ye \div 128 = y3
    BY <2>1, <1>17
  <2> HIDE DEF xt1, yt1, mx, dx1, dy1, fx1, fy1, bi1, loop1
  <2>6. major1 = major /\ minor1 = minor
    BY <2>3, <1>6
  <2> HIDE DEF major1, minor1
  <2>7. inc1 = inc
    BY <2>6, <1>9, <1>10
  <2>8. d01 = d0
    <3>1. (dx1 * fy1) \div 16 = p1 /\ (dy1 * fx1) \div 16 = p2 /\ (dy1 * fx1) \div 16 = p3 /\ (dx1 * fy1) \div 16 = p4
      BY <2>3, <1>7
    <3> DEFINE q1 == (dx1 * fy1) \div 16
               q2 == (dy1 * fx1) \div 16
    <3>2. d01 = 3 * minor1 - 2 * major1 + 2 * (IF mx THEN q1 - q2 ELSE q2 - q1) /\ q1 = p1 /\ q2 = p2 /\ q2 = p3 /\ q1 = p4
      BY <3>1
    <3> HIDE DEF d01, q1, q2
    <3>. QED BY <3>2, <2>3, <2>6, <1>8
  <2> HIDE DEF d01
  <2>9. z = p0 /\ n1 = n
    <3>1. n1 = n
      BY <2>1, <2>4, <1>13
    <3> HIDE DEF n1
    <3>2. over = (d0 - 2 * major > 0)
      BY <2>6, <2>8
    <3> HIDE DEF over
    <3>. QED BY <3>1, <3>2, <2>3, <2>6, <2>8, <1>14, <1>15
  <2> HIDE DEF z, n1, inc1
  <2>10. w = p
    BY <2>3, <2>7, <2>9, <1>16
  <2> HIDE DEF w
  <2>. QED BY <2>1, <2>2, <2>5, <2>10
<1>20. do_fline(f) = IF IterateOne(e) \/ e.m0.skip_last THEN write_start(q.e, q.x, q.y)
                     ELSE write_start(Plot(q.e, x2, y2), x3, y3)
  <2>1. f.xs = xs /\ f.ys = ys /\ f.xe = xe /\ f.ye = ye /\ f.oct = e.oct /\ f.m0.skip_last = e.m0.skip_last
        /\ IterateOne(f) = IterateOne(e) /\ LoopCount(f, loop) = LoopCount(e, loop)
    BY <1>1, <1>2, CountIs
  <2> DEFINE xt1 == f.xs - (f.xs % 16)
             yt1 == f.ys - (f.ys % 16)
             mx == f.oct.xmajor
             bi1 == Bres(f.oct)
             dx1 == Abs(f.xs - f.xe)
             dy1 == Abs(f.ys - f.ye)
             major1 == IF mx THEN dx1 ELSE dy1
             minor1 == IF mx THEN dy1 ELSE dx1
             fx1 == IF f.oct.xdec THEN 16 - (f.xs % 16) ELSE f.xs % 16
             fy1 == IF f.oct.ydec THEN f.ys % 16 ELSE 16 - (f.ys % 16)
             inc1 == <<2 * minor1, 2 * (minor1 - major1)>>
             d01 == 3 * minor1 - 2 * major1
                      + 2 * (IF mx THEN ((dx1 * fy1) \div 16) - ((dy1 * fx1) \div 16)
                             ELSE ((dy1 * fx1) \div 16) - ((dx1 * fy1) \div 16))
             over == d01 - 2 * major1 > 0
             loop1 == (IF mx THEN Abs(xt1 - (f.xe - (f.xe % 16))) ELSE Abs(yt1 - (f.ye - (f.ye % 16)))) - 1
             n1 == IF IterateOne(f) THEN 1 ELSE LoopCount(f, loop1)
             z == [e |-> f, x |-> IF over /\ ~mx THEN xt1 + bi1.x2 ELSE xt1,
                   y |-> IF over /\ mx THEN yt1 + bi1.y2 ELSE yt1, d |-> IF over THEN d01 - 2 * major1 ELSE d01]
             w == Walk(bi1, inc1, 16, z, n1)
  <2>2. do_fline(f) = IF IterateOne(f) \/ f.m0.skip_last THEN write_start(w.e, w.x, w.y)
                      ELSE write_start(Plot(w.e, I16(f.xe \div 16), I16(f.ye \div 16)), f.xe \div 128, f.ye \div 128)
    BY Zenon DEF do_fline
  <2>3. xt1 = xt /\ yt1 = yt /\ mx = e.oct.xmajor /\ dx1 = dx /\ dy1 = dy /\ fx1 = fx /\ fy1 = fy /\ bi1 = bi
    BY <2>1, <1>3, <1>4, <1>5, <1>10
  <2>4. loop1 = loop
    <3>1. f.xe - (f.xe % 16) = xu /\ f.ye - (f.ye % 16) = yu
      BY <2>1, <1>3
    <3> HIDE DEF xt1, yt1, mx
    <3>. QED BY <2>3, <3>1, <1>12
  <2>5. I16(f.xe \div 16) = x2 /\ I16(f.ye \div 16) = y2 /\ f.xe \div 128 = x3 /\ f.ye \div 128 = y3
    BY <2>1, <1>17
  <2> HIDE DEF xt1, yt1, mx, dx1, dy1, fx1, fy1, bi1, loop1
  <2>6. major1 = major /\ minor1 = minor
    BY <2>3, <1>6
  <2> HIDE DEF major1, minor1
  <2>7. inc1 = inc
    BY <2>6, <1>9, <1>10
  <2>8. d01 = d0
    <3>1. (dx1 * fy1) \div 16 = p1 /\ (dy1 * fx1) \div 16 = p2 /\ (dy1 * fx1) \div 16 = p3 /\ (dx1 * fy1) \div 16 = p4
      BY <2>3, <1>7
    <3> DEFINE q1 == (dx1 * fy1) \div 16
               q2 == (dy1 * fx1) \div 16
    <3>2. d01 = 3 * minor1 - 2 * major1 + 2 * (IF mx THEN q1 - q2 ELSE q2 - q1) /\ q1 = p1 /\ q2 = p2 /\ q2 = p3 /\ q1 = p4
      BY <3>1
    <3> HIDE DEF d01, q1, q2
    <3>. QED BY <3>2, <2>3, <2>6, <1>8
  <2> HIDE DEF d01
  <2>9. z = q0 /\ n1 = n
    <3>1. n1 = n
      BY <2>1, <2>4, <1>13
    <3> HIDE DEF n1
    <3>2. over = (d0 - 2 * major > 0)
      BY <2>6, <2>8
    <3> HIDE DEF over
    <3>. QED BY <3>1, <3>2, <2>3, <2>6, <2>8, <1>14, <1>15
  <2> HIDE DEF z, n1, inc1
  <2>10. w = q
    BY <2>3, <2>7, <2>9, <1>16
  <2> HIDE DEF w
  <2>. QED BY <2>1, <2>2, <2>5, <2>10
<1>21. Point(e, p, q)
  <2>1. Point(e, p0, q0)
    BY <1>15 DEF Point, Drawn
  <2>. QED BY <1>10, <1>11, <1>16, <2>1, TwinWalk
<1>22. PICK a, b : a = p.e /\ b = q.e
  OBVIOUS
<1>23. Drawn(e, a, b) /\ Twin(a, b) /\ q.x = p.x /\ q.y = p.y /\ p.x \in Int /\ p.y \in Int
  BY <1>21, <1>22 DEF Point, Drawn
<1>24. Drawn(e, write_start(a, p.x, p.y), write_start(b, p.x, p.y))
  BY <1>23, TwinStart, DrawnTwice
<1>25. PICK pa, pb : pa = Plot(a, x2, y2) /\ pb = Plot(b, x2, y2)
  OBVIOUS
<1>26. Drawn(e, pa, pb) /\ Twin(pa, pb)
  BY <1>23, <1>25, TwinPlot, DrawnTwice DEF Drawn
<1>27. Drawn(e, write_start(pa, x3, y3), write_start(pb, x3, y3))
  BY <1>18, <1>26, TwinStart, DrawnTwice
<1>. QED BY <1>19, <1>20, <1>22, <1>23, <1>24, <1>25, <1>27
-----------------------------------------------------------------------------
(* Copies and reads of twins *)

LEMMA TwinFetch == ASSUME NEW e, NEW f, Twin(e, f), NEW p PROVE Fetch(f, p) = Fetch(e, p)
<1>1. f.fb = e.fb /\ Regs(e, f)
  BY TwinFacts
<1>2. f.rb = e.rb
  BY <1>1 DEF Regs
<1>. QED BY <1>1, <1>2 DEF Fetch

LEMMA TwinNextCopy ==
  ASSUME NEW e, NEW c, c.dx \in Int, c.dy \in Int, NEW r, NEW s, Place(e, r, s)
  PROVE  Place(e, NextCopy(c, r), NextCopy(c, s))
<1>1. PICK a, b : a = r.e /\ b = s.e
  OBVIOUS
<1>2. Drawn(e, a, b) /\ Twin(a, b) /\ s.x = r.x /\ s.y = r.y /\ r.x \in Coords /\ r.y \in Coords
  BY <1>1 DEF Place, Row, Drawn
<1>3. Engine(a) /\ b.x_save = a.x_save /\ b.move = a.move /\ Regs(a, b)
  BY <1>2, TwinView
<1>4. b.window = a.window /\ b.m0 = a.m0
  BY <1>3 DEF Regs
<1>5. a.x_save \in Coords
  BY <1>3 DEF Engine
<1>6. PICK p : p = <<r.x + a.window.x - Bias, r.y + a.window.y - Bias>>
  OBVIOUS
<1>7. PICK v : v = Fetch(a, p) /\ v = Fetch(b, p)
  BY <1>2, TwinFetch
<1>8. PICK x, y : x = I16(r.x + a.move.x) /\ y = I16(r.y + a.move.y)
  OBVIOUS
<1>9. Drawn(e, output_pixel(a, x, y, v), output_pixel(b, x, y, v))
  BY <1>2, TwinPixel, DrawnTwice
<1>10. PICK x1, y1 \in Coords : x1 = I16(r.x + c.dx) /\ y1 = I16(r.y + c.dy)
  <2>1. r.x + c.dx \in Int /\ r.y + c.dy \in Int
    BY <1>2, SixteenIn
  <2>. QED BY <2>1, I16At
<1> DEFINE yn == IF x1 = c.end_x THEN y1 ELSE r.y
           more == (x1 # c.end_x /\ a.m0.stop_x) \/ (yn # c.end_y /\ a.m0.stop_y)
<1>11. NextCopy(c, r) = [e |-> output_pixel(a, x, y, v), x |-> IF x1 = c.end_x THEN a.x_save ELSE x1, y |-> yn, more |-> more]
  BY <1>1, <1>6, <1>7, <1>8, <1>10 DEF NextCopy
<1>12. NextCopy(c, s) = [e |-> output_pixel(b, x, y, v), x |-> IF x1 = c.end_x THEN a.x_save ELSE x1, y |-> yn, more |-> more]
  BY <1>1, <1>2, <1>3, <1>4, <1>6, <1>7, <1>8, <1>10 DEF NextCopy
<1>13. yn \in Coords
  BY <1>2, <1>10
<1> HIDE DEF yn, more
<1>. QED BY <1>5, <1>9, <1>10, <1>11, <1>12, <1>13 DEF Place, Row

LEMMA TwinCopyRow ==
  ASSUME NEW e, NEW c, c.dx \in Int, c.dy \in Int, c.end_x \in Coords, c.end_y \in Coords, NEW r, NEW s, Place(e, r, s)
  PROVE  Place(e, CopyRow(c, r), CopyRow(c, s))
<1>1. PICK m \in Nat : m = Turns(r.x, c.end_x, c.dx) /\ m >= 1 /\ s.x = r.x
  BY TurnsIn DEF Place, Row
<1>2. PICK at : CopyRowRun(c, r, m, at) /\ CopyRow(c, r) = at[m]
  BY <1>1, CopyRowIs
<1>3. PICK bt : CopyRowRun(c, s, m, bt) /\ CopyRow(c, s) = bt[m]
  BY <1>1, CopyRowIs
<1>4. at[1] = NextCopy(c, r) /\ \A k \in 1 .. m - 1 : at[k + 1] = CopyRowNext(c, r, k + 1, at[k])
  BY <1>1, <1>2, CopyRowTurns
<1>5. bt[1] = NextCopy(c, s) /\ \A k \in 1 .. m - 1 : bt[k + 1] = CopyRowNext(c, s, k + 1, bt[k])
  BY <1>1, <1>3, CopyRowTurns
<1> DEFINE U == {k \in 1 .. m : Place(e, at[k], bt[k])}
<1>6. 1 \in U
  BY <1>1, <1>4, <1>5, TwinNextCopy
<1>7. ASSUME NEW k \in 1 .. m - 1, k \in U PROVE k + 1 \in U
  <2>1. PICK a, b : a = at[k] /\ b = bt[k]
    OBVIOUS
  <2>2. Place(e, a, b)
    BY <1>7, <2>1
  <2>3. at[k + 1] = IF a.more /\ a.y = r.y THEN NextCopy(c, a) ELSE a
    BY <1>4, <2>1 DEF CopyRowNext
  <2>4. bt[k + 1] = IF b.more /\ b.y = s.y THEN NextCopy(c, b) ELSE b
    BY <1>5, <2>1 DEF CopyRowNext
  <2>5. b.more = a.more /\ b.y = a.y /\ s.y = r.y
    BY <2>2 DEF Place
  <2>6. Place(e, NextCopy(c, a), NextCopy(c, b))
    BY <2>2, TwinNextCopy
  <2>7. Place(e, at[k + 1], bt[k + 1])
    BY <2>2, <2>3, <2>4, <2>5, <2>6
  <2>. QED BY <2>7
<1>8. \A k \in 1 .. m : k \in U
  <2> HIDE DEF U
  <2>. QED BY <1>1, <1>6, <1>7, UpTo
<1>9. Place(e, at[m], bt[m])
  BY <1>1, <1>8
<1>. QED BY <1>1, <1>2, <1>3, <1>9

LEMMA TwinCopyRows ==
  ASSUME NEW e, NEW c, c.dx \in Int, c.dy \in Int, c.end_x \in Coords, c.end_y \in Coords, NEW r, NEW s, Place(e, r, s)
  PROVE  Place(e, CopyRows(c, r), CopyRows(c, s))
<1>1. PICK m \in Nat : m = Turns(r.y, c.end_y, c.dy) /\ m >= 1 /\ s.y = r.y
  BY TurnsIn DEF Place, Row
<1>2. PICK at : CopyRowsRun(c, r, m, at) /\ CopyRows(c, r) = at[m]
  BY <1>1, CopyRowsIs
<1>3. PICK bt : CopyRowsRun(c, s, m, bt) /\ CopyRows(c, s) = bt[m]
  BY <1>1, CopyRowsIs
<1>4. at[1] = CopyRow(c, r) /\ \A k \in 1 .. m - 1 : at[k + 1] = CopyRowsNext(c, r, k + 1, at[k])
  BY <1>1, <1>2, CopyRowsTurns
<1>5. bt[1] = CopyRow(c, s) /\ \A k \in 1 .. m - 1 : bt[k + 1] = CopyRowsNext(c, s, k + 1, bt[k])
  BY <1>1, <1>3, CopyRowsTurns
<1> DEFINE U == {k \in 1 .. m : Place(e, at[k], bt[k])}
<1>6. 1 \in U
  BY <1>1, <1>4, <1>5, TwinCopyRow
<1>7. ASSUME NEW k \in 1 .. m - 1, k \in U PROVE k + 1 \in U
  <2>1. PICK a, b : a = at[k] /\ b = bt[k]
    OBVIOUS
  <2>2. Place(e, a, b)
    BY <1>7, <2>1
  <2>3. at[k + 1] = IF a.more THEN CopyRow(c, a) ELSE a
    BY <1>4, <2>1 DEF CopyRowsNext
  <2>4. bt[k + 1] = IF b.more THEN CopyRow(c, b) ELSE b
    BY <1>5, <2>1 DEF CopyRowsNext
  <2>5. b.more = a.more /\ b.y = a.y /\ s.y = r.y
    BY <2>2 DEF Place
  <2>6. Place(e, CopyRow(c, a), CopyRow(c, b))
    BY <2>2, TwinCopyRow
  <2>7. Place(e, at[k + 1], bt[k + 1])
    BY <2>2, <2>3, <2>4, <2>5, <2>6
  <2>. QED BY <2>7
<1>8. \A k \in 1 .. m : k \in U
  <2> HIDE DEF U
  <2>. QED BY <1>1, <1>6, <1>7, UpTo
<1>9. Place(e, at[m], bt[m])
  BY <1>1, <1>8
<1>. QED BY <1>1, <1>2, <1>3, <1>9

LEMMA TwinCopy == ASSUME NEW e, NEW f, Twin(e, f) PROVE Drawn(e, scr2scr(e), scr2scr(f))
<1>1. Engine(e) /\ f.xs = e.xs /\ f.ys = e.ys /\ f.xe = e.xe /\ f.ye = e.ye /\ f.oct = e.oct
  BY TwinFacts
<1>2. PICK c : c = CopyPlan(e)
  OBVIOUS
<1>3. CopyPlan(f) = c /\ c.dx \in Int /\ c.dy \in Int /\ c.end_x \in Coords /\ c.end_y \in Coords
  <2>1. PICK dx, dy \in Int : dx = (IF e.oct.xdec THEN -1 ELSE 1) /\ dy = (IF e.oct.ydec THEN -1 ELSE 1)
    OBVIOUS
  <2>2. PICK x, y \in Coords : x = Whole(e.xe) /\ y = Whole(e.ye)
    BY <1>1, WholeAt DEF Engine
  <2>3. I16(x + dx) \in Coords /\ I16(y + dy) \in Coords
    <3>1. x + dx \in Int /\ y + dy \in Int
      BY SixteenIn
    <3>. QED BY <3>1, I16At
  <2>. QED BY <1>1, <1>2, <2>1, <2>2, <2>3 DEF CopyPlan
<1>4. PICK r0, s0 : r0 = [e |-> e, x |-> Whole(e.xs), y |-> Whole(e.ys), more |-> TRUE]
                    /\ s0 = [e |-> f, x |-> Whole(f.xs), y |-> Whole(f.ys), more |-> TRUE]
  OBVIOUS
<1>5. Place(e, r0, s0)
  <2>1. Whole(e.xs) \in Coords /\ Whole(e.ys) \in Coords
    BY <1>1, WholeAt DEF Engine
  <2>. QED BY <1>1, <1>4, <2>1 DEF Place, Row, Drawn
<1>6. PICK r, s : r = CopyRows(c, r0) /\ s = CopyRows(c, s0)
  OBVIOUS
<1>7. Place(e, r, s)
  BY <1>3, <1>5, <1>6, TwinCopyRows
<1>8. PICK a, b : a = r.e /\ b = s.e
  OBVIOUS
<1>9. Drawn(e, a, b) /\ Twin(a, b) /\ s.x = r.x /\ s.y = r.y /\ r.x \in Coords /\ r.y \in Coords
  BY <1>7, <1>8 DEF Place, Row, Drawn
<1>10. PICK u \in Int, v \in Int : u = 16 * r.x /\ v = 16 * r.y
  BY <1>9, SixteenIn
<1>11. scr2scr(e) = write_start(a, u, v)
  BY <1>2, <1>4, <1>6, <1>8, <1>10 DEF scr2scr
<1>12. scr2scr(f) = write_start(b, u, v)
  BY <1>3, <1>4, <1>6, <1>8, <1>9, <1>10 DEF scr2scr
<1>13. Drawn(a, write_start(a, u, v), write_start(b, u, v))
  BY <1>9, TwinStart
<1>. QED BY <1>9, <1>11, <1>12, <1>13, DrawnTwice

\* A pixel read counts and moves the start position.
LEMMA TwinRead ==
  ASSUME NEW e, NEW f, Twin(e, f)
  PROVE  Drawn(e, do_pixel_read(e).e, do_pixel_read(f).e) /\ do_pixel_read(f).val = do_pixel_read(e).val
<1>1. Engine(e) /\ Engine(f) /\ Regs(e, f) /\ f.xs = e.xs /\ f.ys = e.ys /\ f.xe = e.xe /\ f.ye = e.ye
      /\ f.x_save = e.x_save /\ f.pixels = e.pixels /\ f.fb = e.fb
  BY TwinFacts
<1>2. f.m1 = e.m1
  BY <1>1 DEF Regs
<1>3. PICK x, y, x2, y2 \in Coords : x = Whole(e.xs) /\ y = Whole(e.ys) /\ x2 = Whole(e.xe) /\ y2 = Whole(e.ye)
  BY <1>1, WholeAt DEF Engine
<1>4. PICK p : p = <<WinX(e, x), WinY(e, y)>> /\ p = <<WinX(f, x), WinY(f, y)>>
  BY <1>1, RegsView
<1>5. PICK v : v = Fetch(e, p) /\ v = Fetch(f, p)
  BY TwinFetch
<1>6. PICK x1 \in Coords : x1 = I16(x + 1)
  <2>1. x + 1 \in Int
    BY SixteenIn
  <2>. QED BY <2>1, I16At
<1>7. PICK dy \in Int : dy = IF y2 < y THEN -1 ELSE 1
  OBVIOUS
<1>8. PICK y1 \in Coords : y1 = I16(y + dy)
  <2>1. y + dy \in Int
    BY SixteenIn
  <2>. QED BY <2>1, I16At
<1>9. e.x_save \in Coords /\ e.pixels \in Nat /\ e.fb \in FrameBuffer
  BY <1>1 DEF Engine
<1>10. PICK u, w \in Int : u = 16 * (IF x1 > x2 THEN e.x_save ELSE x1) /\ w = 16 * (IF x1 > x2 THEN y1 ELSE y)
  <2>1. 16 * e.x_save \in Int /\ 16 * x1 \in Int /\ 16 * y1 \in Int /\ 16 * y \in Int
    BY <1>9, SixteenIn
  <2>. QED BY <2>1
<1>11. PICK a, b : a = Paint(e, e.pixels + 1, e.fb) /\ b = Paint(f, e.pixels + 1, e.fb)
  OBVIOUS
<1>12. Drawn(e, a, b) /\ Twin(a, b)
  BY <1>9, <1>11, TwinPaint DEF Drawn
<1>13. a = [e EXCEPT !.pixels = e.pixels + 1] /\ b = [f EXCEPT !.pixels = f.pixels + 1]
  BY <1>1, <1>11 DEF Paint, Engine, EngineFields
<1> DEFINE c == IF e.m1.plane \in {1, 2} THEN convert_depth(v, e.m1.depth, e.m1.hostdepth) ELSE v
<1>14. do_pixel_read(e) = [val |-> c, e |-> write_start(a, u, w)]
  BY <1>3, <1>4, <1>5, <1>6, <1>7, <1>8, <1>10, <1>13 DEF do_pixel_read
<1>15. do_pixel_read(f) = [val |-> c, e |-> write_start(b, u, w)]
  BY <1>1, <1>2, <1>3, <1>4, <1>5, <1>6, <1>7, <1>8, <1>10, <1>13 DEF do_pixel_read
<1>16. Drawn(e, write_start(a, u, w), write_start(b, u, w))
  BY <1>12, TwinStart, DrawnTwice
<1> HIDE DEF c
<1>. QED BY <1>14, <1>15, <1>16
\* Registers a draw only reads, of any value.
Free == {"move", "clip_mode", "oct", "color_i", "color_back", "color_vram", "ls_pattern", "ls_saved", "z_pattern",
         "host", "host_shift"}

LEMMA TwinFree ==
  ASSUME NEW e, NEW f, Twin(e, f), NEW k \in Free, NEW v
  PROVE  Drawn(e, [e EXCEPT ![k] = v], [f EXCEPT ![k] = v])
<1>1. PICK g, h : g = [e EXCEPT ![k] = v] /\ h = [f EXCEPT ![k] = v]
  OBVIOUS
<1>2. Engine(e) /\ k # "scalar" /\ e = [j \in EngineFields |-> e[j]]
  BY DEF Twin, Engine, Free
<1>3. g = [j \in EngineFields |-> IF j = k THEN v ELSE e[j]]
  BY <1>1, <1>2
<1>4. h = [g EXCEPT !.scalar = TRUE]
  <2>1. f = [j \in EngineFields |-> IF j = "scalar" THEN TRUE ELSE e[j]]
    BY TwinView
  <2>2. h = [j \in EngineFields |-> IF j = k THEN v ELSE IF j = "scalar" THEN TRUE ELSE e[j]]
    BY <1>1, <2>1
  <2>3. [g EXCEPT !.scalar = TRUE] = [j \in EngineFields |-> IF j = "scalar" THEN TRUE ELSE IF j = k THEN v ELSE e[j]]
    BY <1>3
  <2>. QED BY <1>2, <2>2, <2>3
<1>5. \A j \in EngineFields \ Free : g[j] = e[j]
  BY <1>3 DEF Free
<1>6. Engine(g) /\ g.m0 = e.m0 /\ g.m1 = e.m1
  <2>1. /\ g.m0 = e.m0 /\ g.m1 = e.m1 /\ g.xs = e.xs /\ g.ys = e.ys /\ g.xe = e.xe /\ g.ye = e.ye
        /\ g.x_save = e.x_save /\ g.window = e.window /\ g.smask = e.smask /\ g.color = e.color /\ g.curr = e.curr
        /\ g.slope = e.slope /\ g.pixels = e.pixels /\ g.fb = e.fb /\ g.rb = e.rb
    BY <1>5 DEF EngineFields, Free
  <2>2. g = [j \in EngineFields |-> g[j]]
    BY <1>3
  <2>. QED BY <1>2, <2>1, <2>2 DEF Engine
<1>. QED BY <1>1, <1>4, <1>6 DEF Drawn, Twin

\* Pixels of a word.
WordCount(e) ==
  LET most == <<8, 4, 2, 1>>[e.m1.hostdepth + 1] * (IF e.m1.rwdouble THEN 2 ELSE 1)
      left == (Whole(e.xe) - Whole(e.xs) + 1) % (2 * Half)
  IN  IF left > most THEN most ELSE left

LEMMA WordCountIs == ASSUME NEW e, Engine(e) PROVE WordCount(e) \in Nat
<1>1. e.m1.hostdepth \in 0 .. 3
  BY DEF Engine
<1>2. PICK most \in Nat : most = <<8, 4, 2, 1>>[e.m1.hostdepth + 1] * (IF e.m1.rwdouble THEN 2 ELSE 1)
  BY <1>1
<1>3. PICK left \in Nat : left = (Whole(e.xe) - Whole(e.xs) + 1) % (2 * Half)
  <2>1. PICK a, b \in Coords : a = Whole(e.xe) /\ b = Whole(e.xs)
    BY WholeAt DEF Engine
  <2>2. PICK v \in Int : v = a - b + 1
    BY SixteenIn
  <2>3. PICK m \in Nat : m = 2 * Half /\ m > 0
    BY SizeAssumption
  <2>4. v % m \in 0 .. m - 1
    BY <2>3, RemAt
  <2>. QED BY <2>1, <2>2, <2>3, <2>4
<1>. QED BY <1>2, <1>3 DEF WordCount

\* the pixels read into a word
ReadNext(e, k, s) == 
  LET hd == e.m1.hostdepth
      bits == <<4, 8, 16, 32>>[hd + 1]
      r == do_pixel_read(s.e)
  IN  [e |-> r.e, w |-> s.w \cup Shl(Low(r.val, HostBits(hd)), 64 - k * bits)]

ReadRun(e, n, at) == at = [k \in 0 .. n |-> IF k = 0 THEN [e |-> e, w |-> {}] ELSE ReadNext(e, k, at[k - 1])]

LEMMA ReadRunExists == ASSUME NEW e, NEW n \in Nat PROVE \E at : ReadRun(e, n, at)
<1> DEFINE U == {m \in Nat : \E at : ReadRun(e, m, at)}
<1>1. 0 \in U
  <2> DEFINE at == [k \in 0 .. 0 |-> [e |-> e, w |-> {}]]
  <2>1. ReadRun(e, 0, at)
    BY DEF ReadRun
  <2>. QED BY <2>1
<1>2. ASSUME NEW m \in Nat, m \in U PROVE m + 1 \in U
  <2>1. PICK g : ReadRun(e, m, g)
    BY <1>2
  <2> DEFINE at == [k \in 0 .. m + 1 |-> IF k = 0 THEN [e |-> e, w |-> {}]
                                      ELSE IF k = m + 1 THEN ReadNext(e, k, g[m]) ELSE g[k]]
  <2>2. \A k \in 0 .. m : g[k] = IF k = 0 THEN [e |-> e, w |-> {}] ELSE ReadNext(e, k, g[k - 1])
    BY <2>1 DEF ReadRun
  <2>3. ASSUME NEW k \in 0 .. m + 1 PROVE at[k] = IF k = 0 THEN [e |-> e, w |-> {}] ELSE ReadNext(e, k, at[k - 1])
    <3>1. k # 0 => k - 1 \in 0 .. m /\ at[k - 1] = g[k - 1]
      <4>1. 0 \in 0 .. m => g[0] = [e |-> e, w |-> {}]
        BY <2>2
      <4> DEFINE A == [e |-> e, w |-> {}]
      <4> HIDE DEF A
      <4>. QED BY <4>1
    <3>. QED BY <2>2, <3>1
  <2>4. at = [k \in 0 .. m + 1 |-> IF k = 0 THEN [e |-> e, w |-> {}] ELSE ReadNext(e, k, at[k - 1])]
    <3>1. at = [k \in 0 .. m + 1 |-> at[k]]
      OBVIOUS
    <3> HIDE DEF at
    <3>. QED BY <2>3, <3>1
  <2>5. ReadRun(e, m + 1, at)
    BY <2>4 DEF ReadRun
  <2> HIDE DEF at
  <2>. QED BY <2>5
<1>3. \A m \in Nat : m \in U
  <2> HIDE DEF U
  <2>. QED BY <1>1, <1>2, FromZero
<1>. QED BY <1>3

LEMMA ReadTurns ==
  ASSUME NEW e, NEW n \in Nat, NEW at, ReadRun(e, n, at)
  PROVE  /\ n >= 0 => at[0] = [e |-> e, w |-> {}]
         /\ \A k \in 0 .. n - 1 : at[k + 1] = ReadNext(e, k + 1, at[k])
<1>1. \A k \in 0 .. n : at[k] = IF k = 0 THEN [e |-> e, w |-> {}] ELSE ReadNext(e, k, at[k - 1])
  BY DEF ReadRun
<1>2. ASSUME NEW k \in 0 .. n - 1 PROVE at[k + 1] = ReadNext(e, k + 1, at[k])
  <2>1. k + 1 \in 0 .. n /\ k + 1 # 0 /\ (k + 1) - 1 = k
    OBVIOUS
  <2>. QED BY <1>1, <2>1
<1>3. n >= 0 => at[0] = [e |-> e, w |-> {}]
  BY <1>1
<1>. QED BY <1>2, <1>3

LEMMA WordReadIs ==
  ASSUME NEW e, Engine(e), NEW n \in Nat, n = WordCount(e)
  PROVE  \E at : ReadRun(e, n, at) /\ do_pixel_word_read(e) = [at[n].e EXCEPT !.host = at[n].w]
<1> DEFINE a == CHOOSE a : ReadRun(e, n, a)
<1>1. ReadRun(e, n, a)
  BY ReadRunExists
<1>2. do_pixel_word_read(e) = [a[n].e EXCEPT !.host = a[n].w]
  BY DEF do_pixel_word_read, ReadRun, ReadNext, WordCount
<1> HIDE DEF a
<1>. QED BY <1>1, <1>2

Packed(e, p, q) == Drawn(e, p.e, q.e) /\ q.w = p.w

LEMMA TwinWordRead ==
  ASSUME NEW e, NEW f, Twin(e, f)
  PROVE  Drawn(e, do_pixel_word_read(e), do_pixel_word_read(f))
<1>1. Engine(e) /\ Engine(f) /\ f.xs = e.xs /\ f.xe = e.xe /\ Regs(e, f)
  BY TwinFacts
<1>2. f.m1 = e.m1
  BY <1>1 DEF Regs
<1>3. PICK n \in Nat : n = WordCount(e) /\ n = WordCount(f)
  <2>1. WordCount(f) = WordCount(e)
    BY <1>1, <1>2 DEF WordCount
  <2>. QED BY <1>1, <2>1, WordCountIs
<1>4. PICK at : ReadRun(e, n, at) /\ do_pixel_word_read(e) = [at[n].e EXCEPT !.host = at[n].w]
  BY <1>1, <1>3, WordReadIs
<1>5. PICK bt : ReadRun(f, n, bt) /\ do_pixel_word_read(f) = [bt[n].e EXCEPT !.host = bt[n].w]
  BY <1>1, <1>3, WordReadIs
<1>6. at[0] = [e |-> e, w |-> {}] /\ \A k \in 0 .. n - 1 : at[k + 1] = ReadNext(e, k + 1, at[k])
  BY <1>4, ReadTurns
<1>7. bt[0] = [e |-> f, w |-> {}] /\ \A k \in 0 .. n - 1 : bt[k + 1] = ReadNext(f, k + 1, bt[k])
  BY <1>5, ReadTurns
<1> DEFINE U == {k \in 0 .. n : Packed(e, at[k], bt[k])}
<1>8. 0 \in U
  BY <1>6, <1>7 DEF Packed, Drawn
<1>9. ASSUME NEW k \in 0 .. n - 1, k \in U PROVE k + 1 \in U
  <2>1. PICK a, b, p, q : a = at[k] /\ b = bt[k] /\ p = a.e /\ q = b.e
    OBVIOUS
  <2>2. Drawn(e, p, q) /\ Twin(p, q) /\ b.w = a.w
    BY <1>9, <2>1 DEF Packed, Drawn
  <2>3. PICK r, s : r = do_pixel_read(p) /\ s = do_pixel_read(q)
    OBVIOUS
  <2>4. Drawn(e, r.e, s.e) /\ s.val = r.val
    BY <2>2, <2>3, TwinRead, DrawnTwice
  <2>5. ReadNext(e, k + 1, a) = [e |-> r.e, w |-> a.w \cup Shl(Low(r.val, HostBits(e.m1.hostdepth)),
                                     64 - (k + 1) * <<4, 8, 16, 32>>[e.m1.hostdepth + 1])]
    BY <2>1, <2>3, Zenon DEF ReadNext
  <2>6. ReadNext(f, k + 1, b) = [e |-> s.e, w |-> b.w \cup Shl(Low(s.val, HostBits(f.m1.hostdepth)),
                                     64 - (k + 1) * <<4, 8, 16, 32>>[f.m1.hostdepth + 1])]
    BY <2>1, <2>3, Zenon DEF ReadNext
  <2> DEFINE w == a.w \cup Shl(Low(r.val, HostBits(e.m1.hostdepth)), 64 - (k + 1) * <<4, 8, 16, 32>>[e.m1.hostdepth + 1])
  <2>7. ReadNext(f, k + 1, b) = [e |-> s.e, w |-> w]
    BY <2>2, <2>4, <2>6, <1>2
  <2>8. ReadNext(e, k + 1, a) = [e |-> r.e, w |-> w]
    BY <2>5
  <2> HIDE DEF w
  <2>9. Packed(e, at[k + 1], bt[k + 1])
    BY <1>6, <1>7, <2>1, <2>4, <2>7, <2>8 DEF Packed
  <2>. QED BY <2>9
<1>10. \A k \in 0 .. n : k \in U
  <2> HIDE DEF U
  <2>. QED BY <1>8, <1>9, UpTo
<1>11. PICK a, b, w : a = at[n].e /\ b = bt[n].e /\ w = at[n].w
  OBVIOUS
<1>12. Drawn(e, a, b) /\ Twin(a, b) /\ bt[n].w = w
  BY <1>10, <1>11 DEF Packed, Drawn
<1>13. PICK j \in Free : j = "host"
  BY DEF Free
<1>14. Drawn(a, [a EXCEPT ![j] = w], [b EXCEPT ![j] = w])
  BY <1>12, TwinFree
<1>15. do_pixel_word_read(e) = [a EXCEPT ![j] = w] /\ do_pixel_word_read(f) = [b EXCEPT ![j] = w]
  BY <1>4, <1>5, <1>11, <1>12, <1>13
<1>. QED BY <1>12, <1>14, <1>15, DrawnTwice
-----------------------------------------------------------------------------
(* Commands of twins *)

LEMMA TwinSetup == ASSUME NEW e, NEW f, Twin(e, f) PROVE Drawn(e, do_setup(e), do_setup(f))
<1>1. f.xs = e.xs /\ f.ys = e.ys /\ f.xe = e.xe /\ f.ye = e.ye
  BY TwinFacts
<1>2. PICK v : v = [ydec |-> e.ys > e.ye, xdec |-> e.xs > e.xe, xmajor |-> Abs(e.xs - e.xe) > Abs(e.ys - e.ye)]
  OBVIOUS
<1>3. PICK k \in Free : k = "oct"
  BY DEF Free
<1>4. do_setup(e) = [e EXCEPT ![k] = v] /\ do_setup(f) = [f EXCEPT ![k] = v]
  BY <1>1, <1>2, <1>3 DEF do_setup
<1>5. Drawn(e, [e EXCEPT ![k] = v], [f EXCEPT ![k] = v])
  BY TwinFree
<1>. QED BY <1>4, <1>5

LEMMA TwinCommand ==
  ASSUME NEW e, NEW f, Twin(e, f), Unmixed(e)
  PROVE  Drawn(e, do_command(e), do_command(f))
<1>1. f.m0 = e.m0
  BY TwinFacts
<1> DEFINE setup(g) == g.m0.setup /\ (g.m0.op \in {"read", "draw"} \/ (g.m0.op = "copy" /\ g.m0.adr \in {"span", "block"}))
<1>2. PICK a, b : a = (IF setup(e) THEN do_setup(e) ELSE e) /\ b = (IF setup(f) THEN do_setup(f) ELSE f)
  OBVIOUS
<1>3. Drawn(e, a, b) /\ Twin(a, b)
  <2>1. Drawn(e, do_setup(e), do_setup(f)) /\ Drawn(e, e, f)
    BY TwinSetup DEF Drawn
  <2>. QED BY <1>1, <1>2, <2>1 DEF Drawn
<1>4. PICK p, q : p = [a EXCEPT !.pixels = 0] /\ q = [b EXCEPT !.pixels = 0]
  OBVIOUS
<1>5. Drawn(a, p, q)
  <2>1. Engine(a) /\ Engine(b) /\ b.fb = a.fb
    BY <1>3, TwinView
  <2>2. p = Paint(a, 0, a.fb) /\ q = Paint(b, 0, a.fb)
    BY <1>4, <2>1 DEF Paint, Engine, EngineFields
  <2>3. a.fb \in FrameBuffer /\ 0 \in Nat
    BY <2>1 DEF Engine
  <2>. QED BY <1>3, <2>2, <2>3, TwinPaint
<1>6. Drawn(e, p, q) /\ Twin(p, q) /\ Unmixed(p)
  <2>1. Drawn(e, p, q)
    BY <1>3, <1>5, DrawnTwice
  <2>. QED BY <2>1 DEF Drawn, Unmixed
<1>7. q.m0 = p.m0
  BY <1>6, TwinView DEF Regs
<1> DEFINE C(g) == CASE g.m0.op = "read" -> do_pixel_word_read(g)
                     [] g.m0.op = "draw" /\ g.m0.adr = "span" -> span_or_block(g, FALSE)
                     [] g.m0.op = "draw" /\ g.m0.adr = "block" -> span_or_block(g, TRUE)
                     [] g.m0.op = "draw" /\ g.m0.adr \in {"iline", "aline"} -> do_iline(g)
                     [] g.m0.op = "draw" /\ g.m0.adr = "fline" -> do_fline(g)
                     [] g.m0.op = "copy" /\ g.m0.adr \in {"span", "block"} -> scr2scr(g)
                     [] OTHER -> g
<1>8. do_command(e) = C(p) /\ do_command(f) = C(q)
  <2> DEFINE S(g) == [(IF setup(g) THEN do_setup(g) ELSE g) EXCEPT !.pixels = 0]
  <2>1. do_command(e) = C(S(e)) /\ do_command(f) = C(S(f))
    BY Zenon DEF do_command
  <2>2. S(e) = p /\ S(f) = q
    BY <1>2, <1>4
  <2> HIDE DEF C, S
  <2>. QED BY <2>1, <2>2
<1>9. /\ Drawn(p, do_pixel_word_read(p), do_pixel_word_read(q))
      /\ Drawn(p, span_or_block(p, FALSE), span_or_block(q, FALSE))
      /\ Drawn(p, span_or_block(p, TRUE), span_or_block(q, TRUE))
      /\ Drawn(p, do_iline(p), do_iline(q))
      /\ Drawn(p, do_fline(p), do_fline(q))
      /\ Drawn(p, scr2scr(p), scr2scr(q))
      /\ Drawn(p, p, q)
  BY <1>6, TwinWordRead, TwinSpan, TwinILine, TwinFLine, TwinCopy DEF Drawn
<1>10. Drawn(p, C(p), C(q))
  <2>1. C(q) = CASE p.m0.op = "read" -> do_pixel_word_read(q)
                 [] p.m0.op = "draw" /\ p.m0.adr = "span" -> span_or_block(q, FALSE)
                 [] p.m0.op = "draw" /\ p.m0.adr = "block" -> span_or_block(q, TRUE)
                 [] p.m0.op = "draw" /\ p.m0.adr \in {"iline", "aline"} -> do_iline(q)
                 [] p.m0.op = "draw" /\ p.m0.adr = "fline" -> do_fline(q)
                 [] p.m0.op = "copy" /\ p.m0.adr \in {"span", "block"} -> scr2scr(q)
                 [] OTHER -> q
    BY <1>7
  <2>. QED BY <1>9, <2>1
<1> HIDE DEF C
<1>. QED BY <1>6, <1>8, <1>10, DrawnTwice
-----------------------------------------------------------------------------
(* Register writes of twins *)

\* What Engine asks of a register's value.
Typed(k, v) ==
  /\ k \in {"xs", "ys", "xe", "ye"} => v \in Int
  /\ k = "x_save" => v \in Coords
  /\ k = "window" => v.x \in Int /\ v.y \in Int
  /\ k = "smask" => /\ v = [n \in 0 .. 4 |-> v[n]]
                    /\ v[0].x0 \in Coords /\ v[0].x1 \in Coords /\ v[0].y0 \in Coords /\ v[0].y1 \in Coords
  /\ k \in {"color", "curr", "slope"} => v \in [Channels -> Int]
  /\ k = "rb" => /\ v = [f \in RbFields |-> v[f]]
                 /\ v.dest \in {"rgbci", "cidaux"} /\ v.logicop \in 0 .. 15 /\ v.src_shift \in Nat
  /\ k = "m1" => v.depth \in 0 .. 3 /\ v.hostdepth \in 0 .. 3
  /\ k = "pixels" => v \in Nat
  /\ k = "fb" => v \in FrameBuffer

LEMMA EngineTyped == ASSUME NEW e PROVE Engine(e) <=> (e = [k \in EngineFields |-> e[k]] /\ \A k \in EngineFields : Typed(k, e[k]))
<1>1. ASSUME Engine(e), NEW k \in EngineFields PROVE Typed(k, e[k])
  BY <1>1 DEF Engine, Typed
<1>2. ASSUME e = [k \in EngineFields |-> e[k]], \A k \in EngineFields : Typed(k, e[k]) PROVE Engine(e)
  <2>1. /\ Typed("xs", e.xs) /\ Typed("ys", e.ys) /\ Typed("xe", e.xe) /\ Typed("ye", e.ye) /\ Typed("x_save", e.x_save)
        /\ Typed("window", e.window) /\ Typed("smask", e.smask) /\ Typed("color", e.color) /\ Typed("curr", e.curr)
        /\ Typed("slope", e.slope) /\ Typed("rb", e.rb) /\ Typed("m1", e.m1) /\ Typed("pixels", e.pixels)
        /\ Typed("fb", e.fb)
    BY <1>2 DEF EngineFields
  <2>. QED BY <1>2, <2>1 DEF Typed, Engine
<1>. QED BY <1>1, <1>2 DEF Engine

Set(e, k, v) == [e EXCEPT ![k] = v]

LEMMA TwinSet ==
  ASSUME NEW e, NEW f, Twin(e, f), NEW k \in EngineFields \ {"scalar"}, NEW v, Typed(k, v)
  PROVE  /\ Twin(Set(e, k, v), Set(f, k, v))
         /\ k \notin {"m0", "m1"} => Drawn(e, Set(e, k, v), Set(f, k, v))
<1>1. PICK g, h : g = Set(e, k, v) /\ h = Set(f, k, v)
  OBVIOUS
<1>2. e = [j \in EngineFields |-> e[j]] /\ \A j \in EngineFields : Typed(j, e[j])
  BY EngineTyped DEF Twin
<1>3. g = [j \in EngineFields |-> IF j = k THEN v ELSE e[j]]
  BY <1>1, <1>2 DEF Set
<1>4. h = [g EXCEPT !.scalar = TRUE]
  <2>1. f = [j \in EngineFields |-> IF j = "scalar" THEN TRUE ELSE e[j]]
    BY TwinView
  <2>2. h = [j \in EngineFields |-> IF j = k THEN v ELSE IF j = "scalar" THEN TRUE ELSE e[j]]
    BY <1>1, <2>1 DEF Set
  <2>3. [g EXCEPT !.scalar = TRUE] = [j \in EngineFields |-> IF j = "scalar" THEN TRUE ELSE IF j = k THEN v ELSE e[j]]
    BY <1>3
  <2>. QED BY <2>2, <2>3
<1>5. Engine(g)
  <2>1. g = [j \in EngineFields |-> g[j]] /\ \A j \in EngineFields : g[j] = IF j = k THEN v ELSE e[j]
    BY <1>3
  <2>2. \A j \in EngineFields : Typed(j, g[j])
    BY <1>2, <2>1
  <2>. QED BY <2>1, <2>2, EngineTyped
<1>6. k \notin {"m0", "m1"} => g.m0 = e.m0 /\ g.m1 = e.m1
  BY <1>3 DEF EngineFields
<1>. QED BY <1>1, <1>4, <1>5, <1>6 DEF Drawn, Twin

LEMMA FlagsIn ==
  ASSUME NEW rb, Typed("rb", rb), NEW v, v.depth \in 0 .. 3, v.logicop \in 0 .. 15
  PROVE  Typed("rb", rb_set_flags(rb, v))
<1>1. PICK s : s = SrcShift(v.plane, v.depth, v.dblsrc)
  OBVIOUS
<1>2. s \in Nat
  BY <1>1 DEF SrcShift
<1>3. PICK d : d = (CASE v.plane \in {1, 2} -> "rgbci" [] v.plane \in {4, 5, 6} -> "cidaux" [] OTHER -> rb.dest)
  OBVIOUS
<1>4. rb = [f \in RbFields |-> rb[f]] /\ rb.dest \in {"rgbci", "cidaux"}
  BY DEF Typed
<1>5. d \in {"rgbci", "cidaux"}
  BY <1>3, <1>4
<1>6. rb_set_flags(rb, v) = [rb EXCEPT !.fast_clear = v.fastclear, !.plane = v.plane, !.depth = v.depth,
                                       !.logicop = v.logicop, !.src_shift = s, !.dest = d]
  BY <1>1, <1>3 DEF rb_set_flags
<1>7. PICK r : r = [rb EXCEPT !.fast_clear = v.fastclear, !.plane = v.plane, !.depth = v.depth,
                              !.logicop = v.logicop, !.src_shift = s, !.dest = d]
  OBVIOUS
<1>8. r = [f \in RbFields |-> r[f]] /\ r.dest = d /\ r.logicop = v.logicop /\ r.src_shift = s
  BY <1>4, <1>7 DEF RbFields
<1>. QED BY <1>2, <1>5, <1>6, <1>7, <1>8 DEF Typed

LEMMA TwinMode ==
  ASSUME NEW e, NEW f, Twin(e, f), NEW v, GoodWrite("draw_mode1", v)
  PROVE  Twin(DrawMode1(e, v), DrawMode1(f, v))
<1>1. Engine(e) /\ Engine(f) /\ Regs(e, f)
  BY TwinFacts
<1>2. PICK s, r : s = 64 - HostShift(v.hostdepth) /\ r = rb_set_flags(e.rb, v)
  OBVIOUS
<1>3. Typed("m1", v) /\ Typed("host_shift", s)
  BY DEF GoodWrite, Typed
<1>4. Typed("rb", r)
  <2>1. Typed("rb", e.rb)
    BY <1>1, EngineTyped DEF EngineFields
  <2>. QED BY <1>2, <2>1, FlagsIn DEF GoodWrite
<1>5. PICK e1, f1 : e1 = Set(e, "m1", v) /\ f1 = Set(f, "m1", v)
  OBVIOUS
<1>6. Twin(e1, f1)
  BY <1>3, <1>5, TwinSet DEF EngineFields
<1>7. PICK e2, f2 : e2 = Set(e1, "host_shift", s) /\ f2 = Set(f1, "host_shift", s)
  OBVIOUS
<1>8. Twin(e2, f2)
  BY <1>3, <1>6, <1>7, TwinSet DEF EngineFields
<1>9. Twin(Set(e2, "rb", r), Set(f2, "rb", r))
  BY <1>4, <1>8, TwinSet DEF EngineFields
<1>10. DrawMode1(e, v) = Set(e2, "rb", r)
  BY <1>1, <1>2, <1>5, <1>7 DEF DrawMode1, Set, Engine, EngineFields
<1>11. DrawMode1(f, v) = Set(f2, "rb", r)
  <2>1. f.rb = e.rb
    BY <1>1 DEF Regs
  <2>. QED BY <1>1, <1>2, <1>5, <1>7, <2>1 DEF DrawMode1, Set, Engine, EngineFields
<1>. QED BY <1>9, <1>10, <1>11

\* Three registers written one after the other.
LEMMA TwinThree ==
  ASSUME NEW e, NEW f, Twin(e, f), NEW j \in EngineFields \ {"scalar", "m0", "m1"}, NEW u, Typed(j, u),
         NEW k \in EngineFields \ {"scalar", "m0", "m1"}, NEW v, Typed(k, v),
         NEW l \in EngineFields \ {"scalar", "m0", "m1"}, NEW w, Typed(l, w)
  PROVE  Drawn(e, Set(Set(Set(e, j, u), k, v), l, w), Set(Set(Set(f, j, u), k, v), l, w))
<1>1. PICK e1, f1 : e1 = Set(e, j, u) /\ f1 = Set(f, j, u)
  OBVIOUS
<1>2. Drawn(e, e1, f1) /\ Twin(e1, f1)
  BY <1>1, TwinSet DEF Drawn
<1>3. PICK e2, f2 : e2 = Set(e1, k, v) /\ f2 = Set(f1, k, v)
  OBVIOUS
<1>4. Drawn(e, e2, f2) /\ Twin(e2, f2)
  <2>1. Drawn(e1, e2, f2)
    BY <1>2, <1>3, TwinSet
  <2>. QED BY <1>2, <2>1, DrawnTwice DEF Drawn
<1>5. Drawn(e2, Set(e2, l, w), Set(f2, l, w))
  BY <1>4, TwinSet
<1>. QED BY <1>1, <1>3, <1>4, <1>5, DrawnTwice

LEMMA RedIs ==
  ASSUME NEW e, Engine(e), NEW v, NEW c, c = [e.color EXCEPT !.red = v], NEW k, k = [e.curr EXCEPT !.red = v],
         NEW i, i = (IF e.m1.rgb \/ e.m1.depth = 3 THEN e.color_i
                     ELSE CASE e.m1.depth = 0 -> NumBits(v \div 2048, 4)
                            [] e.m1.depth = 1 -> NumBits(v \div 2048, 8)
                            [] OTHER -> NumBits(v \div 512, 12))
  PROVE  ColorRed(e, v) = Set(Set(Set(e, "color", c), "curr", k), "color_i", i)
<1>1. ColorRed(e, v) = [e EXCEPT !.color = c, !.curr = k, !.color_i = i]
  BY DEF ColorRed, Engine, EngineFields
<1>. QED BY <1>1, Zenon DEF Set, Engine, EngineFields

LEMMA TwinRed ==
  ASSUME NEW e, NEW f, Twin(e, f), NEW v \in Int
  PROVE  Drawn(e, ColorRed(e, v), ColorRed(f, v))
<1>1. Engine(e) /\ Engine(f) /\ Regs(e, f) /\ f.color = e.color /\ f.curr = e.curr /\ f.color_i = e.color_i
  BY TwinFacts
<1>2. f.m1 = e.m1
  BY <1>1 DEF Regs
<1>3. PICK c, k : c = [e.color EXCEPT !.red = v] /\ k = [e.curr EXCEPT !.red = v]
  OBVIOUS
<1>4. PICK i : i = (IF e.m1.rgb \/ e.m1.depth = 3 THEN e.color_i
                    ELSE CASE e.m1.depth = 0 -> NumBits(v \div 2048, 4)
                           [] e.m1.depth = 1 -> NumBits(v \div 2048, 8)
                           [] OTHER -> NumBits(v \div 512, 12))
  OBVIOUS
<1>5. Typed("color", c) /\ Typed("curr", k) /\ Typed("color_i", i)
  BY <1>1, <1>3 DEF Typed, Engine
<1>6. ColorRed(e, v) = Set(Set(Set(e, "color", c), "curr", k), "color_i", i)
  BY <1>1, <1>3, <1>4, RedIs
<1>7. ColorRed(f, v) = Set(Set(Set(f, "color", c), "curr", k), "color_i", i)
  <2>1. c = [f.color EXCEPT !.red = v] /\ k = [f.curr EXCEPT !.red = v]
    BY <1>1, <1>3
  <2>2. i = (IF f.m1.rgb \/ f.m1.depth = 3 THEN f.color_i
             ELSE CASE f.m1.depth = 0 -> NumBits(v \div 2048, 4)
                    [] f.m1.depth = 1 -> NumBits(v \div 2048, 8)
                    [] OTHER -> NumBits(v \div 512, 12))
    BY <1>1, <1>2, <1>4
  <2>3. Engine(f)
    BY <1>1
  <2>. QED BY <2>1, <2>2, <2>3, RedIs
<1>9. Drawn(e, Set(Set(Set(e, "color", c), "curr", k), "color_i", i), Set(Set(Set(f, "color", c), "curr", k), "color_i", i))
  BY <1>5, TwinThree DEF EngineFields
<1>. QED BY <1>6, <1>7, <1>9
\* the bits of a byte
ValueNext(v, k, s) == s + (IF k - 1 \in v THEN 2^(k - 1) ELSE 0)

ValueRun(v, n, at) == at = [k \in 0 .. n |-> IF k = 0 THEN 0 ELSE ValueNext(v, k, at[k - 1])]

LEMMA ValueRunExists == ASSUME NEW v, NEW n \in Nat PROVE \E at : ValueRun(v, n, at)
<1> DEFINE U == {m \in Nat : \E at : ValueRun(v, m, at)}
<1>1. 0 \in U
  <2> DEFINE at == [k \in 0 .. 0 |-> 0]
  <2>1. ValueRun(v, 0, at)
    BY DEF ValueRun
  <2>. QED BY <2>1
<1>2. ASSUME NEW m \in Nat, m \in U PROVE m + 1 \in U
  <2>1. PICK g : ValueRun(v, m, g)
    BY <1>2
  <2> DEFINE at == [k \in 0 .. m + 1 |-> IF k = 0 THEN 0
                                      ELSE IF k = m + 1 THEN ValueNext(v, k, g[m]) ELSE g[k]]
  <2>2. \A k \in 0 .. m : g[k] = IF k = 0 THEN 0 ELSE ValueNext(v, k, g[k - 1])
    BY <2>1 DEF ValueRun
  <2>3. ASSUME NEW k \in 0 .. m + 1 PROVE at[k] = IF k = 0 THEN 0 ELSE ValueNext(v, k, at[k - 1])
    <3>1. k # 0 => k - 1 \in 0 .. m /\ at[k - 1] = g[k - 1]
      <4>1. 0 \in 0 .. m => g[0] = 0
        BY <2>2
      <4> DEFINE A == 0
      <4> HIDE DEF A
      <4>. QED BY <4>1
    <3>. QED BY <2>2, <3>1
  <2>4. at = [k \in 0 .. m + 1 |-> IF k = 0 THEN 0 ELSE ValueNext(v, k, at[k - 1])]
    <3>1. at = [k \in 0 .. m + 1 |-> at[k]]
      OBVIOUS
    <3> HIDE DEF at
    <3>. QED BY <2>3, <3>1
  <2>5. ValueRun(v, m + 1, at)
    BY <2>4 DEF ValueRun
  <2> HIDE DEF at
  <2>. QED BY <2>5
<1>3. \A m \in Nat : m \in U
  <2> HIDE DEF U
  <2>. QED BY <1>1, <1>2, FromZero
<1>. QED BY <1>3

LEMMA ValueIn == ASSUME NEW v PROVE Value(v) \in Int
<1> DEFINE a == CHOOSE a : ValueRun(v, 8, a)
<1>1. ValueRun(v, 8, a)
  BY ValueRunExists
<1>2. Value(v) = a[8]
  BY Zenon DEF Value, ValueRun, ValueNext
<1> HIDE DEF a
<1>3. a[0] = 0 /\ \A k \in 0 .. 8 - 1 : a[k + 1] = ValueNext(v, k + 1, a[k])
  <2>1. PICK n \in Nat : n = 8
    OBVIOUS
  <2>2. ValueRun(v, n, a)
    BY <1>1, <2>1
  <2>3. \A k \in 0 .. n : a[k] = IF k = 0 THEN 0 ELSE ValueNext(v, k, a[k - 1])
    BY <2>2 DEF ValueRun
  <2>4. ASSUME NEW k \in 0 .. 8 - 1 PROVE a[k + 1] = ValueNext(v, k + 1, a[k])
    <3>1. k + 1 \in 0 .. n /\ k + 1 # 0 /\ (k + 1) - 1 = k
      BY <2>1
    <3>. QED BY <2>3, <3>1
  <2>5. a[0] = 0
    BY <2>1, <2>3
  <2>. QED BY <2>4, <2>5
<1> DEFINE U == {k \in 0 .. 8 : a[k] \in Int}
<1>4. 0 \in U
  BY <1>3
<1>5. ASSUME NEW k \in 0 .. 7, k \in U PROVE k + 1 \in U
  <2>1. 2^k \in Int
    <3> DEFINE P(b) == 2^b
    <3>1. P(0) \in Int /\ P(1) \in Int /\ P(2) \in Int /\ P(3) \in Int /\ P(4) \in Int /\ P(5) \in Int
          /\ P(6) \in Int /\ P(7) \in Int
      OBVIOUS
    <3>2. P(k) \in Int
      <4> HIDE DEF P
      <4>. QED BY <3>1
    <3>. QED BY <3>2
  <2>2. a[k + 1] = a[k] + (IF k \in v THEN 2^k ELSE 0)
    <3>1. (k + 1) - 1 = k /\ k \in 0 .. 8 - 1
      OBVIOUS
    <3>2. a[k + 1] = a[k] + (IF (k + 1) - 1 \in v THEN 2^((k + 1) - 1) ELSE 0)
      BY <1>3, <3>1 DEF ValueNext
    <3>. QED BY <3>1, <3>2
  <2>3. a[k + 1] \in Int
    <3> DEFINE p == 2^k
    <3>1. a[k + 1] = a[k] + (IF k \in v THEN p ELSE 0) /\ p \in Int /\ a[k] \in Int
      BY <1>5, <2>1, <2>2
    <3> HIDE DEF p
    <3>. QED BY <3>1
  <2>. QED BY <2>3
<1>6. \A k \in 0 .. 8 : k \in U
  <2>1. \A k \in 0 .. 8 - 1 : k \in U => k + 1 \in U
    BY <1>5
  <2> HIDE DEF U
  <2>. QED BY <1>4, <2>1, UpTo
<1>. QED BY <1>2, <1>6

IndexWrite(e, v, r, g, b) ==
  LET rgb == [e.color EXCEPT !.red = r, !.green = g, !.blue = b]
  IN  IF e.m1.rgb THEN Set(Set(Set(e, "color_i", v), "color", rgb), "curr", [rgb EXCEPT !.alpha = e.curr.alpha])
      ELSE Set(e, "color_i", v)

LEMMA IndexIs ==
  ASSUME NEW e, Engine(e), NEW v, NEW r, NEW g, NEW b,
         r = Value(Low(v, 8)) * 2048, g = Value(Low(Shr(v, 8), 8)) * 2048, b = Value(Low(Shr(v, 16), 8)) * 2048
  PROVE  ColorIndex(e, v) = IndexWrite(e, v, r, g, b)
<1>1. PICK rgb : rgb = [e.color EXCEPT !.red = r, !.green = g, !.blue = b]
  OBVIOUS
<1>2. PICK k : k = [rgb EXCEPT !.alpha = e.curr.alpha]
  BY Zenon
<1>3. ColorIndex(e, v) = IF ~e.m1.rgb THEN [e EXCEPT !.color_i = v]
                         ELSE [e EXCEPT !.color_i = v, !.color = rgb, !.curr = k]
  <2> DEFINE F(c) == IF ~e.m1.rgb THEN [e EXCEPT !.color_i = v]
                     ELSE [e EXCEPT !.color_i = v, !.color = c, !.curr = [c EXCEPT !.alpha = e.curr.alpha]]
             C(x, y, z) == [e.color EXCEPT !.red = x, !.green = y, !.blue = z]
  <2>1. ColorIndex(e, v) = F(C(Value(Low(v, 8)) * 2048, Value(Low(Shr(v, 8), 8)) * 2048, Value(Low(Shr(v, 16), 8)) * 2048))
    BY Zenon DEF ColorIndex
  <2>2. C(Value(Low(v, 8)) * 2048, Value(Low(Shr(v, 8), 8)) * 2048, Value(Low(Shr(v, 16), 8)) * 2048) = C(r, g, b)
    <3> HIDE DEF C
    <3>. QED OBVIOUS
  <2>3. C(r, g, b) = rgb
    BY <1>1
  <2>4. ColorIndex(e, v) = F(rgb)
    <3> HIDE DEF F, C
    <3>. QED BY <2>1, <2>2, <2>3
  <2>. QED BY <1>2, <2>4
<1>4. Set(Set(Set(e, "color_i", v), "color", rgb), "curr", k) = [e EXCEPT !.color_i = v, !.color = rgb, !.curr = k]
  BY Zenon DEF Set, Engine, EngineFields
<1>5. Set(e, "color_i", v) = [e EXCEPT !.color_i = v]
  BY DEF Set
<1>6. IndexWrite(e, v, r, g, b) = IF e.m1.rgb THEN Set(Set(Set(e, "color_i", v), "color", rgb), "curr", k) ELSE Set(e, "color_i", v)
  BY <1>1, <1>2 DEF IndexWrite
<1>. QED BY <1>3, <1>4, <1>5, <1>6

LEMMA TwinIndex ==
  ASSUME NEW e, NEW f, Twin(e, f), NEW v
  PROVE  Drawn(e, ColorIndex(e, v), ColorIndex(f, v))
<1>1. Engine(e) /\ Engine(f) /\ Regs(e, f) /\ f.color = e.color /\ f.curr = e.curr
  BY TwinFacts
<1>2. f.m1 = e.m1
  BY <1>1 DEF Regs
<1>3. PICK r, g, b \in Int : /\ r = Value(Low(v, 8)) * 2048 /\ g = Value(Low(Shr(v, 8), 8)) * 2048
                             /\ b = Value(Low(Shr(v, 16), 8)) * 2048
  <2>1. PICK p, q, s \in Int : p = Value(Low(v, 8)) /\ q = Value(Low(Shr(v, 8), 8)) /\ s = Value(Low(Shr(v, 16), 8))
    BY ValueIn
  <2>2. p * 2048 \in Int /\ q * 2048 \in Int /\ s * 2048 \in Int
    OBVIOUS
  <2>. QED BY <2>1, <2>2
<1>4. PICK rgb : rgb = [e.color EXCEPT !.red = r, !.green = g, !.blue = b]
  OBVIOUS
<1>5. e.color \in [Channels -> Int] /\ e.curr \in [Channels -> Int]
  BY <1>1 DEF Engine
<1>6. rgb \in [Channels -> Int]
  BY <1>4, <1>5
<1>7. PICK k : k = [rgb EXCEPT !.alpha = e.curr.alpha]
  OBVIOUS
<1>8. k \in [Channels -> Int]
  BY <1>5, <1>6, <1>7 DEF Channels
<1>9. ColorIndex(e, v) = IF e.m1.rgb THEN Set(Set(Set(e, "color_i", v), "color", rgb), "curr", k) ELSE Set(e, "color_i", v)
  <2>1. ColorIndex(e, v) = IndexWrite(e, v, r, g, b)
    BY <1>1, <1>3, IndexIs
  <2>. QED BY <1>4, <1>7, <2>1 DEF IndexWrite
<1>10. ColorIndex(f, v) = IF e.m1.rgb THEN Set(Set(Set(f, "color_i", v), "color", rgb), "curr", k) ELSE Set(f, "color_i", v)
  <2>1. Engine(f)
    BY <1>1
  <2>2. ColorIndex(f, v) = IndexWrite(f, v, r, g, b)
    BY <1>3, <2>1, IndexIs
  <2>3. f.color = e.color /\ f.curr = e.curr
    BY <1>1
  <2>. QED BY <1>2, <1>4, <1>7, <2>2, <2>3 DEF IndexWrite
<1>11. Typed("color_i", v) /\ Typed("color", rgb) /\ Typed("curr", k)
  BY <1>6, <1>8 DEF Typed
<1>12. Drawn(e, Set(e, "color_i", v), Set(f, "color_i", v))
  BY <1>11, TwinSet DEF EngineFields
<1>13. Drawn(e, Set(Set(Set(e, "color_i", v), "color", rgb), "curr", k), Set(Set(Set(f, "color_i", v), "color", rgb), "curr", k))
  BY <1>11, TwinThree DEF EngineFields
<1>. QED BY <1>9, <1>10, <1>12, <1>13

LEMMA HostPortIs ==
  ASSUME NEW e, Engine(e), NEW v, NEW h, NEW s, h = (e.host \ v.mask) \cup (v.bits \cap v.mask),
         s = 64 - HostShift(e.m1.hostdepth)
  PROVE  HostPort(e, v) = Set(Set(Set(e, "host", h), "host_shift", s), "host_shift", s)
<1>1. HostPort(e, v) = [e EXCEPT !.host = h, !.host_shift = s]
  BY DEF HostPort, Engine, EngineFields
<1>. QED BY <1>1 DEF Set, Engine, EngineFields

LEMMA TwinHostPort ==
  ASSUME NEW e, NEW f, Twin(e, f), NEW v
  PROVE  Drawn(e, HostPort(e, v), HostPort(f, v))
<1>1. Engine(e) /\ Engine(f) /\ Regs(e, f)
  BY TwinFacts
<1>2. f.m1 = e.m1
  BY <1>1 DEF Regs
<1>3. f.host = e.host
  BY <1>1 DEF Regs
<1>4. PICK h, s : h = (e.host \ v.mask) \cup (v.bits \cap v.mask) /\ s = 64 - HostShift(e.m1.hostdepth)
  OBVIOUS
<1>5. HostPort(e, v) = Set(Set(Set(e, "host", h), "host_shift", s), "host_shift", s)
  BY <1>1, <1>4, HostPortIs
<1>6. HostPort(f, v) = Set(Set(Set(f, "host", h), "host_shift", s), "host_shift", s)
  <2>1. Engine(f) /\ h = (f.host \ v.mask) \cup (v.bits \cap v.mask) /\ s = 64 - HostShift(f.m1.hostdepth)
    BY <1>1, <1>2, <1>3, <1>4
  <2>. QED BY <2>1, HostPortIs
<1>7. Typed("host", h) /\ Typed("host_shift", s)
  BY DEF Typed
<1>. QED BY <1>5, <1>6, <1>7, TwinThree DEF EngineFields

LEMMA TwinEnd ==
  ASSUME NEW e, NEW f, Twin(e, f), NEW x \in Int, NEW y \in Int
  PROVE  Drawn(e, write_end(e, x, y), write_end(f, x, y))
<1>1. PICK u, v \in Int : u = Sext20(x) /\ v = Sext20(y)
  BY WholeAt
<1>2. Engine(e) /\ Engine(f)
  BY TwinFacts
<1>3. write_end(e, x, y) = Set(Set(Set(e, "xe", u), "ye", v), "ye", v)
  BY <1>1, <1>2 DEF write_end, Set, Engine, EngineFields
<1>4. write_end(f, x, y) = Set(Set(Set(f, "xe", u), "ye", v), "ye", v)
  BY <1>1, <1>2 DEF write_end, Set, Engine, EngineFields
<1>5. Typed("xe", u) /\ Typed("ye", v)
  BY DEF Typed
<1>. QED BY <1>3, <1>4, <1>5, TwinThree DEF EngineFields

\* The start of a line is kept for the next ones.
LEMMA TwinSaved ==
  ASSUME NEW e, NEW f, Twin(e, f), NEW x \in Int
  PROVE  Drawn(e, [e EXCEPT !.x_save = Whole(x)], [f EXCEPT !.x_save = Whole(x)])
<1>1. PICK u \in Coords : u = Whole(x)
  BY WholeAt
<1>2. Typed("x_save", u)
  BY DEF Typed
<1>3. Drawn(e, Set(e, "x_save", u), Set(f, "x_save", u))
  BY <1>2, TwinSet DEF EngineFields
<1>. QED BY <1>1, <1>3 DEF Set

LEMMA TwinStartSaved ==
  ASSUME NEW e, NEW f, Twin(e, f), NEW x \in Int, NEW y \in Int
  PROVE  Drawn(e, [write_start(e, x, y) EXCEPT !.x_save = Whole(x)], [write_start(f, x, y) EXCEPT !.x_save = Whole(x)])
<1>1. PICK g, h : g = write_start(e, x, y) /\ h = write_start(f, x, y)
  OBVIOUS
<1>2. Drawn(e, g, h) /\ Twin(g, h)
  BY <1>1, TwinStart DEF Drawn
<1>3. Drawn(g, [g EXCEPT !.x_save = Whole(x)], [h EXCEPT !.x_save = Whole(x)])
  BY <1>2, TwinSaved
<1>. QED BY <1>1, <1>2, <1>3, DrawnTwice

LEMMA TwinStartEnd ==
  ASSUME NEW e, NEW f, Twin(e, f), NEW x \in Int, NEW y \in Int
  PROVE  Drawn(e, [write_end(write_start(e, x, e.ys), y, e.ye) EXCEPT !.x_save = Whole(x)],
                  [write_end(write_start(f, x, f.ys), y, f.ye) EXCEPT !.x_save = Whole(x)])
<1>1. PICK g, h : g = write_start(e, x, e.ys) /\ h = write_start(f, x, e.ys)
  OBVIOUS
<1>2. e.ys \in Int /\ e.ye \in Int /\ f.ys = e.ys /\ f.ye = e.ye
  BY TwinView DEF Twin, Engine
<1>3. Drawn(e, g, h) /\ Twin(g, h)
  BY <1>1, <1>2, TwinStart DEF Drawn
<1>4. PICK j, k : j = write_end(g, y, e.ye) /\ k = write_end(h, y, e.ye)
  OBVIOUS
<1>5. Drawn(g, j, k) /\ Twin(j, k)
  BY <1>2, <1>3, <1>4, TwinEnd DEF Drawn
<1>6. Drawn(j, [j EXCEPT !.x_save = Whole(x)], [k EXCEPT !.x_save = Whole(x)])
  BY <1>5, TwinSaved
<1>7. Drawn(e, j, k)
  BY <1>3, <1>5, DrawnTwice
<1>8. write_start(f, x, f.ys) = h /\ write_end(h, y, f.ye) = k
  BY <1>1, <1>2, <1>4
<1>9. Drawn(e, [j EXCEPT !.x_save = Whole(x)], [k EXCEPT !.x_save = Whole(x)])
  BY <1>6, <1>7, DrawnTwice
<1>. QED BY <1>1, <1>4, <1>8, <1>9

SetChannel(e, ch, v) == [e EXCEPT !.color[ch] = v, !.curr[ch] = v]

LEMMA TwinChannel ==
  ASSUME NEW e, NEW f, Twin(e, f), NEW ch \in Channels, NEW v \in Int
  PROVE  Drawn(e, SetChannel(e, ch, v), SetChannel(f, ch, v))
<1>1. Engine(e) /\ Engine(f) /\ f.color = e.color /\ f.curr = e.curr
  BY TwinFacts
<1>2. PICK c, k : c = [e.color EXCEPT ![ch] = v] /\ k = [e.curr EXCEPT ![ch] = v]
  OBVIOUS
<1>3. Typed("color", c) /\ Typed("curr", k)
  BY <1>1, <1>2 DEF Typed, Engine
<1>4. SetChannel(e, ch, v) = Set(Set(Set(e, "color", c), "curr", k), "curr", k)
  BY <1>1, <1>2 DEF SetChannel, Set, Engine, EngineFields
<1>5. SetChannel(f, ch, v) = Set(Set(Set(f, "color", c), "curr", k), "curr", k)
  BY <1>1, <1>2 DEF SetChannel, Set, Engine, EngineFields
<1>. QED BY <1>3, <1>4, <1>5, TwinThree DEF EngineFields

LEMMA TwinSlope ==
  ASSUME NEW e, NEW f, Twin(e, f), NEW ch \in Channels, NEW v \in Int
  PROVE  Drawn(e, [e EXCEPT !.slope[ch] = v], [f EXCEPT !.slope[ch] = v])
<1>1. Engine(e) /\ f.slope = e.slope
  BY TwinFacts
<1>2. PICK c : c = [e.slope EXCEPT ![ch] = v]
  OBVIOUS
<1>3. Typed("slope", c)
  BY <1>1, <1>2 DEF Typed, Engine
<1>4. [e EXCEPT !.slope[ch] = v] = Set(e, "slope", c) /\ [f EXCEPT !.slope[ch] = v] = Set(f, "slope", c)
  BY <1>1, <1>2 DEF Set
<1>. QED BY <1>3, <1>4, TwinSet DEF EngineFields

LEMMA TwinWriteMask ==
  ASSUME NEW e, NEW f, Twin(e, f), NEW v
  PROVE  Drawn(e, [e EXCEPT !.rb.write_mask = v], [f EXCEPT !.rb.write_mask = v])
<1>1. Engine(e) /\ f.rb = e.rb
  BY TwinFacts
<1>2. PICK c : c = [e.rb EXCEPT !.write_mask = v]
  OBVIOUS
<1>3. Typed("rb", c)
  BY <1>1, <1>2 DEF Typed, Engine, RbFields
<1>4. [e EXCEPT !.rb.write_mask = v] = Set(e, "rb", c) /\ [f EXCEPT !.rb.write_mask = v] = Set(f, "rb", c)
  BY <1>1, <1>2 DEF Set
<1>. QED BY <1>3, <1>4, TwinSet DEF EngineFields

LEMMA TwinMask ==
  ASSUME NEW e, NEW f, Twin(e, f), NEW v, GoodWrite("smask", v)
  PROVE  Drawn(e, [e EXCEPT !.smask[v.n] = v.rect], [f EXCEPT !.smask[v.n] = v.rect])
<1>1. Engine(e) /\ f.smask = e.smask
  BY TwinFacts
<1>2. PICK c : c = [e.smask EXCEPT ![v.n] = v.rect]
  OBVIOUS
<1>3. Typed("smask", c)
  BY <1>1, <1>2 DEF Typed, Engine, GoodWrite
<1>4. [e EXCEPT !.smask[v.n] = v.rect] = Set(e, "smask", c) /\ [f EXCEPT !.smask[v.n] = v.rect] = Set(f, "smask", c)
  BY <1>1, <1>2 DEF Set
<1>. QED BY <1>3, <1>4, TwinSet DEF EngineFields

LEMMA SlopeIn ==
  /\ \A v : v.mag \in Int => Slope(v) \in Int
  /\ \A v \in Int : Slope24(v) \in Int
<1>1. \A v : v.mag \in Int => Slope(v) \in Int
  BY DEF Slope
<1>2. ASSUME NEW v \in Int PROVE Slope24(v) \in Int
  <2>1. PICK m \in Nat, h \in Nat : m = 2^24 /\ h = 2^23 /\ m > 0
    OBVIOUS
  <2>2. (v + h) % m \in Int
    BY <2>1
  <2>3. Slope24(v) = IF ((v + h) % m) - h = -h THEN 0 ELSE ((v + h) % m) - h
    BY <2>1 DEF Slope24
  <2>. QED BY <2>1, <2>2, <2>3
<1>. QED BY <1>1, <1>2

\* What a write does, register by register.
LEMMA WriteDrawMode1 == ASSUME NEW e, NEW v PROVE EngineWrite(e, "draw_mode1", v) = DrawMode1(e, v)
  BY DEF EngineWrite, Set, Plain
LEMMA WriteDrawMode0 == ASSUME NEW e, NEW v PROVE EngineWrite(e, "draw_mode0", v) = Set(e, "m0", v)
  BY DEF EngineWrite, Set, Plain
LEMMA WriteSetup == ASSUME NEW e, NEW v PROVE EngineWrite(e, "setup", v) = do_setup(e)
  BY DEF EngineWrite, Set, Plain
LEMMA WriteLsRestore == ASSUME NEW e, NEW v PROVE EngineWrite(e, "ls_restore", v) = [e EXCEPT !.ls_pattern = e.ls_saved]
  BY DEF EngineWrite, Set, Plain
LEMMA WriteLsSave == ASSUME NEW e, NEW v PROVE EngineWrite(e, "ls_save", v) = [e EXCEPT !.ls_saved = e.ls_pattern]
  BY DEF EngineWrite, Set, Plain
LEMMA WriteXStart == ASSUME NEW e, NEW v PROVE EngineWrite(e, "x_start", v) = [write_start(e, v, e.ys) EXCEPT !.x_save = Whole(v)]
  BY DEF EngineWrite, Set, Plain
LEMMA WriteYStart == ASSUME NEW e, NEW v PROVE EngineWrite(e, "y_start", v) = write_start(e, e.xs, v)
  BY DEF EngineWrite, Set, Plain
LEMMA WriteXEnd == ASSUME NEW e, NEW v PROVE EngineWrite(e, "x_end", v) = write_end(e, v, e.ye)
  BY DEF EngineWrite, Set, Plain
LEMMA WriteYEnd == ASSUME NEW e, NEW v PROVE EngineWrite(e, "y_end", v) = write_end(e, e.xe, v)
  BY DEF EngineWrite, Set, Plain
LEMMA WriteXStartEnd == ASSUME NEW e, NEW v PROVE EngineWrite(e, "x_start_end", v) = [write_end(write_start(e, 16 * v.x0, e.ys), 16 * v.x1, e.ye) EXCEPT !.x_save = Whole(16 * v.x0)]
  BY DEF EngineWrite, Set, Plain
LEMMA WriteXyStart == ASSUME NEW e, NEW v PROVE EngineWrite(e, "xy_start", v) = [write_start(e, 16 * v.x, 16 * v.y) EXCEPT !.x_save = Whole(16 * v.x)]
  BY DEF EngineWrite, Set, Plain
LEMMA WriteXyEnd == ASSUME NEW e, NEW v PROVE EngineWrite(e, "xy_end", v) = write_end(e, 16 * v.x, 16 * v.y)
  BY DEF EngineWrite, Set, Plain
LEMMA WriteXyStartF == ASSUME NEW e, NEW v PROVE EngineWrite(e, "xy_start_f", v) = [write_start(e, v.x, v.y) EXCEPT !.x_save = Whole(v.x)]
  BY DEF EngineWrite, Set, Plain
LEMMA WriteXyEndF == ASSUME NEW e, NEW v PROVE EngineWrite(e, "xy_end_f", v) = write_end(e, v.x, v.y)
  BY DEF EngineWrite, Set, Plain
LEMMA WriteOctant == ASSUME NEW e, NEW v PROVE EngineWrite(e, "octant", v) = [e EXCEPT !.oct = v]
  BY DEF EngineWrite, Set, Plain
LEMMA WriteColorRed == ASSUME NEW e, NEW v PROVE EngineWrite(e, "color_red", v) = ColorRed(e, v)
  BY DEF EngineWrite, Set, Plain
LEMMA WriteSlope == ASSUME NEW e, NEW v PROVE EngineWrite(e, "slope", v) = [e EXCEPT !.slope[v.ch] = Slope(v)]
  BY DEF EngineWrite, Set, Plain
LEMMA WriteSlopeRed == ASSUME NEW e, NEW v PROVE EngineWrite(e, "slope_red", v) = [e EXCEPT !.slope.red = Slope24(v)]
  BY DEF EngineWrite, Set, Plain
LEMMA WriteWriteMask == ASSUME NEW e, NEW v PROVE EngineWrite(e, "write_mask", v) = [e EXCEPT !.rb.write_mask = v]
  BY DEF EngineWrite, Set, Plain
LEMMA WriteColorI == ASSUME NEW e, NEW v PROVE EngineWrite(e, "color_i", v) = ColorIndex(e, v)
  BY DEF EngineWrite, Set, Plain
LEMMA WriteHost == ASSUME NEW e, NEW v PROVE EngineWrite(e, "host", v) = HostPort(e, v)
  BY DEF EngineWrite, Set, Plain
LEMMA WriteSmask == ASSUME NEW e, NEW v PROVE EngineWrite(e, "smask", v) = [e EXCEPT !.smask[v.n] = v.rect]
  BY DEF EngineWrite, Set, Plain
LEMMA WriteChannel ==
  ASSUME NEW e, NEW v, NEW ch \in {"green", "blue", "alpha"}
  PROVE  EngineWrite(e, ch, v) = SetChannel(e, ch, v)
<1>1. ch = "green" \/ ch = "blue" \/ ch = "alpha"
  OBVIOUS
<1>. QED BY <1>1 DEF EngineWrite, SetChannel, Plain
LEMMA WritePlain == ASSUME NEW e, NEW v, NEW reg \in Plain PROVE EngineWrite(e, reg, v) = Set(e, reg, v)
  BY DEF EngineWrite, Plain, Set

EngineRegs ==
  {"draw_mode1", "draw_mode0", "setup", "ls_restore", "ls_save", "x_start", "y_start", "x_end", "y_end", "x_start_end",
   "xy_start", "xy_end", "xy_start_f", "xy_end_f", "octant", "color_red", "green", "blue", "alpha", "slope", "slope_red",
   "write_mask", "color_i", "host", "smask"} \cup Plain

LEMMA OtherWrite == ASSUME NEW e, NEW v, NEW reg, reg \notin EngineRegs PROVE EngineWrite(e, reg, v) = e
  BY DEF EngineWrite, EngineRegs

\* Writes of positions.
LEMMA TwinPlaceWrite ==
  ASSUME NEW e, NEW f, Twin(e, f), NEW v, NEW reg, GoodWrite(reg, v),
         reg \in {"x_start", "y_start", "x_end", "y_end", "x_start_end", "xy_start", "xy_end", "xy_start_f", "xy_end_f"}
  PROVE  Drawn(e, EngineWrite(e, reg, v), EngineWrite(f, reg, v))
<1>1. /\ f.xs = e.xs /\ f.ys = e.ys /\ f.xe = e.xe /\ f.ye = e.ye
      /\ e.xs \in Int /\ e.ys \in Int /\ e.xe \in Int /\ e.ye \in Int
  <2>1. Engine(e)
    BY DEF Twin
  <2>2. e.xs \in Int /\ e.ys \in Int /\ e.xe \in Int /\ e.ye \in Int
    BY <2>1 DEF Engine
  <2>3. f.xs = e.xs /\ f.ys = e.ys /\ f.xe = e.xe /\ f.ye = e.ye
    BY TwinFacts
  <2>. QED BY <2>2, <2>3
<1>2. CASE reg = "x_start"
  <2>1. v \in Int
    BY <1>2 DEF GoodWrite
  <2>2. Drawn(e, [write_start(e, v, e.ys) EXCEPT !.x_save = Whole(v)], [write_start(f, v, e.ys) EXCEPT !.x_save = Whole(v)])
    BY <1>1, <2>1, TwinStartSaved
  <2>. QED BY <1>1, <1>2, <2>2, WriteXStart
<1>3. CASE reg = "y_start"
  <2>1. v \in Int
    BY <1>3 DEF GoodWrite
  <2>2. Drawn(e, write_start(e, e.xs, v), write_start(f, e.xs, v))
    BY <1>1, <2>1, TwinStart
  <2>. QED BY <1>1, <1>3, <2>2, WriteYStart
<1>4. CASE reg = "x_end"
  <2>1. v \in Int
    BY <1>4 DEF GoodWrite
  <2>2. Drawn(e, write_end(e, v, e.ye), write_end(f, v, e.ye))
    BY <1>1, <2>1, TwinEnd
  <2>. QED BY <1>1, <1>4, <2>2, WriteXEnd
<1>5. CASE reg = "y_end"
  <2>1. v \in Int
    BY <1>5 DEF GoodWrite
  <2>2. Drawn(e, write_end(e, e.xe, v), write_end(f, e.xe, v))
    BY <1>1, <2>1, TwinEnd
  <2>. QED BY <1>1, <1>5, <2>2, WriteYEnd
<1>6. CASE reg = "x_start_end"
  <2>1. PICK x, y \in Int : x = 16 * v.x0 /\ y = 16 * v.x1
    BY <1>6 DEF GoodWrite
  <2>2. Drawn(e, [write_end(write_start(e, x, e.ys), y, e.ye) EXCEPT !.x_save = Whole(x)],
                 [write_end(write_start(f, x, f.ys), y, f.ye) EXCEPT !.x_save = Whole(x)])
    BY TwinStartEnd
  <2>. QED BY <1>6, <2>1, <2>2, WriteXStartEnd
<1>7. CASE reg = "xy_start"
  <2>1. PICK x, y \in Int : x = 16 * v.x /\ y = 16 * v.y
    BY <1>7 DEF GoodWrite
  <2>2. Drawn(e, [write_start(e, x, y) EXCEPT !.x_save = Whole(x)], [write_start(f, x, y) EXCEPT !.x_save = Whole(x)])
    BY TwinStartSaved
  <2>. QED BY <1>7, <2>1, <2>2, WriteXyStart
<1>8. CASE reg = "xy_end"
  <2>1. PICK x, y \in Int : x = 16 * v.x /\ y = 16 * v.y
    BY <1>8 DEF GoodWrite
  <2>2. Drawn(e, write_end(e, x, y), write_end(f, x, y))
    BY TwinEnd
  <2>. QED BY <1>8, <2>1, <2>2, WriteXyEnd
<1>9. CASE reg = "xy_start_f"
  <2>1. v.x \in Int /\ v.y \in Int
    BY <1>9 DEF GoodWrite
  <2>2. Drawn(e, [write_start(e, v.x, v.y) EXCEPT !.x_save = Whole(v.x)], [write_start(f, v.x, v.y) EXCEPT !.x_save = Whole(v.x)])
    BY <2>1, TwinStartSaved
  <2>. QED BY <1>9, <2>2, WriteXyStartF
<1>10. CASE reg = "xy_end_f"
  <2>1. v.x \in Int /\ v.y \in Int
    BY <1>10 DEF GoodWrite
  <2>2. Drawn(e, write_end(e, v.x, v.y), write_end(f, v.x, v.y))
    BY <2>1, TwinEnd
  <2>. QED BY <1>10, <2>2, WriteXyEndF
<1>. QED BY <1>2, <1>3, <1>4, <1>5, <1>6, <1>7, <1>8, <1>9, <1>10

\* Writes of anything but a position or a mode.
LEMMA TwinOtherWrite ==
  ASSUME NEW e, NEW f, Twin(e, f), NEW v, NEW reg, GoodWrite(reg, v),
         reg \notin {"x_start", "y_start", "x_end", "y_end", "x_start_end", "xy_start", "xy_end", "xy_start_f", "xy_end_f",
                     "draw_mode0", "draw_mode1"}
  PROVE  Drawn(e, EngineWrite(e, reg, v), EngineWrite(f, reg, v))
<1>1. CASE reg = "setup"
  BY <1>1, WriteSetup, TwinSetup
<1>2. CASE reg = "ls_restore"
  <2>1. PICK u : u = e.ls_saved /\ u = f.ls_saved
    BY TwinFacts
  <2>2. Drawn(e, Set(e, "ls_pattern", u), Set(f, "ls_pattern", u))
    BY TwinFree DEF Free, Set
  <2>. QED BY <1>2, <2>1, <2>2, WriteLsRestore DEF Set
<1>3. CASE reg = "ls_save"
  <2>1. PICK u : u = e.ls_pattern /\ u = f.ls_pattern
    BY TwinFacts
  <2>2. Drawn(e, Set(e, "ls_saved", u), Set(f, "ls_saved", u))
    BY TwinFree DEF Free, Set
  <2>. QED BY <1>3, <2>1, <2>2, WriteLsSave DEF Set
<1>4. CASE reg = "octant"
  <2>1. Drawn(e, Set(e, "oct", v), Set(f, "oct", v))
    BY TwinFree DEF Free, Set
  <2>. QED BY <1>4, <2>1, WriteOctant DEF Set
<1>5. CASE reg = "color_red"
  <2>1. v \in Int
    BY <1>5 DEF GoodWrite
  <2>. QED BY <1>5, <2>1, WriteColorRed, TwinRed
<1>6. CASE reg \in {"green", "blue", "alpha"}
  <2>1. v \in Int /\ reg \in Channels
    BY <1>6 DEF GoodWrite, Channels
  <2>. QED BY <1>6, <2>1, TwinChannel, WriteChannel
<1>7. CASE reg = "slope"
  <2>1. PICK u \in Int : u = Slope(v)
    BY <1>7, SlopeIn DEF GoodWrite
  <2>2. v.ch \in Channels
    BY <1>7 DEF GoodWrite
  <2>3. Drawn(e, [e EXCEPT !.slope[v.ch] = u], [f EXCEPT !.slope[v.ch] = u])
    BY <2>2, TwinSlope
  <2>. QED BY <1>7, <2>1, <2>3, WriteSlope
<1>8. CASE reg = "slope_red"
  <2>1. PICK u \in Int : u = Slope24(v)
    BY <1>8, SlopeIn DEF GoodWrite
  <2>2. PICK ch \in Channels : ch = "red"
    BY DEF Channels
  <2>3. Drawn(e, [e EXCEPT !.slope[ch] = u], [f EXCEPT !.slope[ch] = u])
    BY TwinSlope
  <2>. QED BY <1>8, <2>1, <2>2, <2>3, WriteSlopeRed
<1>9. CASE reg = "write_mask"
  BY <1>9, WriteWriteMask, TwinWriteMask
<1>10. CASE reg = "color_i"
  BY <1>10, WriteColorI, TwinIndex
<1>11. CASE reg = "host"
  BY <1>11, WriteHost, TwinHostPort
<1>12. CASE reg = "smask"
  <2>1. GoodWrite("smask", v)
    BY <1>12
  <2>2. PICK x, y : x = [e EXCEPT !.smask[v.n] = v.rect] /\ y = [f EXCEPT !.smask[v.n] = v.rect]
    OBVIOUS
  <2>3. Drawn(e, x, y)
    BY <2>1, <2>2, TwinMask
  <2>4. EngineWrite(e, "smask", v) = x /\ EngineWrite(f, "smask", v) = y
    BY <2>2, WriteSmask
  <2>. QED BY <1>12, <2>3, <2>4
<1>13. CASE reg \in Plain
  <2>1. Typed(reg, v) /\ reg \in EngineFields \ {"scalar", "m0", "m1"}
    BY <1>13 DEF Plain, Typed, GoodWrite, EngineFields
  <2>2. Drawn(e, Set(e, reg, v), Set(f, reg, v))
    BY <2>1, TwinSet
  <2>. QED BY <1>13, <2>2, WritePlain
<1>14. CASE reg \notin EngineRegs
  BY <1>14, OtherWrite DEF Drawn
<1>. QED BY <1>1, <1>2, <1>3, <1>4, <1>5, <1>6, <1>7, <1>8, <1>9, <1>10, <1>11, <1>12, <1>13, <1>14 DEF EngineRegs


LEMMA TwinEngineWrite ==
  ASSUME NEW e, NEW f, Twin(e, f), NEW v, NEW reg, GoodWrite(reg, v)
  PROVE  /\ Twin(EngineWrite(e, reg, v), EngineWrite(f, reg, v))
         /\ reg \notin Modes => Drawn(e, EngineWrite(e, reg, v), EngineWrite(f, reg, v))
<1>1. CASE reg = "draw_mode1"
  BY <1>1, WriteDrawMode1, TwinMode DEF Modes
<1>2. CASE reg = "draw_mode0"
  <2>1. Typed("m0", v)
    BY DEF Typed
  <2>2. Twin(Set(e, "m0", v), Set(f, "m0", v))
    BY <2>1, TwinSet DEF EngineFields
  <2>. QED BY <1>2, <2>2, WriteDrawMode0 DEF Modes
<1>3. CASE reg \notin Modes
  <2>1. Drawn(e, EngineWrite(e, reg, v), EngineWrite(f, reg, v))
    BY <1>3, TwinPlaceWrite, TwinOtherWrite DEF Modes
  <2>. QED BY <2>1 DEF Drawn
<1>. QED BY <1>1, <1>2, <1>3 DEF Modes

\* The answer to GO is the engine's command.
EngineOnGo == \A e : DrawCommand(e) = do_command(e)

\* An access that starts a command: the register write must leave the modes, or the new modes be unmixed.
LEMMA TwinGo ==
  ASSUME EngineOnGo, NEW e, NEW f, Twin(e, f), NEW go, go => Unmixed(e)
  PROVE  Drawn(e, OnGo(go, e), OnGo(go, f))
<1>1. Drawn(e, e, f)
  BY DEF Drawn
<1>2. DrawCommand(e) = do_command(e) /\ DrawCommand(f) = do_command(f)
  BY DEF EngineOnGo
<1>. QED BY <1>1, <1>2, TwinCommand DEF OnGo
-----------------------------------------------------------------------------
(* Boards: the engine apart, twins are alike *)

Board4(e, vid, icnt, dcb) == [e |-> e, vid |-> vid, icnt |-> icnt, dcb |-> dcb]

TwinBoard(b, d) ==
  /\ b = Board4(b.e, b.vid, b.icnt, b.dcb)
  /\ d = Board4(d.e, b.vid, b.icnt, b.dcb)
  /\ Twin(b.e, d.e)

\* Twins g and h, left by an access to a board b, with its modes.
DrawnBoard(b, g, h) == TwinBoard(g, h) /\ g.e.m0 = b.e.m0 /\ g.e.m1 = b.e.m1

LEMMA AutoIncIs ==
  ASSUME NEW vid, NEW icnt, NEW dcb
  PROVE  \E w : \A e, u : AutoInc(Board4(e, u, icnt, dcb)) = Board4(e, u, icnt, w)
<1>1. PICK w : w = IF dcb.inc THEN [dcb EXCEPT !.reg = (@ + 1) % 8] ELSE dcb
  OBVIOUS
<1>2. ASSUME NEW e, NEW u PROVE AutoInc(Board4(e, u, icnt, dcb)) = Board4(e, u, icnt, w)
  BY <1>1 DEF AutoInc, Board4
<1>. QED BY <1>2

\* The display control bus does not know the engine.
LEMMA DcbWriteIs ==
  ASSUME NEW vid, NEW icnt, NEW dcb, NEW v
  PROVE  \E u, w : \A e : dcb_write(Board4(e, vid, icnt, dcb), v) = Board4(e, u, icnt, w)
<1>1. PICK w : \A e, u : AutoInc(Board4(e, u, icnt, dcb)) = Board4(e, u, icnt, w)
  BY AutoIncIs
<1> DEFINE X(b) ==
        CASE b.dcb.slave = "vc2" -> [b EXCEPT !.vid.vc2 = vc2_write(@, b.dcb.reg, v, b.dcb.width)]
          [] b.dcb.slave \in {"cmap01", "cmap0", "cmap1"} ->
               [b EXCEPT !.vid.cmap = [i \in 0 .. 1 |->
                  IF b.dcb.slave = "cmap01" \/ b.dcb.slave = <<"cmap0", "cmap1">>[i + 1] THEN cmap_write(@[i], b.dcb.reg, v) ELSE @[i]]]
          [] b.dcb.slave \in {"xmap01", "xmap0", "xmap1"} ->
               [b EXCEPT !.vid.xmap = [i \in 0 .. 1 |->
                  IF b.dcb.slave = "xmap01" \/ b.dcb.slave = <<"xmap0", "xmap1">>[i + 1] THEN xmap9_write(@[i], b.dcb.reg, v) ELSE @[i]]]
          [] b.dcb.slave = "ramdac" -> [b EXCEPT !.vid = ramdac_write(@, b.dcb.reg, v)]
          [] b.dcb.slave = "pcd" -> PcdBusy(b)
          [] OTHER -> b
<1>2. \A b : dcb_write(b, v) = AutoInc(X(b))
  BY Zenon DEF dcb_write
<1>3. \E u : \A e : X(Board4(e, vid, icnt, dcb)) = Board4(e, u, icnt, dcb)
  <2>1. CASE dcb.slave = "vc2"
    <3>1. PICK u : u = [vid EXCEPT !.vc2 = vc2_write(@, dcb.reg, v, dcb.width)]
      OBVIOUS
    <3>2. ASSUME NEW e PROVE X(Board4(e, vid, icnt, dcb)) = Board4(e, u, icnt, dcb)
      BY <2>1, <3>1 DEF Board4
    <3>. QED BY <3>2
  <2>2. CASE dcb.slave \in {"cmap01", "cmap0", "cmap1"}
    <3>1. PICK u : u = [vid EXCEPT !.cmap = [i \in 0 .. 1 |->
                  IF dcb.slave = "cmap01" \/ dcb.slave = <<"cmap0", "cmap1">>[i + 1] THEN cmap_write(@[i], dcb.reg, v) ELSE @[i]]]
      OBVIOUS
    <3>2. ASSUME NEW e PROVE X(Board4(e, vid, icnt, dcb)) = Board4(e, u, icnt, dcb)
      BY <2>2, <3>1 DEF Board4
    <3>. QED BY <3>2
  <2>3. CASE dcb.slave \in {"xmap01", "xmap0", "xmap1"}
    <3>1. PICK u : u = [vid EXCEPT !.xmap = [i \in 0 .. 1 |->
                  IF dcb.slave = "xmap01" \/ dcb.slave = <<"xmap0", "xmap1">>[i + 1] THEN xmap9_write(@[i], dcb.reg, v) ELSE @[i]]]
      OBVIOUS
    <3>2. ASSUME NEW e PROVE X(Board4(e, vid, icnt, dcb)) = Board4(e, u, icnt, dcb)
      BY <2>3, <3>1 DEF Board4
    <3>. QED BY <3>2
  <2>4. CASE dcb.slave = "ramdac"
    <3>1. PICK u : u = ramdac_write(vid, dcb.reg, v)
      OBVIOUS
    <3>2. ASSUME NEW e PROVE X(Board4(e, vid, icnt, dcb)) = Board4(e, u, icnt, dcb)
      BY <2>4, <3>1 DEF Board4
    <3>. QED BY <3>2
  <2>5. CASE dcb.slave = "pcd"
    <3>1. PICK u : u = [vid EXCEPT !.backbusy = TRUE, !.busy_until = icnt + DCB_TIMEOUT_ICNT]
      OBVIOUS
    <3>2. ASSUME NEW e PROVE X(Board4(e, vid, icnt, dcb)) = Board4(e, u, icnt, dcb)
      BY <2>5, <3>1 DEF Board4, PcdBusy
    <3>. QED BY <3>2
  <2>6. CASE dcb.slave \notin {"vc2", "cmap01", "cmap0", "cmap1", "xmap01", "xmap0", "xmap1", "ramdac", "pcd"}
    <3>2. ASSUME NEW e PROVE X(Board4(e, vid, icnt, dcb)) = Board4(e, vid, icnt, dcb)
      BY <2>6 DEF Board4
    <3>. QED BY <3>2
  <2> HIDE DEF X
  <2>. QED BY <2>1, <2>2, <2>3, <2>4, <2>5, <2>6
<1> HIDE DEF X
<1>. QED BY <1>1, <1>2, <1>3

LEMMA DcbReadIs ==
  ASSUME NEW vid, NEW icnt, NEW dcb
  PROVE  \E u, w : \A e : dcb_read(Board4(e, vid, icnt, dcb)) = Board4(e, u, icnt, w)
<1>1. PICK w : \A e, u : AutoInc(Board4(e, u, icnt, dcb)) = Board4(e, u, icnt, w)
  BY AutoIncIs
<1> DEFINE X(b) == CASE b.dcb.slave = "vc2" -> [b EXCEPT !.vid.vc2 = vc2_read(@, b.dcb.reg)]
                     [] b.dcb.slave = "pcd" -> PcdBusy(b)
                     [] OTHER -> b
<1>2. \A b : dcb_read(b) = AutoInc(X(b))
  BY Zenon DEF dcb_read
<1>3. \E u : \A e : X(Board4(e, vid, icnt, dcb)) = Board4(e, u, icnt, dcb)
  <2>1. CASE dcb.slave = "vc2"
    <3>1. PICK u : u = [vid EXCEPT !.vc2 = vc2_read(@, dcb.reg)]
      OBVIOUS
    <3>2. ASSUME NEW e PROVE X(Board4(e, vid, icnt, dcb)) = Board4(e, u, icnt, dcb)
      BY <2>1, <3>1 DEF Board4
    <3>. QED BY <3>2
  <2>2. CASE dcb.slave = "pcd"
    <3>1. PICK u : u = [vid EXCEPT !.backbusy = TRUE, !.busy_until = icnt + DCB_TIMEOUT_ICNT]
      OBVIOUS
    <3>2. ASSUME NEW e PROVE X(Board4(e, vid, icnt, dcb)) = Board4(e, u, icnt, dcb)
      BY <2>2, <3>1 DEF Board4, PcdBusy
    <3>. QED BY <3>2
  <2>3. CASE dcb.slave \notin {"vc2", "pcd"}
    <3>2. ASSUME NEW e PROVE X(Board4(e, vid, icnt, dcb)) = Board4(e, vid, icnt, dcb)
      BY <2>3 DEF Board4
    <3>. QED BY <3>2
  <2> HIDE DEF X
  <2>. QED BY <2>1, <2>2, <2>3
<1> HIDE DEF X
<1>. QED BY <1>1, <1>2, <1>3

\* A board after its engine alone changed ...
LEMMA BoardEngine ==
  ASSUME NEW b, NEW d, TwinBoard(b, d), NEW e, NEW f, Drawn(b.e, e, f)
  PROVE  DrawnBoard(b, [b EXCEPT !.e = e], [d EXCEPT !.e = f])
<1>1. PICK g, h : g = [b EXCEPT !.e = e] /\ h = [d EXCEPT !.e = f]
  OBVIOUS
<1>2. g = Board4(e, b.vid, b.icnt, b.dcb)
  BY <1>1 DEF TwinBoard, Board4
<1>3. h = Board4(f, b.vid, b.icnt, b.dcb)
  BY <1>1 DEF TwinBoard, Board4
<1>4. g.e = e /\ g.vid = b.vid /\ g.icnt = b.icnt /\ g.dcb = b.dcb /\ h.e = f
  BY <1>2, <1>3 DEF Board4
<1>. QED BY <1>1, <1>2, <1>3, <1>4 DEF DrawnBoard, TwinBoard, Drawn

\* ... or anything but its engine.
LEMMA BoardRest ==
  ASSUME NEW b, NEW d, TwinBoard(b, d), NEW u, NEW i, NEW w
  PROVE  DrawnBoard(b, Board4(b.e, u, i, w), Board4(d.e, u, i, w))
  BY DEF DrawnBoard, TwinBoard, Board4

\* A command on boards whose modes allow it.
LEMMA BoardGo ==
  ASSUME EngineOnGo, NEW b, NEW d, TwinBoard(b, d), NEW go, go => Unmixed(b.e)
  PROVE  DrawnBoard(b, [b EXCEPT !.e = OnGo(go, @)], [d EXCEPT !.e = OnGo(go, @)])
<1>1. Twin(b.e, d.e)
  BY DEF TwinBoard
<1>2. PICK x, y : x = OnGo(go, b.e) /\ y = OnGo(go, d.e)
  OBVIOUS
<1>3. Drawn(b.e, x, y)
  BY <1>1, <1>2, TwinGo
<1>4. DrawnBoard(b, [b EXCEPT !.e = x], [d EXCEPT !.e = y])
  BY <1>3, BoardEngine
<1>. QED BY <1>2, <1>4

LEMMA DrawnBoards ==
  ASSUME NEW b, NEW g, NEW h, NEW j, NEW k, DrawnBoard(b, g, h), DrawnBoard(g, j, k) PROVE DrawnBoard(b, j, k)
  BY DEF DrawnBoard

LEMMA UnmixedKept ==
  ASSUME NEW e, NEW g, Unmixed(e), g.m0 = e.m0, g.m1 = e.m1 PROVE Unmixed(g)
  BY DEF Unmixed

\* The bits of a bus command may be anything on the display control bus.
LEMMA BoardWrite ==
  ASSUME EngineOnGo, NEW b, NEW d, TwinBoard(b, d), NEW reg, NEW v, GoodWrite(reg, v), NEW go,
         go => reg \notin Modes /\ Unmixed(b.e)
  PROVE  /\ TwinBoard(rex3_w(b, reg, v, go), rex3_w(d, reg, v, go))
         /\ reg \notin Modes => DrawnBoard(b, rex3_w(b, reg, v, go), rex3_w(d, reg, v, go))
<1> DEFINE X(c) == CASE reg = "dcb_mode" -> [c EXCEPT !.dcb = v]
                     [] reg = "dcb_data" -> dcb_write(c, v)
                     [] OTHER -> [c EXCEPT !.e = EngineWrite(@, reg, v)]
<1>1. \A c : rex3_w(c, reg, v, go) = [X(c) EXCEPT !.e = OnGo(go, @)]
  BY Zenon DEF rex3_w
<1>2. b = Board4(b.e, b.vid, b.icnt, b.dcb) /\ d = Board4(d.e, b.vid, b.icnt, b.dcb) /\ Twin(b.e, d.e)
  BY DEF TwinBoard
<1>3. TwinBoard(X(b), X(d)) /\ (reg \notin Modes => DrawnBoard(b, X(b), X(d)))
  <2>1. CASE reg = "dcb_mode"
    <3>1. X(b) = Board4(b.e, b.vid, b.icnt, v) /\ X(d) = Board4(d.e, b.vid, b.icnt, v)
      BY <1>2, <2>1 DEF Board4
    <3> HIDE DEF X
    <3>. QED BY <3>1, BoardRest DEF DrawnBoard
  <2>2. CASE reg = "dcb_data"
    <3>1. PICK u, w : \A e : dcb_write(Board4(e, b.vid, b.icnt, b.dcb), v) = Board4(e, u, b.icnt, w)
      BY DcbWriteIs
    <3>2. X(b) = Board4(b.e, u, b.icnt, w) /\ X(d) = Board4(d.e, u, b.icnt, w)
      BY <1>2, <2>2, <3>1
    <3> HIDE DEF X
    <3>. QED BY <3>2, BoardRest DEF DrawnBoard
  <2>3. CASE reg \notin {"dcb_mode", "dcb_data"}
    <3>1. PICK x, y : x = EngineWrite(b.e, reg, v) /\ y = EngineWrite(d.e, reg, v)
      OBVIOUS
    <3>2. Twin(x, y) /\ (reg \notin Modes => Drawn(b.e, x, y))
      BY <1>2, <3>1, TwinEngineWrite
    <3>3. X(b) = [b EXCEPT !.e = x] /\ X(d) = [d EXCEPT !.e = y]
      BY <2>3, <3>1
    <3>4. X(b) = Board4(x, b.vid, b.icnt, b.dcb) /\ X(d) = Board4(y, b.vid, b.icnt, b.dcb)
      BY <1>2, <3>3 DEF Board4
    <3>5. TwinBoard(X(b), X(d))
      <4>1. PICK g, h : g = X(b) /\ h = X(d)
        OBVIOUS
      <4>2. g.e = x /\ g.vid = b.vid /\ g.icnt = b.icnt /\ g.dcb = b.dcb /\ h.e = y
        BY <3>4, <4>1 DEF Board4
      <4> HIDE DEF X
      <4>. QED BY <3>2, <3>4, <4>1, <4>2 DEF TwinBoard
    <3>6. reg \notin Modes => DrawnBoard(b, X(b), X(d))
      <4> HIDE DEF X
      <4>. QED BY <3>2, <3>3, BoardEngine
    <3>. QED BY <3>5, <3>6
  <2>. QED BY <2>1, <2>2, <2>3
<1>4. PICK g, h : g = X(b) /\ h = X(d)
  OBVIOUS
<1>5. TwinBoard(g, h) /\ (reg \notin Modes => DrawnBoard(b, g, h))
  <2> HIDE DEF X
  <2>. QED BY <1>3, <1>4
<1>6. go => Unmixed(g.e)
  BY <1>5, UnmixedKept DEF DrawnBoard
<1>7. rex3_w(b, reg, v, go) = [g EXCEPT !.e = OnGo(go, @)] /\ rex3_w(d, reg, v, go) = [h EXCEPT !.e = OnGo(go, @)]
  <2> HIDE DEF X
  <2>. QED BY <1>1, <1>4
<1>8. DrawnBoard(g, rex3_w(b, reg, v, go), rex3_w(d, reg, v, go))
  BY <1>5, <1>6, <1>7, BoardGo
<1>. QED BY <1>5, <1>8, DrawnBoards DEF DrawnBoard

LEMMA BoardRead ==
  ASSUME EngineOnGo, NEW b, NEW d, TwinBoard(b, d), NEW reg, NEW go, go => Unmixed(b.e)
  PROVE  /\ DrawnBoard(b, rex3_r(b, reg, go).b, rex3_r(d, reg, go).b)
         /\ rex3_r(d, reg, go).val = rex3_r(b, reg, go).val
<1> DEFINE T(c) == IF c.vid.backbusy /\ c.icnt >= c.vid.busy_until THEN [c EXCEPT !.vid.backbusy = FALSE] ELSE c
           X(c) == CASE reg = "dcb_data" -> dcb_read(c)
                     [] reg = "status" -> [T(c) EXCEPT !.vid.vrint = FALSE]
                     [] reg = "user_status" -> T(c)
                     [] OTHER -> c
<1>1. \A c : rex3_r(c, reg, go) = [b |-> [X(c) EXCEPT !.e = OnGo(go, @)], val |-> IF reg = "host" THEN c.e.host ELSE {}]
  BY Zenon DEF rex3_r
<1>2. b = Board4(b.e, b.vid, b.icnt, b.dcb) /\ d = Board4(d.e, b.vid, b.icnt, b.dcb) /\ Twin(b.e, d.e)
  BY DEF TwinBoard
<1>3. PICK t : t = IF b.vid.backbusy /\ b.icnt >= b.vid.busy_until THEN [b.vid EXCEPT !.backbusy = FALSE] ELSE b.vid
  OBVIOUS
<1>4. \A e : T(Board4(e, b.vid, b.icnt, b.dcb)) = Board4(e, t, b.icnt, b.dcb)
  BY <1>3 DEF Board4
<1>5. \E u, w : \A e : X(Board4(e, b.vid, b.icnt, b.dcb)) = Board4(e, u, b.icnt, w)
  <2>1. CASE reg = "dcb_data"
    <3>1. PICK u, w : \A e : dcb_read(Board4(e, b.vid, b.icnt, b.dcb)) = Board4(e, u, b.icnt, w)
      BY DcbReadIs
    <3> HIDE DEF T
    <3>. QED BY <2>1, <3>1
  <2>2. CASE reg = "status"
    <3>1. PICK u : u = [t EXCEPT !.vrint = FALSE]
      OBVIOUS
    <3>2. ASSUME NEW e PROVE X(Board4(e, b.vid, b.icnt, b.dcb)) = Board4(e, u, b.icnt, b.dcb)
      <4>1. X(Board4(e, b.vid, b.icnt, b.dcb)) = [T(Board4(e, b.vid, b.icnt, b.dcb)) EXCEPT !.vid.vrint = FALSE]
        BY <2>2
      <4>2. [Board4(e, t, b.icnt, b.dcb) EXCEPT !.vid.vrint = FALSE] = Board4(e, u, b.icnt, b.dcb)
        <5>1. PICK r : r = Board4(e, t, b.icnt, b.dcb)
          OBVIOUS
        <5>2. r.vid = t
          BY <5>1 DEF Board4
        <5>3. [r EXCEPT !.vid.vrint = FALSE] = [r EXCEPT !.vid = u]
          BY <3>1, <5>2
        <5>4. [r EXCEPT !.vid = u] = Board4(e, u, b.icnt, b.dcb)
          BY <5>1 DEF Board4
        <5>. QED BY <5>1, <5>3, <5>4
      <4> HIDE DEF T, X
      <4>. QED BY <1>4, <4>1, <4>2
    <3> HIDE DEF X
    <3>. QED BY <3>2
  <2>3. CASE reg = "user_status"
    <3>1. \A e : X(Board4(e, b.vid, b.icnt, b.dcb)) = T(Board4(e, b.vid, b.icnt, b.dcb))
      BY <2>3
    <3> HIDE DEF T, X
    <3>. QED BY <1>4, <3>1
  <2>4. CASE reg \notin {"dcb_data", "status", "user_status"}
    <3>1. \A e : X(Board4(e, b.vid, b.icnt, b.dcb)) = Board4(e, b.vid, b.icnt, b.dcb)
      BY <2>4
    <3> HIDE DEF T, X
    <3>. QED BY <3>1
  <2> HIDE DEF T, X
  <2>. QED BY <2>1, <2>2, <2>3, <2>4
<1>6. PICK u, w : \A e : X(Board4(e, b.vid, b.icnt, b.dcb)) = Board4(e, u, b.icnt, w)
  <2> HIDE DEF T, X
  <2>. QED BY <1>5
<1> HIDE DEF T, X
<1>7. PICK g, h : g = Board4(b.e, u, b.icnt, w) /\ h = Board4(d.e, u, b.icnt, w) /\ g = X(b) /\ h = X(d)
  BY <1>2, <1>6
<1>8. DrawnBoard(b, g, h) /\ TwinBoard(g, h)
  <2>1. DrawnBoard(b, g, h)
    BY <1>7, BoardRest
  <2>. QED BY <2>1 DEF DrawnBoard
<1>9. go => Unmixed(g.e)
  BY <1>8, UnmixedKept DEF DrawnBoard
<1>10. DrawnBoard(g, [g EXCEPT !.e = OnGo(go, @)], [h EXCEPT !.e = OnGo(go, @)])
  BY <1>8, <1>9, BoardGo
<1>11. d.e.host = b.e.host
  <2>1. Regs(b.e, d.e)
    BY <1>2, TwinView
  <2>. QED BY <2>1 DEF Regs
<1>12. rex3_r(b, reg, go).b = [g EXCEPT !.e = OnGo(go, @)] /\ rex3_r(d, reg, go).b = [h EXCEPT !.e = OnGo(go, @)]
  BY <1>1, <1>7
<1>13. rex3_r(d, reg, go).val = rex3_r(b, reg, go).val
  <2>1. ASSUME NEW c PROVE rex3_r(c, reg, go).val = IF reg = "host" THEN c.e.host ELSE {}
    <3>1. PICK x : x = [X(c) EXCEPT !.e = OnGo(go, @)]
      OBVIOUS
    <3>2. rex3_r(c, reg, go) = [b |-> x, val |-> IF reg = "host" THEN c.e.host ELSE {}]
      BY <1>1, <3>1
    <3>. QED BY <3>2
  <2>. QED BY <1>11, <2>1
<1>14. DrawnBoard(b, [g EXCEPT !.e = OnGo(go, @)], [h EXCEPT !.e = OnGo(go, @)])
  BY <1>8, <1>10, DrawnBoards
<1>. QED BY <1>12, <1>13, <1>14

LEMMA BoardRetrace ==
  ASSUME NEW b, NEW d, TwinBoard(b, d)
  PROVE  DrawnBoard(b, vblank(b), vblank(d))
<1>1. b = Board4(b.e, b.vid, b.icnt, b.dcb) /\ d = Board4(d.e, b.vid, b.icnt, b.dcb) /\ Twin(b.e, d.e)
  BY DEF TwinBoard
<1>2. PICK u : u = IF HasBit(b.vid.vc2.regs.display_ctrl, 0) THEN [b.vid EXCEPT !.vrint = TRUE] ELSE b.vid
  OBVIOUS
<1>3. \A e : vblank(Board4(e, b.vid, b.icnt, b.dcb)) = Board4(e, u, b.icnt, b.dcb)
  BY <1>2 DEF vblank, Board4
<1>4. vblank(b) = Board4(b.e, u, b.icnt, b.dcb) /\ vblank(d) = Board4(d.e, u, b.icnt, b.dcb)
  BY <1>1, <1>3
<1>. QED BY <1>4, BoardRest

-----------------------------------------------------------------------------
(* Machines: board, controller, memory *)

McFields == {"memadr", "size", "stride", "count", "mode", "gio", "go", "tlb", "ctl", "run", "cause", "irq", "regs", "ee"}

McRegs == {"cpuctrl0", "cpuctrl1", "memcfg0", "memcfg1", "giopar"}

\* The counters of a transfer are numbers.
McTyped(mc) ==
  /\ mc = [k \in McFields |-> mc[k]]
  /\ DOMAIN mc.regs = McRegs
  /\ mc.size \in [lines : Nat, width : Nat]
  /\ mc.stride \in [zoom : Nat, step : Int]
  /\ mc.count \in [zoom : Nat, bytes : Int]

Machine3(b, mc, mem) == [b |-> b, mc |-> mc, mem |-> mem]

TwinMachine(m, n) ==
  /\ m = Machine3(m.b, m.mc, m.mem)
  /\ n = Machine3(n.b, m.mc, m.mem)
  /\ TwinBoard(m.b, n.b)
  /\ McTyped(m.mc)

\* Twins g and h, left by a machine m, with the modes of its engine.
Moved(m, g, h) == TwinMachine(g, h) /\ g.b.e.m0 = m.b.e.m0 /\ g.b.e.m1 = m.b.e.m1

LEMMA MovedTwice ==
  ASSUME NEW m, NEW g, NEW h, NEW j, NEW k, Moved(m, g, h), Moved(g, j, k) PROVE Moved(m, j, k)
  BY DEF Moved

\* A machine after its board changed, and its memory.
LEMMA MachineBoard ==
  ASSUME NEW m, NEW n, TwinMachine(m, n), NEW b, NEW d, DrawnBoard(m.b, b, d), NEW mem
  PROVE  Moved(m, Machine3(b, m.mc, mem), Machine3(d, m.mc, mem))
  BY DEF Moved, TwinMachine, DrawnBoard, Machine3

LEMMA MachineMc ==
  ASSUME NEW m, NEW n, TwinMachine(m, n), NEW mc, McTyped(mc), NEW mem
  PROVE  Moved(m, Machine3(m.b, mc, mem), Machine3(n.b, mc, mem))
  BY DEF Moved, TwinMachine, DrawnBoard, Machine3

State3(m, adr, n) == [m |-> m, adr |-> adr, n |-> n]

\* Twins in the middle of a transfer that a machine m began.
Xfer(m, s, t) ==
  /\ s = State3(s.m, s.adr, s.n)
  /\ t = State3(t.m, s.adr, s.n)
  /\ s.n \in Int
  /\ Moved(m, s.m, t.m) /\ s.m.mc = m.mc

LEMMA FillIs ==
  ASSUME NEW mc, NEW mem, NEW adr
  PROVE  \E u : \A b : FillWord(Machine3(b, mc, mem), adr) = Machine3(b, mc, u)
<1>1. PICK pa : pa = dma_translate(mc, adr)
  OBVIOUS
<1>2. PICK u : u = [a \in pa .. pa + 3 |-> Byte(Shl(mc.gio, 32), a - pa)] @@ mem
  OBVIOUS
<1>3. ASSUME NEW b PROVE FillWord(Machine3(b, mc, mem), adr) = Machine3(b, mc, u)
  <2>1. PICK m : m = Machine3(b, mc, mem)
    OBVIOUS
  <2>2. m.mc = mc /\ m.mem = mem /\ m.b = b
    BY <2>1 DEF Machine3
  <2> DEFINE F(p, g, o) == [a \in p .. p + 3 |-> Byte(Shl(g, 32), a - p)] @@ o
  <2>3. FillWord(m, adr) = [m EXCEPT !.mem = F(dma_translate(m.mc, adr), m.mc.gio, m.mem)]
    BY Zenon DEF FillWord
  <2>4. u = F(pa, mc.gio, mem)
    BY <1>2, Zenon
  <2> HIDE DEF F
  <2>5. FillWord(m, adr) = [m EXCEPT !.mem = u]
    BY <1>1, <2>2, <2>3, <2>4
  <2>. QED BY <2>1, <2>5 DEF Machine3
<1>. QED BY <1>3

LEMMA HostWrites == ASSUME NEW v PROVE GoodWrite("host", v) /\ "host" \notin Modes
  BY DEF GoodWrite, Modes

LEMMA TwinToBoard ==
  ASSUME EngineOnGo, NEW m, NEW n, TwinMachine(m, n), Unmixed(m.b.e), NEW adr, NEW len
  PROVE  Moved(m, ToBoard(m, adr, len), ToBoard(n, adr, len)) /\ ToBoard(m, adr, len).mc = m.mc
<1>1. m = Machine3(m.b, m.mc, m.mem) /\ n = Machine3(n.b, m.mc, m.mem) /\ TwinBoard(m.b, n.b) /\ n.mc = m.mc /\ n.mem = m.mem
  BY DEF TwinMachine, Machine3
<1> DEFINE F(mc, mem) == UNION {Shl(mem[dma_translate(mc, Step(mc, adr, i))], 56 - 8 * i) : i \in 0 .. len - 1}
<1>2. PICK v : v = [mask |-> 0 .. 63, bits |-> F(m.mc, m.mem)]
  OBVIOUS
<1>3. \A p : ToBoard(p, adr, len) = [p EXCEPT !.b = rex3_w(@, "host", [mask |-> 0 .. 63, bits |-> F(p.mc, p.mem)], p.mc.go)]
  BY Zenon DEF ToBoard
<1> HIDE DEF F
<1>4. PICK b, d : b = rex3_w(m.b, "host", v, m.mc.go) /\ d = rex3_w(n.b, "host", v, m.mc.go)
  OBVIOUS
<1>5. DrawnBoard(m.b, b, d)
  BY <1>1, <1>4, HostWrites, BoardWrite
<1>6. ToBoard(m, adr, len) = [m EXCEPT !.b = b] /\ ToBoard(n, adr, len) = [n EXCEPT !.b = d]
  <2>1. [mask |-> 0 .. 63, bits |-> F(n.mc, n.mem)] = v /\ [mask |-> 0 .. 63, bits |-> F(m.mc, m.mem)] = v
    BY <1>1, <1>2
  <2>. QED BY <1>1, <1>3, <1>4, <2>1
<1>7. ToBoard(m, adr, len) = Machine3(b, m.mc, m.mem) /\ ToBoard(n, adr, len) = Machine3(d, m.mc, m.mem)
  BY <1>1, <1>6 DEF Machine3
<1>. QED BY <1>5, <1>7, MachineBoard DEF Machine3

LEMMA TwinFromBoard ==
  ASSUME EngineOnGo, NEW m, NEW n, TwinMachine(m, n), Unmixed(m.b.e), NEW adr, NEW len
  PROVE  Moved(m, FromBoard(m, adr, len), FromBoard(n, adr, len)) /\ FromBoard(m, adr, len).mc = m.mc
<1>1. m = Machine3(m.b, m.mc, m.mem) /\ n = Machine3(n.b, m.mc, m.mem) /\ TwinBoard(m.b, n.b) /\ n.mc = m.mc /\ n.mem = m.mem
  BY DEF TwinMachine, Machine3
<1> DEFINE pa(mc, i) == dma_translate(mc, Step(mc, adr, i))
           F(mc, mem, val) == [a \in {pa(mc, i) : i \in 0 .. len - 1} |-> Byte(val, CHOOSE i \in 0 .. len - 1 : pa(mc, i) = a)] @@ mem
<1>2. \A p : FromBoard(p, adr, len) = [p EXCEPT !.b = rex3_r(p.b, "host", p.mc.go).b,
                                                !.mem = F(p.mc, p.mem, rex3_r(p.b, "host", p.mc.go).val)]
  BY Zenon DEF FromBoard, Arrived
<1> HIDE DEF F
<1>3. PICK b, d, v : b = rex3_r(m.b, "host", m.mc.go).b /\ d = rex3_r(n.b, "host", m.mc.go).b /\ v = rex3_r(m.b, "host", m.mc.go).val
  OBVIOUS
<1>4. DrawnBoard(m.b, b, d) /\ rex3_r(n.b, "host", m.mc.go).val = v
  BY <1>1, <1>3, BoardRead
<1>5. PICK u : u = F(m.mc, m.mem, v)
  OBVIOUS
<1>6. FromBoard(m, adr, len) = [m EXCEPT !.b = b, !.mem = u] /\ FromBoard(n, adr, len) = [n EXCEPT !.b = d, !.mem = u]
  <2>1. FromBoard(m, adr, len) = [m EXCEPT !.b = b, !.mem = u]
    BY <1>2, <1>3, <1>5
  <2>2. FromBoard(n, adr, len) = [n EXCEPT !.b = rex3_r(n.b, "host", n.mc.go).b,
                                           !.mem = F(n.mc, n.mem, rex3_r(n.b, "host", n.mc.go).val)]
    BY <1>2
  <2>3. n.mc = m.mc /\ n.mem = m.mem
    BY <1>1
  <2>4. rex3_r(n.b, "host", n.mc.go).b = d /\ F(n.mc, n.mem, rex3_r(n.b, "host", n.mc.go).val) = u
    BY <1>3, <1>4, <1>5, <2>3
  <2>. QED BY <2>1, <2>2, <2>4
<1>7. FromBoard(m, adr, len) = Machine3(b, m.mc, u) /\ FromBoard(n, adr, len) = Machine3(d, m.mc, u)
  BY <1>1, <1>6 DEF Machine3
<1>. QED BY <1>4, <1>7, MachineBoard DEF Machine3

LEMMA TwinNextWord ==
  ASSUME EngineOnGo, NEW m, Unmixed(m.b.e), NEW s, NEW t, Xfer(m, s, t)
  PROVE  Xfer(m, NextWord(s), NextWord(t))
<1>1. TwinMachine(s.m, t.m) /\ s.m.mc = m.mc /\ t.m.mc = m.mc /\ t.adr = s.adr /\ t.n = s.n /\ s.n \in Int
      /\ t.m.mem = s.m.mem
  BY DEF Xfer, Moved, TwinMachine, Machine3, State3
<1>2. Unmixed(s.m.b.e)
  BY UnmixedKept DEF Xfer, Moved
<1>3. PICK len \in Int : len = IF m.mc.mode.to_host /\ m.mc.mode.fill THEN 4 ELSE Chunk(s.n)
  BY <1>1 DEF Chunk
<1> DEFINE D(p) == IF m.mc.mode.to_host /\ m.mc.mode.fill THEN FillWord(p, s.adr)
                   ELSE IF m.mc.mode.to_host THEN FromBoard(p, s.adr, len) ELSE ToBoard(p, s.adr, len)
<1>4. NextWord(s) = State3(D(s.m), Step(m.mc, s.adr, len), s.n - len)
      /\ NextWord(t) = State3(D(t.m), Step(m.mc, s.adr, len), s.n - len)
  <2> DEFINE L(p) == IF p.m.mc.mode.to_host /\ p.m.mc.mode.fill THEN 4 ELSE Chunk(p.n)
             E(p, k) == IF p.m.mc.mode.to_host /\ p.m.mc.mode.fill THEN FillWord(p.m, p.adr)
                        ELSE IF p.m.mc.mode.to_host THEN FromBoard(p.m, p.adr, k) ELSE ToBoard(p.m, p.adr, k)
  <2>1. \A p : NextWord(p) = [m |-> E(p, L(p)), adr |-> Step(p.m.mc, p.adr, L(p)), n |-> p.n - L(p)]
    BY Zenon DEF NextWord
  <2>2. L(s) = len /\ L(t) = len
    BY <1>1, <1>3
  <2>3. E(s, len) = D(s.m) /\ E(t, len) = D(t.m)
    BY <1>1
  <2> HIDE DEF L, D, E
  <2>. QED BY <1>1, <2>1, <2>2, <2>3 DEF State3
<1>5. Moved(s.m, D(s.m), D(t.m)) /\ D(s.m).mc = m.mc
  <2>1. CASE m.mc.mode.to_host /\ m.mc.mode.fill
    <3>1. PICK u : \A b : FillWord(Machine3(b, m.mc, s.m.mem), s.adr) = Machine3(b, m.mc, u)
      BY FillIs
    <3>2. s.m = Machine3(s.m.b, m.mc, s.m.mem) /\ t.m = Machine3(t.m.b, m.mc, s.m.mem)
      BY <1>1 DEF TwinMachine
    <3>3. D(s.m) = Machine3(s.m.b, m.mc, u) /\ D(t.m) = Machine3(t.m.b, m.mc, u)
      BY <2>1, <3>1, <3>2
    <3>4. Moved(s.m, Machine3(s.m.b, m.mc, u), Machine3(t.m.b, m.mc, u))
      <4>1. McTyped(m.mc)
        BY <1>1 DEF TwinMachine
      <4>. QED BY <1>1, <4>1, MachineMc
    <3> HIDE DEF D
    <3>. QED BY <3>3, <3>4 DEF Machine3
  <2>2. CASE m.mc.mode.to_host /\ ~m.mc.mode.fill
    <3>1. D(s.m) = FromBoard(s.m, s.adr, len) /\ D(t.m) = FromBoard(t.m, s.adr, len)
      BY <2>2
    <3> HIDE DEF D
    <3>. QED BY <1>1, <1>2, <3>1, TwinFromBoard
  <2>3. CASE ~m.mc.mode.to_host
    <3>1. D(s.m) = ToBoard(s.m, s.adr, len) /\ D(t.m) = ToBoard(t.m, s.adr, len)
      BY <2>3
    <3> HIDE DEF D
    <3>. QED BY <1>1, <1>2, <3>1, TwinToBoard
  <2>. QED BY <2>1, <2>2, <2>3
<1> HIDE DEF D
<1>6. Moved(m, D(s.m), D(t.m))
  BY <1>5, MovedTwice DEF Xfer
<1>. QED BY <1>1, <1>4, <1>5, <1>6 DEF Xfer, State3

\* the words of a line
LineNext(s0, k, s) == IF s.n > 0 THEN NextWord(s) ELSE s

LineRun(s0, n, at) == at = [k \in 0 .. n |-> IF k = 0 THEN s0 ELSE LineNext(s0, k, at[k - 1])]

LEMMA LineRunExists == ASSUME NEW s0, NEW n \in Nat PROVE \E at : LineRun(s0, n, at)
<1> DEFINE U == {m \in Nat : \E at : LineRun(s0, m, at)}
<1>1. 0 \in U
  <2> DEFINE at == [k \in 0 .. 0 |-> s0]
  <2>1. LineRun(s0, 0, at)
    BY DEF LineRun
  <2>. QED BY <2>1
<1>2. ASSUME NEW m \in Nat, m \in U PROVE m + 1 \in U
  <2>1. PICK g : LineRun(s0, m, g)
    BY <1>2
  <2> DEFINE at == [k \in 0 .. m + 1 |-> IF k = 0 THEN s0
                                      ELSE IF k = m + 1 THEN LineNext(s0, k, g[m]) ELSE g[k]]
  <2>2. \A k \in 0 .. m : g[k] = IF k = 0 THEN s0 ELSE LineNext(s0, k, g[k - 1])
    BY <2>1 DEF LineRun
  <2>3. ASSUME NEW k \in 0 .. m + 1 PROVE at[k] = IF k = 0 THEN s0 ELSE LineNext(s0, k, at[k - 1])
    <3>1. k # 0 => k - 1 \in 0 .. m /\ at[k - 1] = g[k - 1]
      <4>1. 0 \in 0 .. m => g[0] = s0
        BY <2>2
      <4> DEFINE A == s0
      <4> HIDE DEF A
      <4>. QED BY <4>1
    <3>. QED BY <2>2, <3>1
  <2>4. at = [k \in 0 .. m + 1 |-> IF k = 0 THEN s0 ELSE LineNext(s0, k, at[k - 1])]
    <3>1. at = [k \in 0 .. m + 1 |-> at[k]]
      OBVIOUS
    <3> HIDE DEF at
    <3>. QED BY <2>3, <3>1
  <2>5. LineRun(s0, m + 1, at)
    BY <2>4 DEF LineRun
  <2> HIDE DEF at
  <2>. QED BY <2>5
<1>3. \A m \in Nat : m \in U
  <2> HIDE DEF U
  <2>. QED BY <1>1, <1>2, FromZero
<1>. QED BY <1>3

LineTurned(s0, n, at) ==
  /\ n >= 0 => at[0] = s0
  /\ \A k \in 0 .. n - 1 : at[k + 1] = LineNext(s0, k + 1, at[k])

LEMMA LineTurns ==
  ASSUME NEW s0, NEW n \in Nat, NEW at, LineRun(s0, n, at)
  PROVE  LineTurned(s0, n, at)
<1>1. \A k \in 0 .. n : at[k] = IF k = 0 THEN s0 ELSE LineNext(s0, k, at[k - 1])
  BY DEF LineRun
<1>2. ASSUME NEW k \in 0 .. n - 1 PROVE at[k + 1] = LineNext(s0, k + 1, at[k])
  <2>1. k + 1 \in 0 .. n /\ k + 1 # 0 /\ (k + 1) - 1 = k
    OBVIOUS
  <2>. QED BY <1>1, <2>1
<1>3. n >= 0 => at[0] = s0
  BY <1>1
<1>. QED BY <1>2, <1>3 DEF LineTurned

LEMMA LineIs ==
  ASSUME NEW s0, s0.n \in Nat, s0.n > 0
  PROVE  \E at : LineRun(s0, s0.n, at) /\ LineBytes(s0) = at[s0.n]
<1> DEFINE a == CHOOSE a : LineRun(s0, s0.n, a)
<1>1. s0.n \in Nat
  BY SizeAssumption
<1>2. LineRun(s0, s0.n, a)
  BY <1>1, LineRunExists
<1>3. LineBytes(s0) = a[s0.n]
  BY DEF LineBytes, LineRun, LineNext
<1> HIDE DEF a
<1>. QED BY <1>2, <1>3

\* a line's repeats
RepeatNext(s0, zoom, k, s) == LET r == LineBytes(s)
  IN  [r EXCEPT !.adr = IF k < zoom THEN Step(r.m.mc, @, -s0.m.mc.size.width) ELSE @, !.n = s0.m.mc.size.width]

RepeatRun(s0, zoom, n, at) == at = [k \in 0 .. n |-> IF k = 0 THEN s0 ELSE RepeatNext(s0, zoom, k, at[k - 1])]

LEMMA RepeatRunExists == ASSUME NEW s0, NEW zoom, NEW n \in Nat PROVE \E at : RepeatRun(s0, zoom, n, at)
<1> DEFINE U == {m \in Nat : \E at : RepeatRun(s0, zoom, m, at)}
<1>1. 0 \in U
  <2> DEFINE at == [k \in 0 .. 0 |-> s0]
  <2>1. RepeatRun(s0, zoom, 0, at)
    BY DEF RepeatRun
  <2>. QED BY <2>1
<1>2. ASSUME NEW m \in Nat, m \in U PROVE m + 1 \in U
  <2>1. PICK g : RepeatRun(s0, zoom, m, g)
    BY <1>2
  <2> DEFINE at == [k \in 0 .. m + 1 |-> IF k = 0 THEN s0
                                      ELSE IF k = m + 1 THEN RepeatNext(s0, zoom, k, g[m]) ELSE g[k]]
  <2>2. \A k \in 0 .. m : g[k] = IF k = 0 THEN s0 ELSE RepeatNext(s0, zoom, k, g[k - 1])
    BY <2>1 DEF RepeatRun
  <2>3. ASSUME NEW k \in 0 .. m + 1 PROVE at[k] = IF k = 0 THEN s0 ELSE RepeatNext(s0, zoom, k, at[k - 1])
    <3>1. k # 0 => k - 1 \in 0 .. m /\ at[k - 1] = g[k - 1]
      <4>1. 0 \in 0 .. m => g[0] = s0
        BY <2>2
      <4> DEFINE A == s0
      <4> HIDE DEF A
      <4>. QED BY <4>1
    <3>. QED BY <2>2, <3>1
  <2>4. at = [k \in 0 .. m + 1 |-> IF k = 0 THEN s0 ELSE RepeatNext(s0, zoom, k, at[k - 1])]
    <3>1. at = [k \in 0 .. m + 1 |-> at[k]]
      OBVIOUS
    <3> HIDE DEF at
    <3>. QED BY <2>3, <3>1
  <2>5. RepeatRun(s0, zoom, m + 1, at)
    BY <2>4 DEF RepeatRun
  <2> HIDE DEF at
  <2>. QED BY <2>5
<1>3. \A m \in Nat : m \in U
  <2> HIDE DEF U
  <2>. QED BY <1>1, <1>2, FromZero
<1>. QED BY <1>3

RepeatTurned(s0, zoom, n, at) ==
  /\ n >= 0 => at[0] = s0
  /\ \A k \in 0 .. n - 1 : at[k + 1] = RepeatNext(s0, zoom, k + 1, at[k])

LEMMA RepeatTurns ==
  ASSUME NEW s0, NEW zoom, NEW n \in Nat, NEW at, RepeatRun(s0, zoom, n, at)
  PROVE  RepeatTurned(s0, zoom, n, at)
<1>1. \A k \in 0 .. n : at[k] = IF k = 0 THEN s0 ELSE RepeatNext(s0, zoom, k, at[k - 1])
  BY DEF RepeatRun
<1>2. ASSUME NEW k \in 0 .. n - 1 PROVE at[k + 1] = RepeatNext(s0, zoom, k + 1, at[k])
  <2>1. k + 1 \in 0 .. n /\ k + 1 # 0 /\ (k + 1) - 1 = k
    OBVIOUS
  <2>. QED BY <1>1, <2>1
<1>3. n >= 0 => at[0] = s0
  BY <1>1
<1>. QED BY <1>2, <1>3 DEF RepeatTurned

LEMMA RepeatIs ==
  ASSUME NEW s0, NEW zoom, zoom \in Nat
  PROVE  \E at : RepeatRun(s0, zoom, zoom, at) /\ Repeats(s0, zoom) = at[zoom]
<1> DEFINE a == CHOOSE a : RepeatRun(s0, zoom, zoom, a)
<1>1. zoom \in Nat
  BY SizeAssumption
<1>2. RepeatRun(s0, zoom, zoom, a)
  BY <1>1, RepeatRunExists
<1>3. Repeats(s0, zoom) = a[zoom]
  BY DEF Repeats, Rewound, RepeatRun, RepeatNext
<1> HIDE DEF a
<1>. QED BY <1>2, <1>3

\* the lines of a transfer
LinesNext(s0, lines, zoom, k, s) == LET r == Repeats(s, IF k = 1 THEN zoom ELSE s0.m.mc.stride.zoom)
  IN  [r EXCEPT !.adr = @ + s0.m.mc.stride.step]

LinesRun(s0, lines, zoom, n, at) == at = [k \in 0 .. n |-> IF k = 0 THEN s0 ELSE LinesNext(s0, lines, zoom, k, at[k - 1])]

LEMMA LinesRunExists == ASSUME NEW s0, NEW lines, NEW zoom, NEW n \in Nat PROVE \E at : LinesRun(s0, lines, zoom, n, at)
<1> DEFINE U == {m \in Nat : \E at : LinesRun(s0, lines, zoom, m, at)}
<1>1. 0 \in U
  <2> DEFINE at == [k \in 0 .. 0 |-> s0]
  <2>1. LinesRun(s0, lines, zoom, 0, at)
    BY DEF LinesRun
  <2>. QED BY <2>1
<1>2. ASSUME NEW m \in Nat, m \in U PROVE m + 1 \in U
  <2>1. PICK g : LinesRun(s0, lines, zoom, m, g)
    BY <1>2
  <2> DEFINE at == [k \in 0 .. m + 1 |-> IF k = 0 THEN s0
                                      ELSE IF k = m + 1 THEN LinesNext(s0, lines, zoom, k, g[m]) ELSE g[k]]
  <2>2. \A k \in 0 .. m : g[k] = IF k = 0 THEN s0 ELSE LinesNext(s0, lines, zoom, k, g[k - 1])
    BY <2>1 DEF LinesRun
  <2>3. ASSUME NEW k \in 0 .. m + 1 PROVE at[k] = IF k = 0 THEN s0 ELSE LinesNext(s0, lines, zoom, k, at[k - 1])
    <3>1. k # 0 => k - 1 \in 0 .. m /\ at[k - 1] = g[k - 1]
      <4>1. 0 \in 0 .. m => g[0] = s0
        BY <2>2
      <4> DEFINE A == s0
      <4> HIDE DEF A
      <4>. QED BY <4>1
    <3>. QED BY <2>2, <3>1
  <2>4. at = [k \in 0 .. m + 1 |-> IF k = 0 THEN s0 ELSE LinesNext(s0, lines, zoom, k, at[k - 1])]
    <3>1. at = [k \in 0 .. m + 1 |-> at[k]]
      OBVIOUS
    <3> HIDE DEF at
    <3>. QED BY <2>3, <3>1
  <2>5. LinesRun(s0, lines, zoom, m + 1, at)
    BY <2>4 DEF LinesRun
  <2> HIDE DEF at
  <2>. QED BY <2>5
<1>3. \A m \in Nat : m \in U
  <2> HIDE DEF U
  <2>. QED BY <1>1, <1>2, FromZero
<1>. QED BY <1>3

LinesTurned(s0, lines, zoom, n, at) ==
  /\ n >= 0 => at[0] = s0
  /\ \A k \in 0 .. n - 1 : at[k + 1] = LinesNext(s0, lines, zoom, k + 1, at[k])

LEMMA LinesTurns ==
  ASSUME NEW s0, NEW lines, NEW zoom, NEW n \in Nat, NEW at, LinesRun(s0, lines, zoom, n, at)
  PROVE  LinesTurned(s0, lines, zoom, n, at)
<1>1. \A k \in 0 .. n : at[k] = IF k = 0 THEN s0 ELSE LinesNext(s0, lines, zoom, k, at[k - 1])
  BY DEF LinesRun
<1>2. ASSUME NEW k \in 0 .. n - 1 PROVE at[k + 1] = LinesNext(s0, lines, zoom, k + 1, at[k])
  <2>1. k + 1 \in 0 .. n /\ k + 1 # 0 /\ (k + 1) - 1 = k
    OBVIOUS
  <2>. QED BY <1>1, <2>1
<1>3. n >= 0 => at[0] = s0
  BY <1>1
<1>. QED BY <1>2, <1>3 DEF LinesTurned

LEMMA LinesIs ==
  ASSUME NEW s0, NEW lines, NEW zoom, lines \in Nat
  PROVE  \E at : LinesRun(s0, lines, zoom, lines, at) /\ DmaLines(s0, lines, zoom) = at[lines]
<1> DEFINE a == CHOOSE a : LinesRun(s0, lines, zoom, lines, a)
<1>1. lines \in Nat
  BY SizeAssumption
<1>2. LinesRun(s0, lines, zoom, lines, a)
  BY <1>1, LinesRunExists
<1>3. DmaLines(s0, lines, zoom) = a[lines]
  BY DEF DmaLines, LinesRun, LinesNext
<1> HIDE DEF a
<1>. QED BY <1>2, <1>3
LEMMA TwinLineBytes ==
  ASSUME EngineOnGo, NEW m, Unmixed(m.b.e), NEW s, NEW t, Xfer(m, s, t)
  PROVE  Xfer(m, LineBytes(s), LineBytes(t))
<1>1. s.n \in Int /\ t.n = s.n
  BY DEF Xfer, State3
<1>2. CASE ~(s.n > 0)
  BY <1>1, <1>2 DEF LineBytes
<1>3. CASE s.n > 0
  <2>1. PICK n \in Nat : n = s.n /\ n > 0
    BY <1>1, <1>3
  <2>2. PICK at : LineRun(s, n, at) /\ LineBytes(s) = at[n]
    BY <2>1, LineIs
  <2>3. PICK bt : LineRun(t, n, bt) /\ LineBytes(t) = bt[n]
    <3>1. t.n \in Nat /\ t.n > 0 /\ t.n = n
      BY <1>1, <2>1
    <3>. QED BY <3>1, LineIs
  <2>4. LineTurned(s, n, at) /\ LineTurned(t, n, bt)
    BY <2>2, <2>3, LineTurns
  <2>5. at[0] = s /\ bt[0] = t
    BY <2>1, <2>4 DEF LineTurned
  <2> DEFINE U == {k \in 0 .. n : Xfer(m, at[k], bt[k])}
  <2>6. 0 \in U
    BY <2>5
  <2>7. ASSUME NEW k \in 0 .. n - 1, k \in U PROVE k + 1 \in U
    <3>1. PICK a, b : a = at[k] /\ b = bt[k]
      OBVIOUS
    <3>2. Xfer(m, a, b)
      BY <2>7, <3>1
    <3>3. Xfer(m, NextWord(a), NextWord(b))
      BY <3>2, TwinNextWord
    <3>4. at[k + 1] = IF a.n > 0 THEN NextWord(a) ELSE a
      BY <2>4, <3>1 DEF LineTurned, LineNext
    <3>5. bt[k + 1] = IF b.n > 0 THEN NextWord(b) ELSE b
      BY <2>4, <3>1 DEF LineTurned, LineNext
    <3>6. b.n = a.n
      BY <3>2 DEF Xfer, State3
    <3>7. Xfer(m, at[k + 1], bt[k + 1])
      BY <3>2, <3>3, <3>4, <3>5, <3>6
    <3>. QED BY <3>7
  <2>8. \A k \in 0 .. n : k \in U
    <3> HIDE DEF U
    <3>. QED BY <2>6, <2>7, UpTo
  <2>. QED BY <2>2, <2>3, <2>8
<1>. QED BY <1>1, <1>2, <1>3

\* A transfer's address and count may be set at will between its words.
LEMMA StateAdr ==
  ASSUME NEW x, NEW y, NEW z, NEW adr, NEW s, s = State3(x, y, z), NEW u, u = [s EXCEPT !.adr = adr]
  PROVE  u = State3(x, adr, z)
BY DEF State3

LEMMA StateN ==
  ASSUME NEW x, NEW y, NEW z, NEW k, NEW s, s = State3(x, y, z), NEW u, u = [s EXCEPT !.n = k]
  PROVE  u = State3(x, y, k)
BY DEF State3

LEMMA XferAdr ==
  ASSUME NEW m, NEW s, NEW t, Xfer(m, s, t), NEW adr,
         NEW u, u = [s EXCEPT !.adr = adr], NEW w, w = [t EXCEPT !.adr = adr]
  PROVE  Xfer(m, u, w)
<1>1. PICK x, y, z, o : x = s.m /\ y = s.adr /\ z = s.n /\ o = t.m
  OBVIOUS
<1>2. s = State3(x, y, z) /\ t = State3(o, y, z) /\ z \in Int /\ Moved(m, x, o) /\ x.mc = m.mc
  BY <1>1 DEF Xfer
<1>3. u = State3(x, adr, z) /\ w = State3(o, adr, z)
  BY <1>2, StateAdr
<1>. QED BY <1>2, <1>3 DEF Xfer, State3

LEMMA XferN ==
  ASSUME NEW m, NEW s, NEW t, Xfer(m, s, t), NEW k \in Int,
         NEW u, u = [s EXCEPT !.n = k], NEW w, w = [t EXCEPT !.n = k]
  PROVE  Xfer(m, u, w)
<1>1. PICK x, y, z, o : x = s.m /\ y = s.adr /\ z = s.n /\ o = t.m
  OBVIOUS
<1>2. s = State3(x, y, z) /\ t = State3(o, y, z) /\ z \in Int /\ Moved(m, x, o) /\ x.mc = m.mc
  BY <1>1 DEF Xfer
<1>3. u = State3(x, y, k) /\ w = State3(o, y, k)
  BY <1>2, StateN
<1>. QED BY <1>2, <1>3 DEF Xfer, State3

LEMMA XferView ==
  ASSUME NEW m, NEW s, NEW t, Xfer(m, s, t)
  PROVE  s.m.mc = m.mc /\ t.m.mc = m.mc /\ t.adr = s.adr /\ t.n = s.n /\ McTyped(m.mc)
  BY DEF Xfer, Moved, TwinMachine, Machine3, State3

LEMMA TwinRepeats ==
  ASSUME EngineOnGo, NEW m, Unmixed(m.b.e), NEW s, NEW t, Xfer(m, s, t), NEW zoom \in Nat
  PROVE  Xfer(m, Repeats(s, zoom), Repeats(t, zoom))
<1>1. PICK at : RepeatRun(s, zoom, zoom, at) /\ Repeats(s, zoom) = at[zoom]
  BY RepeatIs
<1>2. PICK bt : RepeatRun(t, zoom, zoom, bt) /\ Repeats(t, zoom) = bt[zoom]
  BY RepeatIs
<1>3. RepeatTurned(s, zoom, zoom, at) /\ RepeatTurned(t, zoom, zoom, bt)
  BY <1>1, <1>2, RepeatTurns
<1>4. PICK w \in Nat : w = m.mc.size.width
  BY XferView DEF McTyped
<1>5. s.m.mc.size.width = w /\ t.m.mc.size.width = w
  BY <1>4, XferView
<1> DEFINE U == {k \in 0 .. zoom : Xfer(m, at[k], bt[k])}
<1>6. 0 \in U
  BY <1>3 DEF RepeatTurned
<1>7. ASSUME NEW k \in 0 .. zoom - 1, k \in U PROVE k + 1 \in U
  <2>1. PICK a, b : a = LineBytes(at[k]) /\ b = LineBytes(bt[k])
    OBVIOUS
  <2>2. Xfer(m, a, b)
    BY <1>7, <2>1, TwinLineBytes
  <2>3. a.m.mc = m.mc /\ b.m.mc = m.mc /\ b.adr = a.adr
    BY <2>2, XferView
  <2>4. PICK d : d = IF k + 1 < zoom THEN Step(m.mc, a.adr, -w) ELSE a.adr
    OBVIOUS
  <2>5. at[k + 1] = [a EXCEPT !.adr = IF k + 1 < zoom THEN Step(a.m.mc, @, -s.m.mc.size.width) ELSE @, !.n = s.m.mc.size.width]
    BY <1>3, <2>1 DEF RepeatTurned, RepeatNext
  <2>6. bt[k + 1] = [b EXCEPT !.adr = IF k + 1 < zoom THEN Step(b.m.mc, @, -t.m.mc.size.width) ELSE @, !.n = t.m.mc.size.width]
    BY <1>3, <2>1 DEF RepeatTurned, RepeatNext
  <2>7. at[k + 1] = [a EXCEPT !.adr = d, !.n = w] /\ bt[k + 1] = [b EXCEPT !.adr = d, !.n = w]
    BY <1>5, <2>3, <2>4, <2>5, <2>6
  <2>8. Xfer(m, at[k + 1], bt[k + 1])
    <3>1. PICK u, v : u = [a EXCEPT !.adr = d] /\ v = [b EXCEPT !.adr = d]
      OBVIOUS
    <3>2. PICK x, y : x = [u EXCEPT !.n = w] /\ y = [v EXCEPT !.n = w]
      OBVIOUS
    <3>3. at[k + 1] = x /\ bt[k + 1] = y
      BY <2>7, <3>1, <3>2
    <3>4. Xfer(m, u, v)
      BY <2>2, <3>1, XferAdr
    <3>5. w \in Int
      OBVIOUS
    <3>6. Xfer(m, x, y)
      BY <3>2, <3>4, <3>5, XferN
    <3>. QED BY <3>3, <3>6
  <2>. QED BY <2>8
<1>8. \A k \in 0 .. zoom : k \in U
  <2> HIDE DEF U
  <2>. QED BY <1>6, <1>7, UpTo
<1>. QED BY <1>1, <1>2, <1>8

LEMMA TwinLines ==
  ASSUME EngineOnGo, NEW m, Unmixed(m.b.e), NEW s, NEW t, Xfer(m, s, t), NEW lines \in Nat, NEW zoom \in Nat
  PROVE  Xfer(m, DmaLines(s, lines, zoom), DmaLines(t, lines, zoom))
<1>1. PICK at : LinesRun(s, lines, zoom, lines, at) /\ DmaLines(s, lines, zoom) = at[lines]
  BY LinesIs
<1>2. PICK bt : LinesRun(t, lines, zoom, lines, bt) /\ DmaLines(t, lines, zoom) = bt[lines]
  BY LinesIs
<1>3. LinesTurned(s, lines, zoom, lines, at) /\ LinesTurned(t, lines, zoom, lines, bt)
  BY <1>1, <1>2, LinesTurns
<1>4. PICK z \in Nat, p \in Int : z = m.mc.stride.zoom /\ p = m.mc.stride.step
  BY XferView DEF McTyped
<1>5. s.m.mc.stride.zoom = z /\ t.m.mc.stride.zoom = z /\ s.m.mc.stride.step = p /\ t.m.mc.stride.step = p
  BY <1>4, XferView
<1> DEFINE U == {k \in 0 .. lines : Xfer(m, at[k], bt[k])}
<1>6. 0 \in U
  BY <1>3 DEF LinesTurned
<1>7. ASSUME NEW k \in 0 .. lines - 1, k \in U PROVE k + 1 \in U
  <2>1. PICK y \in Nat : y = IF k + 1 = 1 THEN zoom ELSE z
    OBVIOUS
  <2>2. PICK a, b : a = Repeats(at[k], y) /\ b = Repeats(bt[k], y)
    OBVIOUS
  <2>3. Xfer(m, a, b)
    BY <1>7, <2>2, TwinRepeats
  <2>4. b.adr = a.adr
    BY <2>3, XferView
  <2>5. PICK d : d = a.adr + p
    OBVIOUS
  <2>6. at[k + 1] = [a EXCEPT !.adr = @ + p]
    BY <1>3, <1>5, <2>1, <2>2 DEF LinesTurned, LinesNext
  <2>7. bt[k + 1] = [b EXCEPT !.adr = @ + p]
    BY <1>3, <1>5, <2>1, <2>2 DEF LinesTurned, LinesNext
  <2>8. at[k + 1] = [a EXCEPT !.adr = d] /\ bt[k + 1] = [b EXCEPT !.adr = d]
    BY <2>4, <2>5, <2>6, <2>7
  <2>9. Xfer(m, at[k + 1], bt[k + 1])
    <3>1. PICK u, v : u = at[k + 1] /\ v = bt[k + 1]
      OBVIOUS
    <3>2. u = [a EXCEPT !.adr = d] /\ v = [b EXCEPT !.adr = d]
      BY <2>8, <3>1
    <3>3. Xfer(m, u, v)
      BY <2>3, <3>2, XferAdr
    <3>. QED BY <3>1, <3>3
  <2>. QED BY <2>9
<1>8. \A k \in 0 .. lines : k \in U
  <2> HIDE DEF U
  <2>. QED BY <1>6, <1>7, UpTo
<1>. QED BY <1>1, <1>2, <1>8

\* What a transfer leaves in the controller.
LEMMA McDone ==
  ASSUME NEW mc, McTyped(mc), NEW adr, NEW raise
  PROVE  McTyped([mc EXCEPT !.memadr = adr, !.size.lines = 0, !.count = [zoom |-> 0, bytes |-> 0],
                            !.run = TRUE, !.cause = @ \/ raise, !.irq = @ \/ raise])
<1>1. PICK c : c = [mc EXCEPT !.memadr = adr, !.size.lines = 0, !.count = [zoom |-> 0, bytes |-> 0],
                              !.run = TRUE, !.cause = @ \/ raise, !.irq = @ \/ raise]
  OBVIOUS
<1>2. c = [k \in McFields |-> c[k]]
  BY <1>1 DEF McTyped
<1>3. c.size = [mc.size EXCEPT !.lines = 0] /\ c.stride = mc.stride /\ c.count = [zoom |-> 0, bytes |-> 0]
      /\ c.regs = mc.regs
  BY <1>1 DEF McTyped, McFields
<1>4. c.size \in [lines : Nat, width : Nat] /\ c.stride \in [zoom : Nat, step : Int] /\ c.count \in [zoom : Nat, bytes : Int]
  BY <1>3 DEF McTyped
<1>5. DOMAIN c.regs = McRegs
  BY <1>3 DEF McTyped
<1>6. McTyped(c)
  BY <1>2, <1>4, <1>5 DEF McTyped
<1>. QED BY <1>1, <1>6

LEMMA TwinPerform ==
  ASSUME EngineOnGo, NEW m, NEW n, TwinMachine(m, n), Unmixed(m.b.e)
  PROVE  Moved(m, dma_perform(m), dma_perform(n))
<1>1. n.mc = m.mc /\ McTyped(m.mc) /\ Moved(m, m, n)
  BY DEF TwinMachine, Machine3, Moved
<1>2. PICK lines, zoom \in Nat, bytes \in Int : lines = m.mc.size.lines /\ zoom = m.mc.count.zoom /\ bytes = m.mc.count.bytes
  BY <1>1 DEF McTyped
<1>3. lines \in Nat
  BY <1>1, <1>2 DEF McTyped
<1>4. PICK s, t : s = State3(m, m.mc.memadr, bytes) /\ t = State3(n, m.mc.memadr, bytes)
  OBVIOUS
<1>5. Xfer(m, s, t)
  BY <1>1, <1>4 DEF Xfer, State3
<1>6. PICK r, q : r = DmaLines(s, lines, zoom) /\ q = DmaLines(t, lines, zoom)
  OBVIOUS
<1>7. Xfer(m, r, q)
  BY <1>3, <1>5, <1>6, TwinLines
<1>8. r.m.mc = m.mc /\ q.m.mc = m.mc /\ q.adr = r.adr /\ Moved(m, r.m, q.m) /\ TwinMachine(r.m, q.m)
  BY <1>7, XferView DEF Xfer, Moved
<1> DEFINE C(mc, adr, raise) == [mc EXCEPT !.memadr = adr, !.size.lines = 0, !.count = [zoom |-> 0, bytes |-> 0],
                                           !.run = TRUE, !.cause = @ \/ raise, !.irq = @ \/ raise]
           D(p) == DmaLines([m |-> p, adr |-> p.mc.memadr, n |-> p.mc.count.bytes], p.mc.size.lines, p.mc.count.zoom)
<1>9. \A p : dma_perform(p) = [D(p).m EXCEPT !.mc = C(D(p).m.mc, D(p).adr, p.mc.ctl)]
  <2>1. ASSUME NEW p PROVE dma_perform(p) = [D(p).m EXCEPT !.mc = C(D(p).m.mc, D(p).adr, p.mc.ctl)]
    BY DEF dma_perform, Transferred
  <2> HIDE DEF C, D
  <2>. QED BY <2>1
<1>10. D(m) = r /\ D(n) = q
  BY <1>1, <1>2, <1>4, <1>6 DEF State3
<1>11. PICK c : c = C(m.mc, r.adr, m.mc.ctl)
  OBVIOUS
<1>12. McTyped(c)
  BY <1>1, <1>11, McDone
<1> HIDE DEF C, D
<1>13. dma_perform(m) = [r.m EXCEPT !.mc = c] /\ dma_perform(n) = [q.m EXCEPT !.mc = c]
  BY <1>1, <1>8, <1>9, <1>10, <1>11
<1>14. PICK x, y : x = r.m /\ y = q.m
  OBVIOUS
<1>15. x = Machine3(x.b, x.mc, x.mem) /\ y = Machine3(y.b, x.mc, x.mem) /\ TwinMachine(x, y)
  BY <1>8, <1>14 DEF TwinMachine
<1>16. [x EXCEPT !.mc = c] = Machine3(x.b, c, x.mem) /\ [y EXCEPT !.mc = c] = Machine3(y.b, c, x.mem)
  BY <1>15 DEF Machine3
<1>17. Moved(x, Machine3(x.b, c, x.mem), Machine3(y.b, c, x.mem))
  BY <1>12, <1>15, MachineMc
<1>. QED BY <1>8, <1>13, <1>14, <1>16, <1>17, MovedTwice

\* The controller after a register write that starts nothing.
McSet(mc, reg, v) ==
  CASE reg \in McRegs -> [mc EXCEPT !.regs[reg] = v]
    [] reg = "eeprom" -> IF v.selected THEN [mc EXCEPT !.ee = EepromClock(@, v.bit)] ELSE mc
    [] reg = "tlb" -> [mc EXCEPT !.tlb = v]
    [] reg = "dma_cause" -> [mc EXCEPT !.cause = v, !.irq = @ /\ v]
    [] reg = "dma_ctl" -> [mc EXCEPT !.ctl = v]
    [] reg = "dma_memadr" -> [mc EXCEPT !.memadr = v]
    [] reg = "dma_size" -> [mc EXCEPT !.size = v, !.count.bytes = v.width]
    [] reg = "dma_stride" -> [mc EXCEPT !.stride = v, !.count.zoom = v.zoom]
    [] reg \in {"dma_gio_adr", "dma_gio_start"} -> [mc EXCEPT !.gio = v.adr, !.go = v.go]
    [] reg = "dma_mode" -> [mc EXCEPT !.mode = v]
    [] reg = "dma_count" -> [mc EXCEPT !.count = v]
    [] OTHER -> mc

LEMMA McSetTyped ==
  ASSUME NEW mc, McTyped(mc), NEW reg, NEW v, GoodMc(reg, v) PROVE McTyped(McSet(mc, reg, v))
<1>1. PICK c : c = McSet(mc, reg, v)
  OBVIOUS
<1>2. c = [k \in McFields |-> c[k]]
  <2>1. \A k, u : [mc EXCEPT ![k] = u] = [j \in McFields |-> [mc EXCEPT ![k] = u][j]]
    BY DEF McTyped
  <2>2. \A j, k, u, w : [mc EXCEPT ![j] = u, ![k] = w] = [i \in McFields |-> [mc EXCEPT ![j] = u, ![k] = w][i]]
    BY DEF McTyped
  <2>3. mc = [k \in McFields |-> mc[k]]
    BY DEF McTyped
  <2>4. \/ c = mc
        \/ \E k, u : c = [mc EXCEPT ![k] = u]
        \/ \E j, k, u, w : c = [mc EXCEPT ![j] = u, ![k] = w]
    <3>1. CASE reg \in McRegs
      <4>1. c = [mc EXCEPT !["regs"] = [mc.regs EXCEPT ![reg] = v]]
        BY <1>1, <3>1 DEF McSet, McRegs
      <4>. QED BY <4>1
    <3>2. CASE reg = "eeprom"
      <4>1. c = mc \/ c = [mc EXCEPT !["ee"] = EepromClock(mc.ee, v.bit)]
        BY <1>1, <3>2 DEF McSet, McRegs
      <4>. QED BY <4>1
    <3>3. CASE reg = "dma_cause"
      <4>1. PICK w : w = (mc.irq /\ v)
        OBVIOUS
      <4>2. c = [mc EXCEPT !["cause"] = v, !["irq"] = w]
        BY <1>1, <3>3, <4>1 DEF McSet, McRegs
      <4>. QED BY <4>2
    <3>4. CASE reg = "dma_size"
      <4>1. c = [mc EXCEPT !["size"] = v, !["count"] = [mc.count EXCEPT !.bytes = v.width]]
        BY <1>1, <3>4 DEF McSet, McRegs, McTyped, McFields
      <4>. QED BY <4>1
    <3>5. CASE reg = "dma_stride"
      <4>1. c = [mc EXCEPT !["stride"] = v, !["count"] = [mc.count EXCEPT !.zoom = v.zoom]]
        BY <1>1, <3>5 DEF McSet, McRegs, McTyped, McFields
      <4>. QED BY <4>1
    <3>6. CASE reg \in {"dma_gio_adr", "dma_gio_start"}
      <4>1. c = [mc EXCEPT !["gio"] = v.adr, !["go"] = v.go]
        BY <1>1, <3>6 DEF McSet, McRegs
      <4>. QED BY <4>1
    <3>7. CASE reg \in {"tlb", "dma_ctl", "dma_memadr", "dma_mode", "dma_count"}
      <4>1. \E k : c = [mc EXCEPT ![k] = v]
        BY <1>1, <3>7 DEF McSet, McRegs
      <4>. QED BY <4>1
    <3>8. CASE reg \notin McRegs \cup {"eeprom", "dma_cause", "dma_size", "dma_stride", "dma_gio_adr", "dma_gio_start",
                                      "tlb", "dma_ctl", "dma_memadr", "dma_mode", "dma_count"}
      <4>1. c = mc
        BY <1>1, <3>8 DEF McSet
      <4>. QED BY <4>1
    <3>. QED BY <3>1, <3>2, <3>3, <3>4, <3>5, <3>6, <3>7, <3>8
  <2>. QED BY <2>1, <2>2, <2>3, <2>4
<1>3. DOMAIN c.regs = McRegs
  <2>1. CASE reg \in McRegs
    <3>1. c = [mc EXCEPT !.regs[reg] = v]
      BY <1>1, <2>1 DEF McSet, McRegs
    <3>2. c.regs = [mc.regs EXCEPT ![reg] = v]
      BY <3>1 DEF McTyped, McFields
    <3>. QED BY <3>2 DEF McTyped
  <2>2. CASE reg \notin McRegs
    <3>1. c.regs = mc.regs
      BY <1>1, <2>2 DEF McSet, McTyped, McFields
    <3>. QED BY <3>1 DEF McTyped
  <2>. QED BY <2>1, <2>2
<1>4. c.size \in [lines : Nat, width : Nat]
  <2>1. CASE reg = "dma_size"
    <3>1. c = [mc EXCEPT !.size = v, !.count.bytes = v.width]
      BY <1>1, <2>1 DEF McSet, McRegs
    <3>2. c.size = v
      BY <3>1 DEF McTyped, McFields
    <3>. QED BY <2>1, <3>2 DEF GoodMc
  <2>2. CASE reg # "dma_size"
    <3>1. c.size = mc.size
      BY <1>1, <2>2 DEF McSet, McTyped, McFields
    <3>. QED BY <3>1 DEF McTyped
  <2>. QED BY <2>1, <2>2
<1>5. c.stride \in [zoom : Nat, step : Int]
  <2>1. CASE reg = "dma_stride"
    <3>1. c = [mc EXCEPT !.stride = v, !.count.zoom = v.zoom]
      BY <1>1, <2>1 DEF McSet, McRegs
    <3>2. c.stride = v
      BY <3>1 DEF McTyped, McFields
    <3>. QED BY <2>1, <3>2 DEF GoodMc
  <2>2. CASE reg # "dma_stride"
    <3>1. c.stride = mc.stride
      BY <1>1, <2>2 DEF McSet, McTyped, McFields
    <3>. QED BY <3>1 DEF McTyped
  <2>. QED BY <2>1, <2>2
<1>6. c.count \in [zoom : Nat, bytes : Int]
  <2>1. CASE reg = "dma_size"
    <3>1. c = [mc EXCEPT !.size = v, !.count.bytes = v.width]
      BY <1>1, <2>1 DEF McSet, McRegs
    <3>2. c.count = [mc.count EXCEPT !.bytes = v.width]
      BY <3>1 DEF McTyped, McFields
    <3>. QED BY <2>1, <3>2 DEF McTyped, GoodMc
  <2>2. CASE reg = "dma_stride"
    <3>1. c = [mc EXCEPT !.stride = v, !.count.zoom = v.zoom]
      BY <1>1, <2>2 DEF McSet, McRegs
    <3>2. c.count = [mc.count EXCEPT !.zoom = v.zoom]
      BY <3>1 DEF McTyped, McFields
    <3>. QED BY <2>2, <3>2 DEF McTyped, GoodMc
  <2>3. CASE reg = "dma_count"
    <3>1. c = [mc EXCEPT !.count = v]
      BY <1>1, <2>3 DEF McSet, McRegs
    <3>2. c.count = v
      BY <3>1 DEF McTyped, McFields
    <3>. QED BY <2>3, <3>2 DEF GoodMc
  <2>4. CASE reg \notin {"dma_size", "dma_stride", "dma_count"}
    <3>1. c.count = mc.count
      BY <1>1, <2>4 DEF McSet, McTyped, McFields
    <3>. QED BY <3>1 DEF McTyped
  <2>. QED BY <2>1, <2>2, <2>3, <2>4
<1>. QED BY <1>1, <1>2, <1>3, <1>4, <1>5, <1>6 DEF McTyped

LEMMA McWriteIs ==
  ASSUME NEW b, NEW mc, McTyped(mc), NEW mem, NEW reg, NEW v, NEW m, m = Machine3(b, mc, mem),
         NEW n, n = Machine3(b, McSet(mc, reg, v), mem)
  PROVE  McWrite(m, reg, v) = IF reg = "dma_gio_start" \/ (reg = "dma_start" /\ v) THEN dma_perform(n) ELSE n
<1>1. DOMAIN m.mc.regs = McRegs /\ m.mc = mc
  BY DEF McTyped, Machine3
<1>2. CASE reg \in McRegs
  <2>1. McWrite(m, reg, v) = [m EXCEPT !.mc.regs[reg] = v]
    BY <1>1, <1>2 DEF McWrite, McRegs
  <2>2. McSet(mc, reg, v) = [mc EXCEPT !.regs[reg] = v]
    BY <1>2 DEF McSet, McRegs
  <2>. QED BY <1>2, <2>1, <2>2 DEF Machine3, McRegs
<1>3. CASE reg = "eeprom"
  <2>1. McWrite(m, reg, v) = IF v.selected THEN [m EXCEPT !.mc.ee = EepromClock(@, v.bit)] ELSE m
    BY <1>1, <1>3 DEF McWrite, McRegs
  <2>2. McSet(mc, reg, v) = IF v.selected THEN [mc EXCEPT !.ee = EepromClock(@, v.bit)] ELSE mc
    BY <1>3 DEF McSet, McRegs
  <2>. QED BY <1>3, <2>1, <2>2 DEF Machine3
<1>4. CASE reg \notin McRegs \cup {"eeprom"}
  <2>1. McWrite(m, reg, v) = dma_write(m, reg, v)
    BY <1>1, <1>4 DEF McWrite
  <2>2. CASE reg \in {"tlb", "dma_cause", "dma_ctl", "dma_memadr"}
    BY <2>1, <2>2 DEF dma_write, McSet, McRegs, Machine3
  <2>3. CASE reg \in {"dma_size", "dma_stride"}
    BY <2>1, <2>3 DEF dma_write, McSet, McRegs, Machine3
  <2>4. CASE reg \in {"dma_mode", "dma_count", "dma_gio_adr"}
    BY <2>1, <2>4 DEF dma_write, McSet, McRegs, Machine3
  <2>5. CASE reg = "dma_gio_start"
    <3>1. PICK p : p = [m EXCEPT !.mc.gio = v.adr, !.mc.go = v.go]
      OBVIOUS
    <3>2. dma_write(m, reg, v) = dma_perform(p)
      BY <2>5, <3>1 DEF dma_write
    <3>3. McSet(mc, reg, v) = [mc EXCEPT !.gio = v.adr, !.go = v.go]
      BY <2>5 DEF McSet, McRegs
    <3>4. p = n
      <4>1. PICK c : c = [mc EXCEPT !.gio = v.adr]
        OBVIOUS
      <4>2. PICK q : q = [m EXCEPT !.mc = c]
        OBVIOUS
      <4>3. q = Machine3(b, c, mem) /\ q.mc = c
        BY <4>2 DEF Machine3
      <4>4. p = [q EXCEPT !.mc = [c EXCEPT !.go = v.go]]
        BY <1>1, <3>1, <4>1, <4>2, <4>3
      <4>5. p = Machine3(b, [c EXCEPT !.go = v.go], mem)
        BY <4>3, <4>4 DEF Machine3
      <4>. QED BY <3>3, <4>1, <4>5
    <3>. QED BY <2>1, <2>5, <3>2, <3>4
  <2>6. CASE reg = "dma_start"
    <3>1. dma_write(m, reg, v) = IF v THEN dma_perform(m) ELSE m
      BY <2>6 DEF dma_write
    <3>2. McSet(mc, reg, v) = mc
      BY <2>6 DEF McSet, McRegs
    <3>. QED BY <2>1, <2>6, <3>1, <3>2
  <2>7. CASE reg \notin {"tlb", "dma_cause", "dma_ctl", "dma_memadr", "dma_size", "dma_stride", "dma_mode", "dma_count",
                         "dma_gio_adr", "dma_gio_start", "dma_start"}
    <3>1. dma_write(m, reg, v) = m
      BY <2>7 DEF dma_write
    <3>2. McSet(mc, reg, v) = mc
      BY <1>4, <2>7 DEF McSet
    <3>. QED BY <2>1, <2>7, <3>1, <3>2
  <2>. QED BY <2>2, <2>3, <2>4, <2>5, <2>6, <2>7
<1>. QED BY <1>2, <1>3, <1>4

LEMMA TwinMcWrite ==
  ASSUME EngineOnGo, NEW m, NEW n, TwinMachine(m, n), Unmixed(m.b.e), NEW reg, NEW v, GoodMc(reg, v)
  PROVE  Moved(m, McWrite(m, reg, v), McWrite(n, reg, v))
<1>1. m = Machine3(m.b, m.mc, m.mem) /\ n = Machine3(n.b, m.mc, m.mem) /\ McTyped(m.mc)
  BY DEF TwinMachine
<1>2. PICK c : c = McSet(m.mc, reg, v)
  OBVIOUS
<1>3. McTyped(c)
  BY <1>1, <1>2, McSetTyped
<1>4. PICK p, q : p = Machine3(m.b, c, m.mem) /\ q = Machine3(n.b, c, m.mem)
  OBVIOUS
<1>5. Moved(m, p, q)
  BY <1>3, <1>4, MachineMc
<1>6. TwinMachine(p, q) /\ Unmixed(p.b.e)
  BY <1>5, UnmixedKept DEF Moved
<1>7. Moved(p, dma_perform(p), dma_perform(q))
  BY <1>6, TwinPerform
<1>8. Moved(m, dma_perform(p), dma_perform(q))
  BY <1>5, <1>7, MovedTwice
<1>9. McWrite(m, reg, v) = IF reg = "dma_gio_start" \/ (reg = "dma_start" /\ v) THEN dma_perform(p) ELSE p
  BY <1>1, <1>2, <1>4, McWriteIs
<1>10. McWrite(n, reg, v) = IF reg = "dma_gio_start" \/ (reg = "dma_start" /\ v) THEN dma_perform(q) ELSE q
  BY <1>1, <1>2, <1>4, McWriteIs
<1>. QED BY <1>5, <1>8, <1>9, <1>10

-----------------------------------------------------------------------------
(* The two machines *)

LEMMA TwinAccess ==
  ASSUME EngineOnGo, NEW m, NEW n, TwinMachine(m, n), Unmixed(m.b.e), NEW op, GoodAccess(op)
  PROVE  TwinMachine(Access(m, op), Access(n, op))
<1>1. m = Machine3(m.b, m.mc, m.mem) /\ n = Machine3(n.b, m.mc, m.mem) /\ TwinBoard(m.b, n.b) /\ McTyped(m.mc)
  BY DEF TwinMachine
<1>2. ASSUME NEW b, NEW d, TwinBoard(b, d) PROVE TwinMachine(Machine3(b, m.mc, m.mem), Machine3(d, m.mc, m.mem))
  BY <1>1, <1>2 DEF TwinMachine, Machine3
<1>3. CASE op.dev = "rex"
  <2>1. GoodWrite(op.reg, op.val) /\ (op.go => op.reg \notin Modes)
    BY <1>3 DEF GoodAccess
  <2>2. PICK b, d : b = rex3_w(m.b, op.reg, op.val, op.go) /\ d = rex3_w(n.b, op.reg, op.val, op.go)
    OBVIOUS
  <2>3. TwinBoard(b, d)
    BY <1>1, <2>1, <2>2, BoardWrite
  <2>4. Access(m, op) = [m EXCEPT !.b = b] /\ Access(n, op) = [n EXCEPT !.b = d]
    BY <1>3, <2>2 DEF Access
  <2>5. Access(m, op) = Machine3(b, m.mc, m.mem) /\ Access(n, op) = Machine3(d, m.mc, m.mem)
    BY <1>1, <2>4 DEF Machine3
  <2>. QED BY <1>2, <2>3, <2>5
<1>4. CASE op.dev = "read"
  <2>1. PICK b, d : b = rex3_r(m.b, op.reg, op.go).b /\ d = rex3_r(n.b, op.reg, op.go).b
    OBVIOUS
  <2>2. DrawnBoard(m.b, b, d)
    BY <1>1, <2>1, BoardRead
  <2>3. TwinBoard(b, d)
    BY <2>2 DEF DrawnBoard
  <2>4. Access(m, op) = [m EXCEPT !.b = b] /\ Access(n, op) = [n EXCEPT !.b = d]
    BY <1>4, <2>1 DEF Access
  <2>5. Access(m, op) = Machine3(b, m.mc, m.mem) /\ Access(n, op) = Machine3(d, m.mc, m.mem)
    BY <1>1, <2>4 DEF Machine3
  <2>. QED BY <1>2, <2>3, <2>5
<1>5. CASE op.dev = "mc"
  <2>1. GoodMc(op.reg, op.val)
    BY <1>5 DEF GoodAccess
  <2>2. Moved(m, McWrite(m, op.reg, op.val), McWrite(n, op.reg, op.val))
    BY <2>1, TwinMcWrite
  <2>3. Access(m, op) = McWrite(m, op.reg, op.val) /\ Access(n, op) = McWrite(n, op.reg, op.val)
    BY <1>5 DEF Access
  <2>. QED BY <2>2, <2>3 DEF Moved
<1>. QED BY <1>3, <1>4, <1>5 DEF GoodAccess

LEMMA TwinTick ==
  ASSUME NEW m, NEW n, TwinMachine(m, n) PROVE TwinMachine(Tick(m), Tick(n))
<1>1. m = Machine3(m.b, m.mc, m.mem) /\ n = Machine3(n.b, m.mc, m.mem) /\ TwinBoard(m.b, n.b) /\ McTyped(m.mc)
  BY DEF TwinMachine
<1>2. m.b = Board4(m.b.e, m.b.vid, m.b.icnt, m.b.dcb) /\ n.b = Board4(n.b.e, m.b.vid, m.b.icnt, m.b.dcb) /\ Twin(m.b.e, n.b.e)
  BY <1>1 DEF TwinBoard
<1>3. PICK k, b, d : k = m.b.icnt + 1 /\ b = Board4(m.b.e, m.b.vid, k, m.b.dcb) /\ d = Board4(n.b.e, m.b.vid, k, m.b.dcb)
  OBVIOUS
<1>4. [m.b EXCEPT !.icnt = @ + 1] = b /\ [n.b EXCEPT !.icnt = @ + 1] = d
  BY <1>2, <1>3 DEF Board4
<1>5. Tick(m) = [m EXCEPT !.b = b] /\ Tick(n) = [n EXCEPT !.b = d]
  BY <1>4 DEF Tick
<1>6. Tick(m) = Machine3(b, m.mc, m.mem) /\ Tick(n) = Machine3(d, m.mc, m.mem)
  BY <1>1, <1>5 DEF Machine3
<1>7. TwinBoard(b, d)
  BY <1>2, <1>3 DEF TwinBoard, Board4
<1>. QED BY <1>1, <1>6, <1>7 DEF TwinMachine, Machine3

\* The registers out of reset.
LEMMA NewEngineIs ==
  ASSUME NEW planes
  PROVE  Twin(NewEngine(FALSE, planes), NewEngine(TRUE, planes))
<1>1. PICK z, none : z = [ch \in Channels |-> 0] /\ none = [x0 |-> 0, x1 |-> 0, y0 |-> 0, y1 |-> 0]
  OBVIOUS
<1>2. PICK b : b = [fast_clear |-> FALSE, plane |-> 0, depth |-> 0, logicop |-> 0, src_shift |-> 0,
                    dest |-> "rgbci", write_mask |-> {}, global_mask |-> planes]
  OBVIOUS
<1>3. PICK r : r = rb_set_flags(b, Mode1)
  OBVIOUS
<1>4. PICK fb : fb = [d \in {"rgbci", "cidaux"} |-> [p \in FbXY |-> {}]]
  OBVIOUS
<1>5. PICK sm : sm = [n \in 0 .. 4 |-> none]
  OBVIOUS
<1> DEFINE N(scalar) ==
      [scalar |-> scalar, m0 |-> Mode0, m1 |-> Mode1,
       xs |-> 0, ys |-> 0, xe |-> 0, ye |-> 0, x_save |-> 0, move |-> [x |-> 0, y |-> 0],
       window |-> [x |-> Bias, y |-> Bias], clip_mode |-> {}, smask |-> sm,
       oct |-> [ydec |-> FALSE, xdec |-> FALSE, xmajor |-> FALSE],
       color |-> z, curr |-> z, slope |-> z, color_i |-> {}, color_back |-> {}, color_vram |-> {},
       ls_pattern |-> {}, ls_saved |-> {}, z_pattern |-> {}, host |-> {}, host_shift |-> 0, pixels |-> 0,
       rb |-> r, fb |-> fb]
<1>6. \A scalar : NewEngine(scalar, planes) = N(scalar)
  BY <1>1, <1>2, <1>3, <1>4, <1>5 DEF NewEngine
<1>7. GoodWrite("draw_mode1", Mode1)
  BY DEF GoodWrite, Mode1
<1>8. Typed("rb", r)
  <2>1. Typed("rb", b)
    <3>1. b = [k \in RbFields |-> b[k]]
      BY <1>2 DEF RbFields
    <3>2. b.dest = "rgbci" /\ b.logicop = 0 /\ b.src_shift = 0
      BY <1>2
    <3>. QED BY <3>1, <3>2 DEF Typed
  <2>. QED BY <1>3, <1>7, <2>1, FlagsIn DEF GoodWrite
<1>9. fb \in FrameBuffer
  BY <1>4 DEF FrameBuffer
<1>10. z \in [Channels -> Int]
  BY <1>1
<1>11. 0 \in Coords
  BY SizeAssumption DEF Coords
<1>12. PICK e, f : e = N(FALSE) /\ f = N(TRUE)
  OBVIOUS
<1>13. Engine(e)
  <2>1. e = [k \in EngineFields |-> e[k]]
    BY <1>12 DEF EngineFields
  <2>2. e.rb = r /\ e.fb = fb /\ e.color = z /\ e.curr = z /\ e.slope = z /\ e.smask = sm /\ e.m1 = Mode1 /\ e.pixels = 0
    BY <1>12
  <2>3. e.xs = 0 /\ e.ys = 0 /\ e.xe = 0 /\ e.ye = 0 /\ e.x_save = 0 /\ e.window = [x |-> Bias, y |-> Bias]
    BY <1>12
  <2>4. e.window.x \in Int /\ e.window.y \in Int
    BY <2>3, SizeAssumption
  <2>5. /\ e.smask = [n \in 0 .. 4 |-> e.smask[n]]
        /\ e.smask[0].x0 \in Coords /\ e.smask[0].x1 \in Coords /\ e.smask[0].y0 \in Coords /\ e.smask[0].y1 \in Coords
    <3>1. sm[0] = none /\ sm = [n \in 0 .. 4 |-> sm[n]]
      BY <1>5
    <3>. QED BY <1>1, <1>11, <2>2, <3>1
  <2>6. /\ e.rb = [k \in RbFields |-> e.rb[k]]
        /\ e.rb.dest \in {"rgbci", "cidaux"} /\ e.rb.logicop \in 0 .. 15 /\ e.rb.src_shift \in Nat
    BY <1>8, <2>2 DEF Typed
  <2>7. e.m1.depth \in 0 .. 3 /\ e.m1.hostdepth \in 0 .. 3
    BY <1>7, <2>2 DEF GoodWrite
  <2>. QED BY <1>9, <1>10, <1>11, <2>1, <2>2, <2>3, <2>4, <2>5, <2>6, <2>7 DEF Engine
<1>14. f = [e EXCEPT !.scalar = TRUE]
  <2>1. f.m0 = e.m0 /\ f.m1 = e.m1 /\ f.xs = e.xs /\ f.ys = e.ys /\ f.xe = e.xe /\ f.ye = e.ye /\ f.x_save = e.x_save /\ f.move = e.move /\ f.window = e.window
    BY <1>12
  <2>2. f.clip_mode = e.clip_mode /\ f.smask = e.smask /\ f.oct = e.oct /\ f.color = e.color /\ f.curr = e.curr /\ f.slope = e.slope /\ f.color_i = e.color_i /\ f.color_back = e.color_back /\ f.color_vram = e.color_vram
    BY <1>12
  <2>3. f.ls_pattern = e.ls_pattern /\ f.ls_saved = e.ls_saved /\ f.z_pattern = e.z_pattern /\ f.host = e.host /\ f.host_shift = e.host_shift /\ f.pixels = e.pixels /\ f.rb = e.rb /\ f.fb = e.fb
    BY <1>12
  <2>4. f = [k \in EngineFields |-> f[k]] /\ e = [k \in EngineFields |-> e[k]] /\ f.scalar = TRUE
    BY <1>12 DEF EngineFields
  <2> HIDE DEF N
  <2>5. ASSUME NEW k \in EngineFields \ {"scalar"} PROVE f[k] = e[k]
    BY <2>1, <2>2, <2>3, <2>5 DEF EngineFields
  <2>6. "scalar" \in EngineFields
    BY DEF EngineFields
  <2>. QED BY <2>4, <2>5, <2>6
<1> HIDE DEF N
<1>. QED BY <1>6, <1>12, <1>13, <1>14 DEF Twin

LEMMA NewTwins == TwinMachine(NewMachine(FALSE), NewMachine(TRUE))
<1>1. PICK e, f : e = NewEngine(FALSE, Planes) /\ f = NewEngine(TRUE, Planes)
  OBVIOUS
<1>2. PICK vid, dcb, mem : vid = NewVideo /\ dcb = [slave |-> "vc2", reg |-> 0, width |-> 4, inc |-> FALSE]
                           /\ mem = [a \in 0 .. MemSize - 1 |-> NumBits((a * 37 + 11) % 256, 8)]
  OBVIOUS
<1>3. PICK mc : mc = NewMc
  OBVIOUS
<1>4. Twin(e, f)
  BY <1>1, NewEngineIs
<1>5. McTyped(mc)
  BY <1>3 DEF NewMc, McTyped, McFields, McRegs
<1>6. NewMachine(FALSE) = Machine3(Board4(e, vid, 0, dcb), mc, mem)
  BY <1>1, <1>2, <1>3 DEF NewMachine, NewBoard, Machine3, Board4
<1>7. NewMachine(TRUE) = Machine3(Board4(f, vid, 0, dcb), mc, mem)
  BY <1>1, <1>2, <1>3 DEF NewMachine, NewBoard, Machine3, Board4
<1>8. TwinBoard(Board4(e, vid, 0, dcb), Board4(f, vid, 0, dcb))
  BY <1>4 DEF TwinBoard, Board4
<1>9. PICK b, d : b = Board4(e, vid, 0, dcb) /\ d = Board4(f, vid, 0, dcb)
  OBVIOUS
<1>10. TwinMachine(Machine3(b, mc, mem), Machine3(d, mc, mem))
  BY <1>5, <1>8, <1>9 DEF TwinMachine, Machine3
<1>. QED BY <1>6, <1>7, <1>9, <1>10

LEMMA TwinRetrace ==
  ASSUME NEW m, NEW n, TwinMachine(m, n)
  PROVE  TwinMachine([m EXCEPT !.b = vblank(@)], [n EXCEPT !.b = vblank(@)])
<1>1. m = Machine3(m.b, m.mc, m.mem) /\ n = Machine3(n.b, m.mc, m.mem) /\ TwinBoard(m.b, n.b) /\ McTyped(m.mc)
  BY DEF TwinMachine
<1>2. PICK b, d : b = vblank(m.b) /\ d = vblank(n.b)
  OBVIOUS
<1>3. DrawnBoard(m.b, b, d)
  BY <1>1, <1>2, BoardRetrace
<1>4. TwinBoard(b, d)
  BY <1>3 DEF DrawnBoard
<1>5. [m EXCEPT !.b = vblank(@)] = Machine3(b, m.mc, m.mem) /\ [n EXCEPT !.b = vblank(@)] = Machine3(d, m.mc, m.mem)
  BY <1>1, <1>2 DEF Machine3
<1>. QED BY <1>1, <1>4, <1>5 DEF TwinMachine, Machine3
-----------------------------------------------------------------------------
(* The kernel agrees *)

Session(job, pc, fast, oracle, retraced) ==
  [job |-> job, pc |-> pc, fast |-> fast, oracle |-> oracle, retraced |-> retraced]

\* The two machines differ in nothing but the build option.
TwinInv ==
  /\ gfx = Session(gfx.job, gfx.pc, gfx.fast, gfx.oracle, gfx.retraced)
  /\ gfx.job \in Jobs /\ gfx.pc \in Nat /\ gfx.pc > 0
  /\ TwinMachine(gfx.fast, gfx.oracle)

LEMMA TwinInvInit == GfxInit => TwinInv
<1> SUFFICES ASSUME GfxInit PROVE TwinInv
  OBVIOUS
<1>1. PICK j \in Jobs : gfx = [job |-> j, pc |-> 1, fast |-> NewMachine(FALSE), oracle |-> NewMachine(TRUE),
                               retraced |-> FALSE]
  BY DEF GfxInit
<1>2. PICK m, n : m = NewMachine(FALSE) /\ n = NewMachine(TRUE)
  OBVIOUS
<1>3. TwinMachine(m, n)
  BY <1>2, NewTwins
<1>4. gfx = Session(j, 1, m, n, FALSE)
  BY <1>1, <1>2 DEF Session
<1>. QED BY <1>3, <1>4 DEF TwinInv, Session

LEMMA TwinInvNext ==
  ASSUME EngineOnGo, TwinInv, Unmixed(gfx.fast.b.e), [GfxNext]_gfxVars
  PROVE  TwinInv'
<1>1. PICK j, pc, m, n, r : gfx = Session(j, pc, m, n, r) /\ j \in Jobs /\ pc \in Nat /\ pc > 0 /\ TwinMachine(m, n)
  BY DEF TwinInv
<1>2. gfx.job = j /\ gfx.pc = pc /\ gfx.fast = m /\ gfx.oracle = n /\ gfx.retraced = r
  BY <1>1 DEF Session
<1>3. ASSUME NEW k \in Nat, k > 0, NEW p, NEW q, TwinMachine(p, q), NEW s, gfx' = Session(j, k, p, q, s) PROVE TwinInv'
  BY <1>1, <1>3 DEF TwinInv, Session
<1>4. CASE BusAccess
  <2>1. PICK op : op = DriverProgram(j)[pc]
    OBVIOUS
  <2>2. GoodAccess(op)
    <3>1. PICK len : len = Len(DriverProgram(j))
      OBVIOUS
    <3>2. len \in Nat /\ \A i \in 1 .. len : GoodAccess(DriverProgram(j)[i])
      BY <1>1, <3>1, JobAssumption
    <3>3. ~(pc > len)
      BY <1>2, <1>4, <3>1 DEF BusAccess, Finished
    <3>4. pc \in 1 .. len
      BY <1>1, <3>2, <3>3
    <3>. QED BY <2>1, <3>2, <3>4
  <2>3. PICK p, q : p = Tick(Access(m, op)) /\ q = Tick(Access(n, op))
    OBVIOUS
  <2>4. TwinMachine(p, q)
    BY <1>1, <1>2, <2>2, <2>3, TwinAccess, TwinTick
  <2>5. gfx' = [gfx EXCEPT !.pc = @ + 1, !.fast = p, !.oracle = q]
    BY <1>2, <1>4, <2>1, <2>3 DEF BusAccess
  <2>6. gfx' = Session(j, pc + 1, p, q, r)
    BY <1>1, <1>2, <2>5 DEF Session
  <2>. QED BY <1>1, <1>3, <2>4, <2>6
<1>5. CASE VertRetrace
  <2>1. PICK p, q : p = [m EXCEPT !.b = vblank(@)] /\ q = [n EXCEPT !.b = vblank(@)]
    OBVIOUS
  <2>2. TwinMachine(p, q)
    BY <1>1, <2>1, TwinRetrace
  <2>3. gfx' = [gfx EXCEPT !.retraced = TRUE, !.fast.b = vblank(@), !.oracle.b = vblank(@)]
    BY <1>5 DEF VertRetrace
  <2>4. gfx' = [gfx EXCEPT !.retraced = TRUE, !.fast = p, !.oracle = q]
    BY <1>2, <2>1, <2>3
  <2>5. PICK t : t = TRUE
    OBVIOUS
  <2>6. gfx' = Session(j, pc, p, q, t)
    BY <1>1, <2>4, <2>5 DEF Session
  <2>. QED BY <1>1, <1>3, <2>2, <2>6
<1>6. CASE UNCHANGED gfxVars
  BY <1>6 DEF TwinInv, gfxVars
<1>. QED BY <1>4, <1>5, <1>6 DEF GfxNext

LEMMA TwinInvAgrees == TwinInv => KernelAgrees
<1> SUFFICES ASSUME TwinInv PROVE KernelAgrees
  OBVIOUS
<1>1. PICK m, n : m = gfx.fast /\ n = gfx.oracle
  OBVIOUS
<1>2. TwinMachine(m, n)
  BY <1>1 DEF TwinInv
<1>3. n.mem = m.mem /\ TwinBoard(m.b, n.b)
  BY <1>2 DEF TwinMachine, Machine3
<1>4. n.b.e = [m.b.e EXCEPT !.scalar = TRUE]
  BY <1>3 DEF TwinBoard, Twin
<1>5. Same(gfx.fast, gfx.oracle)
  BY <1>1, <1>3, <1>4 DEF Same
<1>. QED BY <1>5 DEF KernelAgrees

\* For every board, kernel width, coordinate size, page table and set of jobs:
\* as long as a program never sets modes that iterate a shade under host or
\* fast-clear colours, drawing spans with the kernel (span_fast) leaves what
\* drawing them pixel by pixel (NEWPORT_SCALAR) leaves: the same words in every
\* plane, the same registers and iterators, and, through the host port and the
\* DMA of the memory controller, the same memory.
THEOREM GfxKernelAgrees ==
  ASSUME EngineOnGo
  PROVE  GfxSpec /\ []Unmixed(gfx.fast.b.e) => []KernelAgrees
<1>1. TwinInv /\ Unmixed(gfx.fast.b.e) /\ [GfxNext]_gfxVars => TwinInv'
  BY TwinInvNext
<1>. QED BY <1>1, TwinInvInit, TwinInvAgrees, PTL DEF GfxSpec
-----------------------------------------------------------------------------
(* Lines: registers and words *)

LEMMA SextAt == ASSUME NEW v \in -16 * Half .. 16 * Half - 1 PROVE Sext20(v) = v
<1>1. PICK m, h \in Nat : m = 32 * Half /\ h = 16 * Half /\ m = 2 * h /\ m > 0
  BY SizeAssumption
<1>2. v \in Int /\ v + h \in 0 .. m - 1 /\ v + h \in Int
  BY <1>1, SizeAssumption
<1>3. Sext20(v) = ((v + h) % m) - h
  BY <1>1 DEF Sext20
<1>. QED BY <1>1, <1>2, <1>3, RemAt

LEMMA PlaceAt == ASSUME NEW x \in Coords PROVE Sext20(16 * x) = 16 * x /\ Whole(16 * x) = x /\ x \in Int /\ 16 * x \in Int
<1>1. x \in Int /\ 16 * x \in -16 * Half .. 16 * Half - 1 /\ (16 * x) \div 16 = x
  BY SizeAssumption DEF Coords
<1>. QED BY <1>1, SextAt, I16At DEF Whole

LineMode1 == [Mode1 EXCEPT !.rgb = FALSE, !.fastclear = FALSE, !.depth = 1]

LineMode0 == [Mode0 EXCEPT !.op = "draw", !.adr = "iline", !.setup = TRUE, !.stop_x = TRUE, !.stop_y = TRUE]

\* Planes as the line's mode sets them.
LinePlanes(rb) == rb.fast_clear = FALSE /\ rb.plane = 1 /\ rb.depth = 1 /\ rb.logicop = 3 /\ rb.dest = "rgbci"

\* The engine with everything set that a line needs but its place.
Inked(e) ==
  /\ Engine(e)
  /\ e.m0 = LineMode0 /\ e.m1 = LineMode1 /\ e.color_i = {0}
  /\ e.window = [x |-> Bias, y |-> Bias] /\ e.clip_mode = {}
  /\ LinePlanes(e.rb) /\ e.rb.write_mask = Bits24 /\ e.rb.global_mask = Planes

\* The pixels drawn.
Dots(e) == {p \in FbXY : e.fb["rgbci"][p] # {}}

LEMMA InkWrites ==
  ASSUME NEW rb, LinePlanes(rb), rb.write_mask = Bits24, rb.global_mask = Planes, NEW c, 0 \in c, NEW w
  PROVE  0 \in rb_write(rb, w, c)
<1>1. 0 \in LaneShifts(1)
  <2>1. 0 = 8 * 0 /\ 0 \in 0 .. 3
    OBVIOUS
  <2>. QED BY <2>1 DEF LaneShifts
<1>2. 0 \in Shl(c, 0)
  BY DEF Shl
<1>3. 0 \in Repeat(c, LaneShifts(1))
  BY <1>1, <1>2 DEF Repeat
<1>4. 0 \in Lanes(rb, c)
  BY <1>3 DEF Lanes, LinePlanes, Bits24
<1>5. 0 \in Bits24 /\ 0 \in Planes
  BY ScreenAssumption DEF Bits24
<1>6. rb_write(rb, w, c) = rb_store(rb, w, Lanes(rb, c))
  BY DEF rb_write, LogicOp, LinePlanes
<1>. QED BY <1>4, <1>5, <1>6 DEF rb_store

LEMMA InkIs == ASSUME NEW e, Inked(e) PROVE 0 \in default_color(e, e.color_i)
<1>1. default_color(e, {0}) = Repeat(Low({0}, 8), {8 * k : k \in 0 .. 3})
  BY DEF default_color, Inked, LineMode1, Mode1
<1>2. 0 \in Low({0}, 8)
  BY DEF Low
<1>3. 0 \in Shl(Low({0}, 8), 0)
  BY <1>2 DEF Shl
<1>4. 0 \in {8 * k : k \in 0 .. 3}
  OBVIOUS
<1>. QED BY <1>1, <1>3, <1>4 DEF Repeat, Inked

\* A point on the screen is drawn where it says, and nothing else changes.
LEMMA InkPlot ==
  ASSUME NEW e, Inked(e), NEW x \in 0 .. FB_W - 1, NEW y \in 0 .. DISP_H - 1
  PROVE  /\ Inked(Plot(e, x, y))
         /\ Dots(Plot(e, x, y)) = Dots(e) \cup {<<x, y>>}
<1>1. PICK c : c = default_color(e, e.color_i)
  OBVIOUS
<1>2. 0 \in c
  BY <1>1, InkIs
<1>3. Engine(e)
  BY DEF Inked
<1>4. x \in Coords /\ y \in Coords /\ <<x, y>> \in FbXY /\ x \in Int /\ y \in Int
  BY ScreenAssumption, SizeAssumption DEF Coords, FbXY
<1>5. WinX(e, x) = x /\ WinY(e, y) = y
  <2>1. e.window.x = Bias /\ e.window.y = Bias
    BY DEF Inked
  <2>2. x + Bias - Bias = x /\ y + Bias - Bias = y
    BY <1>4, SizeAssumption
  <2>. QED BY <1>4, <2>1, <2>2, I16At DEF WinX, WinY
<1>6. clip_pass(e, x, y)
  BY <1>5 DEF clip_pass, Inked
<1>7. PICK b : b = Stroke(e, e.fb, x, y, c)
  OBVIOUS
<1>8. b \in FrameBuffer /\ output_pixel(e, x, y, c) = [e EXCEPT !.pixels = e.pixels + 1, !.fb = b]
  <2>1. /\ output_pixel(e, x, y, c) = [e EXCEPT !.pixels = e.pixels + 1, !.fb = Stroke(e, e.fb, x, y, c)]
        /\ Stroke(e, e.fb, x, y, c) \in FrameBuffer
    BY <1>3, OutputPixel
  <2>. QED BY <1>7, <2>1
<1>9. Plot(e, x, y) = [e EXCEPT !.pixels = e.pixels + 1, !.fb = b]
  <2>1. ~e.m0.shade /\ ~e.m1.rgb
    BY DEF Inked, LineMode0, LineMode1, Mode0, Mode1
  <2>. QED BY <1>1, <1>8, <2>1 DEF Plot
<1>10. PICK g : g = [e EXCEPT !.pixels = e.pixels + 1, !.fb = b]
  OBVIOUS
<1>11. Engine(g) /\ Regs(e, g) /\ g.color_i = e.color_i /\ g.fb = b
  <2>1. e.pixels + 1 \in Nat /\ g = Paint(e, e.pixels + 1, b)
    BY <1>3, <1>10 DEF Paint, Engine
  <2>2. g.color_i = e.color_i /\ g.fb = b
    BY <1>3, <1>10 DEF Engine, EngineFields
  <2>. QED BY <1>3, <1>8, <2>1, <2>2, PaintIs
<1>12. Inked(g)
  BY <1>11 DEF Inked, Regs
<1>13. b["rgbci"] = [e.fb["rgbci"] EXCEPT ![<<x, y>>] = rb_write(e.rb, @, c)]
  <2>1. e.rb.dest = "rgbci"
    BY DEF Inked, LinePlanes
  <2>2. b = [e.fb EXCEPT !["rgbci"][<<x, y>>] = rb_write(e.rb, @, c)]
    BY <1>5, <1>6, <1>7, <2>1 DEF Stroke
  <2>. QED BY <1>3, <2>2 DEF Engine, FrameBuffer
<1>14. 0 \in rb_write(e.rb, e.fb["rgbci"][<<x, y>>], c)
  BY <1>2, InkWrites DEF Inked
<1>15. \A p \in FbXY : b["rgbci"][p] = IF p = <<x, y>> THEN rb_write(e.rb, e.fb["rgbci"][<<x, y>>], c) ELSE e.fb["rgbci"][p]
  <2>1. PICK r, v : r = e.fb["rgbci"] /\ v = rb_write(e.rb, r[<<x, y>>], c)
    OBVIOUS
  <2>2. r \in [FbXY -> SUBSET Bits24] /\ b["rgbci"] = [r EXCEPT ![<<x, y>>] = v]
    BY <1>3, <1>13, <2>1 DEF Engine, FrameBuffer
  <2>. QED BY <1>4, <2>1, <2>2
<1>16. Dots(g) = Dots(e) \cup {<<x, y>>}
  <2>1. Dots(g) = {p \in FbXY : b["rgbci"][p] # {}}
    BY <1>11 DEF Dots
  <2>2. PICK v : v = rb_write(e.rb, e.fb["rgbci"][<<x, y>>], c) /\ v # {}
    BY <1>14
  <2>3. \A p \in FbXY : b["rgbci"][p] # {} <=> (p = <<x, y>> \/ e.fb["rgbci"][p] # {})
    BY <1>15, <2>2
  <2>. QED BY <1>4, <2>1, <2>3 DEF Dots
<1>. QED BY <1>9, <1>10, <1>12, <1>16
-----------------------------------------------------------------------------
(* Lines: the error term *)

\* A line from (ax, ay) by sx and sy, of major steps along x where xm.
Line(l) ==
  /\ l.ax \in Int /\ l.ay \in Int /\ l.sx \in {1, -1} /\ l.sy \in {1, -1} /\ l.xm \in BOOLEAN
  /\ l.major \in Nat /\ l.minor \in Nat /\ l.minor <= l.major

\* The pixel k steps along the major axis and m along the other.
Px(l, k, m) == l.ax + l.sx * (IF l.xm THEN k ELSE m)
Py(l, k, m) == l.ay + l.sy * (IF l.xm THEN m ELSE k)

\* It lies within half a pixel of the true line.
Near(l, k, m) ==
  /\ m \in 0 .. l.minor
  /\ 2 * (l.minor * k - l.major * m) \in -l.major .. l.major

LEMMA OneMore == ASSUME NEW u \in Int, NEW v \in Int PROVE u * (v + 1) = u * v + u
  OBVIOUS

\* Mirroring a line does not move its pixels nearer or farther.
LEMMA Mirror ==
  ASSUME NEW s \in {1, -1}, NEW t \in {1, -1}, NEW a \in Int, NEW b \in Int, NEW k \in Int, NEW m \in Int
  PROVE  (s * a) * (t * m) - (t * b) * (s * k) \in {b * k - a * m, -(b * k - a * m)}
<1>1. PICK u, v \in Int : u = a * m /\ v = b * k
  OBVIOUS
<1>2. (s * a) * (t * m) = (s * t) * u
  BY <1>1
<1>3. (t * b) * (s * k) = (s * t) * v
  BY <1>1
<1>4. s * t \in {1, -1}
  OBVIOUS
<1>. QED BY <1>1, <1>2, <1>3, <1>4

LEMMA NearFirst == ASSUME NEW l, Line(l) PROVE Near(l, 0, 0)
<1>1. PICK A, B \in Nat : A = l.major /\ B = l.minor
  BY DEF Line
<1>2. B * 0 = 0 /\ A * 0 = 0
  BY <1>1
<1>. QED BY <1>1, <1>2 DEF Near

LEMMA NearLast == ASSUME NEW l, Line(l) PROVE Near(l, l.major, l.minor)
<1>1. PICK A, B \in Nat : A = l.major /\ B = l.minor
  BY DEF Line
<1>2. B * A - A * B = 0
  BY <1>1
<1>. QED BY <1>1, <1>2 DEF Near

\* The sign of the error term keeps the next pixel near.
LEMMA NearNext ==
  ASSUME NEW l, Line(l), NEW k \in 0 .. l.major - 1, NEW m, Near(l, k, m), NEW d,
         d = 2 * (l.minor * k - l.major * m) + 2 * l.minor - l.major
  PROVE  /\ d < 0 => Near(l, k + 1, m)
         /\ d >= 0 => Near(l, k + 1, m + 1)
<1>1. PICK A, B \in Nat : A = l.major /\ B = l.minor /\ B <= A
  BY DEF Line
<1>2. m \in 0 .. B /\ k \in 0 .. A - 1
  BY <1>1 DEF Near
<1>3. PICK a, b \in Int : a = B * k /\ b = A * m
  BY <1>1, <1>2
<1>4. B * (k + 1) = a + B /\ A * (m + 1) = b + A
  <2>1. k \in Int /\ m \in Int /\ A \in Int /\ B \in Int
    BY <1>1, <1>2
  <2>. QED BY <1>3, <2>1, OneMore
<1>5. 2 * (a - b) \in -A .. A /\ d = 2 * (a - b) + 2 * B - A
  BY <1>1, <1>3 DEF Near
<1>6. d < 0 => 2 * (a + B - b) \in -A .. A
  BY <1>1, <1>5
<1>7. d >= 0 => 2 * (a + B - (b + A)) \in -A .. A
  BY <1>1, <1>5
<1>8. ASSUME d >= 0 PROVE m + 1 \in 0 .. B
  <2>1. ASSUME m = B PROVE FALSE
    <3>1. b = A * B /\ a = B * k
      BY <1>3, <2>1
    <3>2. B * (k + 1) <= B * A
      <4>1. k + 1 <= A /\ k + 1 \in Nat
        BY <1>1, <1>2
      <4>2. \A u, v \in Nat : u <= v => B * u <= B * v
        BY <1>1
      <4>. QED BY <1>1, <4>1, <4>2
    <3>3. a + B <= b
      BY <1>1, <1>4, <3>1, <3>2
    <3>. QED BY <1>1, <1>2, <1>5, <1>8, <3>3
  <2>. QED BY <1>2, <2>1
<1>9. Near(l, k + 1, m) <=> (m \in 0 .. B /\ 2 * (a + B - b) \in -A .. A)
  BY <1>1, <1>3, <1>4 DEF Near
<1>10. Near(l, k + 1, m + 1) <=> (m + 1 \in 0 .. B /\ 2 * (a + B - (b + A)) \in -A .. A)
  BY <1>1, <1>3, <1>4 DEF Near
<1>. QED BY <1>2, <1>6, <1>7, <1>8, <1>9, <1>10

\* Half a pixel, measured from the ends of the line.
LEMMA NearIs ==
  ASSUME NEW l, Line(l), NEW k \in 0 .. l.major, NEW m, Near(l, k, m)
  PROVE  Abs(2 * ((Px(l, l.major, l.minor) - l.ax) * (Py(l, k, m) - l.ay)
                  - (Py(l, l.major, l.minor) - l.ay) * (Px(l, k, m) - l.ax))) <= l.major
<1>1. PICK A, B \in Nat : A = l.major /\ B = l.minor
  BY DEF Line
<1>2. m \in Int /\ k \in Int /\ 2 * (B * k - A * m) \in -A .. A
  BY <1>1 DEF Near
<1>3. PICK ax, ay \in Int, s, t \in {1, -1} : ax = l.ax /\ ay = l.ay /\ s = l.sx /\ t = l.sy
  BY DEF Line
<1>4. PICK E \in Int : E = B * k - A * m
  BY <1>1, <1>2
<1>5. CASE l.xm
  <2>1. /\ Px(l, l.major, l.minor) - l.ax = s * A /\ Px(l, k, m) - l.ax = s * k
        /\ Py(l, l.major, l.minor) - l.ay = t * B /\ Py(l, k, m) - l.ay = t * m
    BY <1>1, <1>2, <1>3, <1>5 DEF Px, Py
  <2>2. (s * A) * (t * m) - (t * B) * (s * k) \in {E, -E}
    BY <1>2, <1>4, Mirror
  <2>. QED BY <1>1, <1>2, <1>4, <2>1, <2>2 DEF Abs
<1>6. CASE ~l.xm
  <2>1. /\ Px(l, l.major, l.minor) - l.ax = s * B /\ Px(l, k, m) - l.ax = s * m
        /\ Py(l, l.major, l.minor) - l.ay = t * A /\ Py(l, k, m) - l.ay = t * k
    BY <1>1, <1>2, <1>3, <1>6 DEF Px, Py
  <2>2. (s * B) * (t * k) - (t * A) * (s * m) \in {E, -E}
    <3>1. (s * B) * (t * k) - (t * A) * (s * m) \in {A * m - B * k, -(A * m - B * k)}
      BY <1>2, Mirror
    <3>. QED BY <1>1, <1>2, <1>4, <3>1
  <2>. QED BY <1>1, <1>2, <1>4, <2>1, <2>2 DEF Abs
<1>. QED BY <1>5, <1>6

\* Pixels at different steps are different.
LEMMA StepsDiffer ==
  ASSUME NEW l, Line(l), NEW i \in Int, NEW k \in Int, NEW m \in Int, NEW n \in Int,
         Px(l, i, m) = Px(l, k, n), Py(l, i, m) = Py(l, k, n)
  PROVE  i = k
<1>1. PICK ax, ay \in Int, s, t \in {1, -1} : ax = l.ax /\ ay = l.ay /\ s = l.sx /\ t = l.sy
  BY DEF Line
<1>2. CASE l.xm
  <2>1. ax + s * i = ax + s * k
    BY <1>1, <1>2 DEF Px
  <2>. QED BY <1>1, <2>1
<1>3. CASE ~l.xm
  <2>1. ay + t * i = ay + t * k
    BY <1>1, <1>3 DEF Py
  <2>. QED BY <1>1, <2>1
<1>. QED BY <1>2, <1>3

\* One pixel for each step of the longer axis.
LEMMA LineSet ==
  ASSUME NEW l, Line(l), NEW q, \A i \in 0 .. l.major : \E m : Near(l, i, m) /\ q[i] = <<Px(l, i, m), Py(l, i, m)>>
  PROVE  /\ Cardinality({q[i] : i \in 0 .. l.major}) = l.major + 1
         /\ q[0] = <<l.ax, l.ay>>
<1>1. PICK A \in Nat : A = l.major
  BY DEF Line
<1>2. ASSUME NEW i \in 0 .. A, NEW k \in 0 .. A, q[i] = q[k] PROVE i = k
  <2>1. PICK m : Near(l, i, m) /\ q[i] = <<Px(l, i, m), Py(l, i, m)>>
    BY <1>1
  <2>2. PICK n : Near(l, k, n) /\ q[k] = <<Px(l, k, n), Py(l, k, n)>>
    BY <1>1
  <2>3. m \in Int /\ n \in Int /\ i \in Int /\ k \in Int
    BY <2>1, <2>2 DEF Near
  <2>4. Px(l, i, m) = Px(l, k, n) /\ Py(l, i, m) = Py(l, k, n)
    <3>1. PICK a, b, c, d : a = Px(l, i, m) /\ b = Py(l, i, m) /\ c = Px(l, k, n) /\ d = Py(l, k, n)
      OBVIOUS
    <3>2. <<a, b>> = <<c, d>>
      BY <1>2, <2>1, <2>2, <3>1
    <3>. QED BY <3>1, <3>2
  <2>. QED BY <2>3, <2>4, StepsDiffer
<1>3. PICK S : S = {q[i] : i \in 0 .. A}
  OBVIOUS
<1>4. PICK f : f = [i \in 0 .. A |-> q[i]]
  OBVIOUS
<1>5. f \in Bijection(0 .. A, S)
  BY <1>2, <1>3, <1>4, Fun_IsBij
<1>6. IsFiniteSet(0 .. A) /\ Cardinality(0 .. A) = A + 1
  <2>1. IsFiniteSet(0 .. A) /\ Cardinality(0 .. A) = IF 0 > A THEN 0 ELSE A - 0 + 1
    BY FS_Interval
  <2>. QED BY <2>1
<1>7. Cardinality(S) = A + 1
  BY <1>5, <1>6, FS_Bijection DEF ExistsBijection
<1>8. q[0] = <<l.ax, l.ay>>
  <2>1. PICK m : Near(l, 0, m) /\ q[0] = <<Px(l, 0, m), Py(l, 0, m)>>
    BY <1>1
  <2>2. PICK B \in Nat : B = l.minor /\ B <= A
    BY <1>1 DEF Line
  <2>3. m \in 0 .. B /\ 2 * (0 - A * m) \in -A .. A
    BY <1>1, <2>1, <2>2 DEF Near
  <2>4. m = 0
    <3>1. PICK v \in Int : v = A * m
      BY <2>3
    <3>2. m >= 1 => v >= A
      <4>1. \A w \in Nat : w >= 1 => A * w >= A
        OBVIOUS
      <4>2. m \in Nat
        BY <2>3
      <4>. QED BY <3>1, <4>1, <4>2
    <3>3. 2 * (0 - v) \in -A .. A
      BY <2>3, <3>1
    <3>. QED BY <2>2, <2>3, <3>2, <3>3
  <2>5. Px(l, 0, 0) = l.ax /\ Py(l, 0, 0) = l.ay
    BY DEF Px, Py, Line
  <2>. QED BY <2>1, <2>4, <2>5
<1>. QED BY <1>1, <1>3, <1>7, <1>8
-----------------------------------------------------------------------------
(* Lines: the loop *)

LineOf(a, b) ==
  LET dx == Abs(b.x - a.x)
      dy == Abs(b.y - a.y)
  IN  [ax |-> a.x, ay |-> a.y, sx |-> IF a.x > b.x THEN -1 ELSE 1, sy |-> IF a.y > b.y THEN -1 ELSE 1,
       xm |-> dx > dy, major |-> IF dx > dy THEN dx ELSE dy, minor |-> IF dx > dy THEN dy ELSE dx]

LEMMA AbsNat == ASSUME NEW v \in Int PROVE Abs(v) \in Nat
  BY DEF Abs

LEMMA LineOfIs ==
  ASSUME NEW a \in ScreenPoints, NEW b \in ScreenPoints, NEW l, l = LineOf(a, b)
  PROVE  /\ Line(l) /\ Px(l, l.major, l.minor) = b.x /\ Py(l, l.major, l.minor) = b.y
         /\ l.ax = a.x /\ l.ay = a.y
         /\ \A k \in 0 .. l.major, m \in 0 .. l.minor : Px(l, k, m) \in 0 .. FB_W - 1 /\ Py(l, k, m) \in 0 .. DISP_H - 1
<1>1. PICK ax, ay, bx, by \in Int : ax = a.x /\ ay = a.y /\ bx = b.x /\ by = b.y
  BY DEF ScreenPoints
<1>2. PICK dx, dy \in Nat : dx = Abs(bx - ax) /\ dy = Abs(by - ay)
  <2>1. bx - ax \in Int /\ by - ay \in Int
    OBVIOUS
  <2>. QED BY <2>1, AbsNat
<1>3. l = [ax |-> ax, ay |-> ay, sx |-> IF ax > bx THEN -1 ELSE 1, sy |-> IF ay > by THEN -1 ELSE 1,
           xm |-> dx > dy, major |-> IF dx > dy THEN dx ELSE dy, minor |-> IF dx > dy THEN dy ELSE dx]
  BY <1>1, <1>2 DEF LineOf
<1>4. /\ l.ax = ax /\ l.ay = ay /\ l.sx = (IF ax > bx THEN -1 ELSE 1) /\ l.sy = (IF ay > by THEN -1 ELSE 1)
      /\ l.xm = (dx > dy) /\ l.major = (IF dx > dy THEN dx ELSE dy) /\ l.minor = (IF dx > dy THEN dy ELSE dx)
  BY <1>3
<1>5. Line(l)
  BY <1>4 DEF Line
<1>6. (IF ax > bx THEN -1 ELSE 1) * dx = bx - ax /\ (IF ay > by THEN -1 ELSE 1) * dy = by - ay
  BY <1>2 DEF Abs
<1>7. Px(l, l.major, l.minor) = bx /\ Py(l, l.major, l.minor) = by
  <2>1. (IF l.xm THEN l.major ELSE l.minor) = dx /\ (IF l.xm THEN l.minor ELSE l.major) = dy
    BY <1>4
  <2>2. Px(l, l.major, l.minor) = ax + (IF ax > bx THEN -1 ELSE 1) * dx
    BY <1>4, <2>1 DEF Px
  <2>3. Py(l, l.major, l.minor) = ay + (IF ay > by THEN -1 ELSE 1) * dy
    BY <1>4, <2>1 DEF Py
  <2>. QED BY <1>6, <2>2, <2>3
<1>8. ax \in 0 .. FB_W - 1 /\ bx \in 0 .. FB_W - 1 /\ ay \in 0 .. DISP_H - 1 /\ by \in 0 .. DISP_H - 1
  BY <1>1 DEF ScreenPoints
<1>9. ASSUME NEW k \in 0 .. l.major, NEW m \in 0 .. l.minor
      PROVE  Px(l, k, m) \in 0 .. FB_W - 1 /\ Py(l, k, m) \in 0 .. DISP_H - 1
  <2>1. PICK i, j : i = (IF l.xm THEN k ELSE m) /\ j = (IF l.xm THEN m ELSE k)
    OBVIOUS
  <2>2. i \in 0 .. dx /\ j \in 0 .. dy
    BY <1>4, <2>1
  <2>3. ax + (IF ax > bx THEN -1 ELSE 1) * i \in 0 .. FB_W - 1
    BY <1>2, <1>8, <2>2, SizeAssumption DEF Abs
  <2>4. ay + (IF ay > by THEN -1 ELSE 1) * j \in 0 .. DISP_H - 1
    BY <1>2, <1>8, <2>2, SizeAssumption DEF Abs
  <2>5. Px(l, k, m) = ax + (IF ax > bx THEN -1 ELSE 1) * i /\ Py(l, k, m) = ay + (IF ay > by THEN -1 ELSE 1) * j
    BY <1>4, <2>1 DEF Px, Py
  <2>. QED BY <2>3, <2>4, <2>5
<1>. QED BY <1>1, <1>4, <1>5, <1>7, <1>9

\* The loop's state s is at step k of the line.
Reached(l, k, s) ==
  \E m : /\ Near(l, k, m)
         /\ s.x = Px(l, k, m) /\ s.y = Py(l, k, m)
         /\ s.d = 2 * (l.minor * k - l.major * m) + 2 * l.minor - l.major

Octant(l) == [ydec |-> l.sy = -1, xdec |-> l.sx = -1, xmajor |-> l.xm]

Increments(l) == <<2 * l.minor, 2 * (l.minor - l.major)>>

LEMMA LineStep ==
  ASSUME NEW l, Line(l), NEW k \in 0 .. l.major - 1, NEW s, Reached(l, k, s)
  PROVE  Reached(l, k + 1, NextPoint(Bres(Octant(l)), Increments(l), 1, s))
<1>1. PICK m : /\ Near(l, k, m) /\ s.x = Px(l, k, m) /\ s.y = Py(l, k, m)
               /\ s.d = 2 * (l.minor * k - l.major * m) + 2 * l.minor - l.major
  BY DEF Reached
<1>2. PICK A, B \in Nat : A = l.major /\ B = l.minor
  BY DEF Line
<1>3. m \in Int /\ k \in Int
  BY <1>1, <1>2 DEF Near
<1>4. PICK ax, ay \in Int, u, v \in {1, -1} : ax = l.ax /\ ay = l.ay /\ u = l.sx /\ v = l.sy
  BY DEF Line
<1>5. PICK bi : bi = Bres(Octant(l))
  OBVIOUS
<1>6. /\ bi.x1 = (IF l.xm THEN u ELSE 0) /\ bi.x2 = u
      /\ bi.y1 = (IF l.xm THEN 0 ELSE -v) /\ bi.y2 = -v
  <2>1. PICK x, y : x = (IF u = -1 THEN -1 ELSE 1) /\ y = (IF v = -1 THEN 1 ELSE -1)
    OBVIOUS
  <2>2. x = u /\ y = -v
    BY <2>1
  <2>3. bi = IF l.xm THEN [x1 |-> x, x2 |-> x, y1 |-> 0, y2 |-> y] ELSE [x1 |-> 0, x2 |-> x, y1 |-> y, y2 |-> y]
    BY <1>4, <1>5, <2>1 DEF Bres, Octant
  <2>4. CASE l.xm
    <3>1. bi = [x1 |-> x, x2 |-> x, y1 |-> 0, y2 |-> y]
      BY <2>3, <2>4
    <3>. QED BY <2>2, <2>4, <3>1
  <2>5. CASE ~l.xm
    <3>1. bi = [x1 |-> 0, x2 |-> x, y1 |-> y, y2 |-> y]
      BY <2>3, <2>5
    <3>. QED BY <2>2, <2>5, <3>1
  <2>. QED BY <2>4, <2>5
<1>7. PICK t : t = NextPoint(bi, Increments(l), 1, s)
  OBVIOUS
<1>8. /\ t.x = s.x + (IF s.d < 0 THEN bi.x1 ELSE bi.x2)
      /\ t.y = s.y - (IF s.d < 0 THEN bi.y1 ELSE bi.y2)
      /\ t.d = s.d + (IF s.d < 0 THEN 2 * B ELSE 2 * (B - A))
  BY <1>2, <1>7 DEF NextPoint, Increments
<1>9. PICK p, q \in Int : p = B * k /\ q = A * m
  BY <1>2, <1>3
<1>10. B * (k + 1) = p + B /\ A * (m + 1) = q + A
  BY <1>3, <1>9, OneMore
<1>15. /\ u * (k + 1) = u * k + u /\ u * (m + 1) = u * m + u /\ v * (k + 1) = v * k + v /\ v * (m + 1) = v * m + v
       /\ u * k \in Int /\ u * m \in Int /\ v * k \in Int /\ v * m \in Int
  <2>1. u \in Int /\ v \in Int
    OBVIOUS
  <2>. QED BY <1>3, <2>1, OneMore
<1>11. s.d = 2 * (p - q) + 2 * B - A
  BY <1>1, <1>2, <1>9
<1>12. CASE s.d < 0
  <2>1. Near(l, k + 1, m)
    BY <1>1, <1>12, NearNext
  <2>2. t.x = Px(l, k + 1, m) /\ t.y = Py(l, k + 1, m)
    <3>1. t.x = s.x + (IF l.xm THEN u ELSE 0) /\ t.y = s.y + (IF l.xm THEN 0 ELSE v)
      <4>1. s.y \in Int
        BY <1>1, <1>4, <1>15 DEF Py
      <4>. QED BY <1>6, <1>8, <1>12, <4>1
    <3>2. CASE l.xm
      BY <1>1, <1>4, <1>15, <3>1, <3>2 DEF Px, Py
    <3>3. CASE ~l.xm
      BY <1>1, <1>4, <1>15, <3>1, <3>3 DEF Px, Py
    <3>. QED BY <3>2, <3>3
  <2>3. t.d = 2 * ((p + B) - q) + 2 * B - A
    BY <1>2, <1>8, <1>9, <1>11, <1>12
  <2>4. t.d = 2 * (l.minor * (k + 1) - l.major * m) + 2 * l.minor - l.major
    BY <1>2, <1>9, <1>10, <2>3
  <2>. QED BY <1>5, <1>7, <2>1, <2>2, <2>4 DEF Reached
<1>13. CASE ~(s.d < 0)
  <2>1. Near(l, k + 1, m + 1)
    <3>1. s.d >= 0
      BY <1>2, <1>9, <1>11, <1>13
    <3>. QED BY <1>1, <3>1, NearNext
  <2>2. t.x = Px(l, k + 1, m + 1) /\ t.y = Py(l, k + 1, m + 1)
    <3>1. t.x = s.x + (IF l.xm THEN u ELSE u) /\ t.y = s.y + (IF l.xm THEN v ELSE v)
      <4>1. s.y \in Int
        BY <1>1, <1>4, <1>15 DEF Py
      <4>. QED BY <1>6, <1>8, <1>13, <4>1
    <3>2. CASE l.xm
      BY <1>1, <1>4, <1>15, <3>1, <3>2 DEF Px, Py
    <3>3. CASE ~l.xm
      BY <1>1, <1>4, <1>15, <3>1, <3>3 DEF Px, Py
    <3>. QED BY <3>2, <3>3
  <2>3. t.d = 2 * ((p + B) - (q + A)) + 2 * B - A
    BY <1>2, <1>8, <1>9, <1>11, <1>13
  <2>4. t.d = 2 * (l.minor * (k + 1) - l.major * (m + 1)) + 2 * l.minor - l.major
    BY <1>2, <1>9, <1>10, <2>3
  <2>. QED BY <1>5, <1>7, <2>1, <2>2, <2>4 DEF Reached
<1>. QED BY <1>12, <1>13

\* The n turns at of the loop from s0: the pixels drawn, and where it is at each.
LineWalked(l, s0, n) ==
  \E at : /\ Walk(Bres(Octant(l)), Increments(l), 1, s0, n) = at[n]
          /\ Inked(at[n].e) /\ Dots(at[n].e) = {<<at[i].x, at[i].y>> : i \in 0 .. n - 1}
          /\ \A i \in 0 .. n - 1 : Reached(l, i, at[i])

LEMMA LineWalk ==
  ASSUME NEW a \in ScreenPoints, NEW b \in ScreenPoints, NEW l, l = LineOf(a, b),
         NEW e, Inked(e), Dots(e) = {}, NEW n \in Nat, n = (IF l.major > 1 THEN l.major ELSE 1),
         NEW s0, s0 = [e |-> e, x |-> l.ax, y |-> l.ay, d |-> 2 * l.minor - l.major]
  PROVE  LineWalked(l, s0, n)
<1> DEFINE bi == Bres(Octant(l))
           inc == Increments(l)
<1>1. Line(l) /\ l.major \in Nat
  BY LineOfIs DEF Line
<1>2. PICK at : WalkRun(bi, inc, 1, s0, n, at) /\ Walk(bi, inc, 1, s0, n) = at[n]
  BY WalkIs
<1>3. at[0] = s0 /\ \A k \in 0 .. n - 1 : at[k + 1] = NextPoint(bi, inc, 1, at[k])
  <2>1. WalkTurned(bi, inc, 1, s0, n, at)
    BY <1>2, WalkTurns
  <2>. QED BY <2>1 DEF WalkTurned, WalkNext
<1> HIDE DEF bi, inc
<1> DEFINE Q == {i \in 0 .. n - 1 : Reached(l, i, at[i])}
<1>4. \A i \in 0 .. n - 1 : Reached(l, i, at[i])
  <2>1. 0 \in Q
    <3>1. Near(l, 0, 0)
      BY <1>1, NearFirst
    <3>2. s0.x = Px(l, 0, 0) /\ s0.y = Py(l, 0, 0) /\ s0.d = 2 * (l.minor * 0 - l.major * 0) + 2 * l.minor - l.major
      BY <1>1 DEF Line, Px, Py
    <3>. QED BY <1>1, <1>3, <3>1, <3>2 DEF Reached
  <2>2. ASSUME NEW k \in 0 .. (n - 1) - 1, k \in Q PROVE k + 1 \in Q
    <3>1. k \in 0 .. n - 1 /\ k \in 0 .. l.major - 1 /\ k + 1 \in 0 .. n - 1
      BY <1>1
    <3>2. Reached(l, k, at[k])
      BY <2>2
    <3>. QED BY <1>1, <1>3, <3>1, <3>2, LineStep DEF bi, inc
  <2>3. n - 1 \in Nat
    BY <1>1
  <2>4. \A i \in 0 .. n - 1 : i \in Q
    <3> HIDE DEF Q
    <3>. QED BY <2>1, <2>2, <2>3, UpTo
  <2>. QED BY <2>4
<1>5. ASSUME NEW i \in 0 .. n - 1 PROVE at[i].x \in 0 .. FB_W - 1 /\ at[i].y \in 0 .. DISP_H - 1
  <2>1. PICK m : Near(l, i, m) /\ at[i].x = Px(l, i, m) /\ at[i].y = Py(l, i, m)
    BY <1>4 DEF Reached
  <2>2. m \in 0 .. l.minor /\ i \in 0 .. l.major
    BY <1>1, <2>1 DEF Near
  <2>. QED BY <2>1, <2>2, LineOfIs
<1> DEFINE D(k) == {<<at[i].x, at[i].y>> : i \in 0 .. k - 1}
           V == {k \in 0 .. n : Inked(at[k].e) /\ Dots(at[k].e) = D(k)}
<1>6. 0 \in V
  <2>1. at[0].e = e /\ D(0) = {}
    BY <1>3
  <2>. QED BY <2>1
<1>7. ASSUME NEW k \in 0 .. n - 1, k \in V PROVE k + 1 \in V
  <2>1. PICK s : s = at[k]
    OBVIOUS
  <2>2. PICK x, y : x = s.x /\ y = s.y
    OBVIOUS
  <2>3. x \in 0 .. FB_W - 1 /\ y \in 0 .. DISP_H - 1 /\ Inked(s.e) /\ Dots(s.e) = D(k)
    BY <1>5, <1>7, <2>1, <2>2
  <2>4. I16(x \div 1) = x /\ I16(y \div 1) = y
    <3>1. x \div 1 = x /\ y \div 1 = y /\ x \in Int /\ y \in Int /\ x \in Coords /\ y \in Coords
      BY <2>3, ScreenAssumption, SizeAssumption DEF Coords
    <3>. QED BY <3>1, I16At
  <2>5. at[k + 1].e = Plot(s.e, x, y)
    <3>1. PICK t : t = NextPoint(bi, inc, 1, s)
      OBVIOUS
    <3>2. t.e = Plot(s.e, I16(s.x \div 1), I16(s.y \div 1))
      BY <3>1 DEF NextPoint
    <3>3. at[k + 1] = t
      BY <1>3, <2>1, <3>1
    <3>. QED BY <2>2, <2>4, <3>2, <3>3
  <2>6. Inked(at[k + 1].e) /\ Dots(at[k + 1].e) = D(k) \cup {<<x, y>>}
    BY <2>3, <2>5, InkPlot
  <2>7. D(k + 1) = D(k) \cup {<<at[k].x, at[k].y>>}
    <3>1. 0 .. (k + 1) - 1 = (0 .. k - 1) \cup {k}
      OBVIOUS
    <3>. QED BY <3>1
  <2>8. k + 1 \in 0 .. n
    OBVIOUS
  <2> HIDE DEF D
  <2>. QED BY <2>1, <2>2, <2>6, <2>7, <2>8
<1>8. n \in V
  <2>1. \A k \in 0 .. n : k \in V
    <3> HIDE DEF V
    <3>. QED BY <1>6, <1>7, UpTo
  <2>. QED BY <2>1
<1>9. Inked(at[n].e) /\ Dots(at[n].e) = {<<at[i].x, at[i].y>> : i \in 0 .. n - 1}
  BY <1>8
<1>. QED BY <1>2, <1>4, <1>9 DEF bi, inc, LineWalked
-----------------------------------------------------------------------------
(* Lines: the command *)

\* What the pixels of a finished line are.
IsLine(l, S) ==
  \E q : /\ S = {q[i] : i \in 0 .. l.major}
         /\ \A i \in 0 .. l.major : \E m : Near(l, i, m) /\ q[i] = <<Px(l, i, m), Py(l, i, m)>>
         /\ q[l.major] = <<Px(l, l.major, l.minor), Py(l, l.major, l.minor)>>

\* The loop and the last pixel after it draw the line.
LEMMA LineOfLoop ==
  ASSUME NEW l, Line(l), NEW n, n = (IF l.major > 1 THEN l.major ELSE 1),
         NEW at, \A i \in 0 .. n - 1 : Reached(l, i, at[i])
  PROVE  IsLine(l, {<<at[i].x, at[i].y>> : i \in 0 .. n - 1} \cup {<<Px(l, l.major, l.minor), Py(l, l.major, l.minor)>>})
<1>1. PICK A, B \in Nat : A = l.major /\ B = l.minor /\ B <= A
  BY DEF Line
<1>2. PICK last : last = <<Px(l, A, B), Py(l, A, B)>>
  OBVIOUS
<1>3. PICK q : q = [i \in 0 .. A |-> IF i = A THEN last ELSE <<at[i].x, at[i].y>>]
  OBVIOUS
<1>4. ASSUME NEW i \in 0 .. n - 1 PROVE \E m : Near(l, i, m) /\ <<at[i].x, at[i].y>> = <<Px(l, i, m), Py(l, i, m)>>
  BY DEF Reached
<1>5. q[A] = last
  BY <1>1, <1>3
<1>6. ASSUME NEW i \in 0 .. A PROVE \E m : Near(l, i, m) /\ q[i] = <<Px(l, i, m), Py(l, i, m)>>
  <2>1. CASE i = A
    <3>1. Near(l, A, B)
      BY <1>1, NearLast
    <3>. QED BY <1>2, <1>5, <2>1, <3>1
  <2>2. CASE i # A
    <3>1. i \in 0 .. n - 1 /\ q[i] = <<at[i].x, at[i].y>>
      BY <1>1, <1>3, <2>2
    <3>. QED BY <1>4, <3>1
  <2>. QED BY <2>1, <2>2
<1>7. {<<at[i].x, at[i].y>> : i \in 0 .. n - 1} \cup {last} = {q[i] : i \in 0 .. A}
  <2>1. CASE A > 0
    <3>1. 0 .. A = (0 .. n - 1) \cup {A} /\ A \notin 0 .. n - 1
      BY <1>1, <2>1
    <3>2. \A i \in 0 .. n - 1 : q[i] = <<at[i].x, at[i].y>>
      BY <1>3, <3>1
    <3>. QED BY <1>5, <3>1, <3>2
  <2>2. CASE A = 0
    <3>1. n = 1 /\ B = 0 /\ 0 .. n - 1 = {0} /\ 0 .. A = {0}
      BY <1>1, <2>2
    <3>2. PICK m : Near(l, 0, m) /\ <<at[0].x, at[0].y>> = <<Px(l, 0, m), Py(l, 0, m)>>
      BY <1>4, <3>1
    <3>3. m = 0
      BY <1>1, <3>1, <3>2 DEF Near
    <3>4. <<at[0].x, at[0].y>> = last
      BY <1>2, <2>2, <3>1, <3>2, <3>3
    <3>. QED BY <1>5, <2>2, <3>1, <3>4
  <2>. QED BY <1>1, <2>1, <2>2
<1>. QED BY <1>1, <1>2, <1>5, <1>6, <1>7 DEF IsLine

\* The comparison of coordinates in sixteenths is the one of pixels.
LEMMA LineSetup ==
  ASSUME NEW a \in ScreenPoints, NEW b \in ScreenPoints, NEW l, l = LineOf(a, b), NEW e, Engine(e),
         e.xs = 16 * a.x, e.ys = 16 * a.y, e.xe = 16 * b.x, e.ye = 16 * b.y
  PROVE  do_setup(e) = [e EXCEPT !.oct = Octant(l)]
<1>1. PICK ax, ay, bx, by \in Int : ax = a.x /\ ay = a.y /\ bx = b.x /\ by = b.y
  BY DEF ScreenPoints
<1>2. l.sx = (IF ax > bx THEN -1 ELSE 1) /\ l.sy = (IF ay > by THEN -1 ELSE 1) /\ l.xm = (Abs(bx - ax) > Abs(by - ay))
  BY <1>1 DEF LineOf
<1>3. (l.sy = -1) = (16 * ay > 16 * by) /\ (l.sx = -1) = (16 * ax > 16 * bx)
  BY <1>2
<1>4. l.xm = (Abs(16 * ax - 16 * bx) > Abs(16 * ay - 16 * by))
  BY <1>2 DEF Abs
<1>5. Octant(l) = [ydec |-> e.ys > e.ye, xdec |-> e.xs > e.xe, xmajor |-> Abs(e.xs - e.xe) > Abs(e.ys - e.ye)]
  BY <1>1, <1>3, <1>4 DEF Octant
<1>. QED BY <1>5 DEF do_setup

LEMMA LineCommand ==
  ASSUME NEW a \in ScreenPoints, NEW b \in ScreenPoints, NEW l, l = LineOf(a, b), NEW e, Inked(e), Dots(e) = {},
         e.xs = 16 * a.x, e.ys = 16 * a.y, e.xe = 16 * b.x, e.ye = 16 * b.y
  PROVE  /\ IsLine(l, Dots(do_command(e)))
         /\ Whole(do_command(e).xs) = b.x /\ Whole(do_command(e).ys) = b.y
<1>1. PICK ax, ay, bx, by \in Coords : ax = a.x /\ ay = a.y /\ bx = b.x /\ by = b.y
  BY ScreenAssumption, SizeAssumption DEF ScreenPoints, Coords
<1>2. Engine(e) /\ e.m0 = LineMode0
  BY DEF Inked
<1>3. PICK o : o = Octant(l)
  OBVIOUS
<1>4. PICK g : g = [e EXCEPT !.oct = o, !.pixels = 0]
  OBVIOUS
<1>5. do_command(e) = do_iline(g)
  <2>1. PICK h : h = do_setup(e)
    OBVIOUS
  <2>2. h = [e EXCEPT !.oct = o]
    BY <1>2, <1>3, <2>1, LineSetup
  <2>3. [h EXCEPT !.pixels = 0] = g
    BY <1>2, <1>4, <2>2 DEF Engine, EngineFields
  <2>4. e.m0.setup /\ e.m0.op = "draw" /\ e.m0.adr = "iline"
    BY <1>2 DEF LineMode0, Mode0
  <2>5. g.m0 = e.m0
    BY <1>2, <1>4 DEF Engine, EngineFields
  <2>. QED BY <2>1, <2>3, <2>4, <2>5 DEF do_command
<1>6. /\ g = [k \in EngineFields |-> IF k = "oct" THEN o ELSE IF k = "pixels" THEN 0 ELSE e[k]]
      /\ g.oct = o /\ g.pixels = 0 /\ \A k \in EngineFields \ {"oct", "pixels"} : g[k] = e[k]
  <2>1. g = [k \in EngineFields |-> IF k = "oct" THEN o ELSE IF k = "pixels" THEN 0 ELSE e[k]]
    BY <1>2, <1>4 DEF Engine, EngineFields
  <2>. QED BY <2>1 DEF EngineFields
<1>7. /\ g.m0 = e.m0 /\ g.m1 = e.m1 /\ g.xs = e.xs /\ g.ys = e.ys /\ g.xe = e.xe /\ g.ye = e.ye /\ g.fb = e.fb
      /\ g.x_save = e.x_save /\ g.window = e.window /\ g.smask = e.smask /\ g.color = e.color /\ g.curr = e.curr
      /\ g.slope = e.slope /\ g.rb = e.rb /\ g.color_i = e.color_i /\ g.clip_mode = e.clip_mode
  BY <1>6 DEF EngineFields
<1>8. Engine(g)
  <2>1. g = [k \in EngineFields |-> g[k]]
    BY <1>6
  <2>. QED BY <1>2, <1>6, <1>7, <2>1 DEF Engine
<1>9. Inked(g) /\ Dots(g) = {}
  BY <1>7, <1>8 DEF Inked, Dots
<1>10. /\ Line(l) /\ Px(l, l.major, l.minor) = bx /\ Py(l, l.major, l.minor) = by /\ l.ax = ax /\ l.ay = ay
  BY <1>1, LineOfIs
<1>11. PICK A, B \in Nat : A = l.major /\ B = l.minor
  BY <1>10 DEF Line
<1>12. PICK n \in Nat : n = IF A > 1 THEN A ELSE 1
  OBVIOUS
<1>13. PICK s0 : s0 = [e |-> g, x |-> ax, y |-> ay, d |-> 2 * B - A]
  OBVIOUS
<1>14. PICK at : /\ Walk(Bres(Octant(l)), Increments(l), 1, s0, n) = at[n]
                 /\ Inked(at[n].e) /\ Dots(at[n].e) = {<<at[i].x, at[i].y>> : i \in 0 .. n - 1}
                 /\ \A i \in 0 .. n - 1 : Reached(l, i, at[i])
  <2>1. n = (IF l.major > 1 THEN l.major ELSE 1)
    BY <1>11, <1>12
  <2>2. s0 = [e |-> g, x |-> l.ax, y |-> l.ay, d |-> 2 * l.minor - l.major]
    BY <1>10, <1>11, <1>13
  <2>3. LineWalked(l, s0, n)
    BY <1>9, <2>1, <2>2, LineWalk
  <2>. QED BY <2>3 DEF LineWalked
<1>15. PICK w : w = at[n]
  OBVIOUS
<1>16. PICK p : p = Plot(w.e, bx, by)
  OBVIOUS
<1>17. do_iline(g) = write_start(p, 16 * bx, 16 * by)
  <2>1. Whole(g.xs) = ax /\ Whole(g.ys) = ay /\ Whole(g.xe) = bx /\ Whole(g.ye) = by
    BY <1>1, <1>7, PlaceAt
  <2>2. l.major = (IF l.xm THEN Abs(bx - ax) ELSE Abs(by - ay)) /\ l.minor = (IF l.xm THEN Abs(by - ay) ELSE Abs(bx - ax))
    BY <1>1 DEF LineOf
  <2>3. A = (IF o.xmajor THEN Abs(bx - ax) ELSE Abs(by - ay)) /\ B = (IF o.xmajor THEN Abs(by - ay) ELSE Abs(bx - ax))
    BY <1>3, <1>11, <2>2 DEF Octant
  <2>4. ~IterateOne(g) /\ ~g.m0.skip_last /\ ~g.m0.skip_first /\ ~g.m0.len32
    BY <1>2, <1>7 DEF IterateOne, LineMode0, Mode0
  <2>5. LoopCount(g, A) = n
    BY <1>12, <2>4 DEF LoopCount, Limit
  <2>6. Walk(Bres(g.oct), <<2 * B, 2 * (B - A)>>, 1, s0, n) = w
    BY <1>3, <1>6, <1>11, <1>14, <1>15 DEF Increments
  <2>. QED BY <1>6, <1>13, <1>16, <2>1, <2>3, <2>4, <2>5, <2>6 DEF do_iline
<1>18. bx \in 0 .. FB_W - 1 /\ by \in 0 .. DISP_H - 1
  BY <1>1 DEF ScreenPoints
<1>19. Inked(p) /\ Dots(p) = Dots(w.e) \cup {<<bx, by>>}
  BY <1>14, <1>15, <1>16, <1>18, InkPlot
<1>20. IsLine(l, Dots(p))
  <2>1. n = (IF l.major > 1 THEN l.major ELSE 1)
    BY <1>11, <1>12
  <2>2. Dots(p) = {<<at[i].x, at[i].y>> : i \in 0 .. n - 1} \cup {<<Px(l, l.major, l.minor), Py(l, l.major, l.minor)>>}
    BY <1>10, <1>14, <1>15, <1>19
  <2>3. \A i \in 0 .. n - 1 : Reached(l, i, at[i])
    BY <1>14
  <2>. QED BY <1>10, <2>1, <2>2, <2>3, LineOfLoop
<1>21. PICK f : f = do_command(e)
  OBVIOUS
<1>22. f.xs = 16 * bx /\ f.ys = 16 * by /\ f.fb = p.fb
  <2>1. f = [p EXCEPT !.xs = Sext20(16 * bx), !.ys = Sext20(16 * by)]
    BY <1>5, <1>17, <1>21 DEF write_start
  <2>2. p = [k \in EngineFields |-> p[k]]
    BY <1>19 DEF Inked, Engine
  <2>3. f.xs = Sext20(16 * bx) /\ f.ys = Sext20(16 * by) /\ f.fb = p.fb
    BY <2>1, <2>2 DEF EngineFields
  <2>. QED BY <2>3, PlaceAt
<1>23. Dots(f) = Dots(p)
  BY <1>22 DEF Dots
<1>. QED BY <1>1, <1>20, <1>21, <1>22, <1>23, PlaceAt
-----------------------------------------------------------------------------
(* Lines: the program *)

LEMMA WriteKeeps ==
  ASSUME NEW e, Engine(e), NEW reg, NEW v, GoodWrite(reg, v)
  PROVE  Engine(EngineWrite(e, reg, v))
<1>1. PICK f : f = [e EXCEPT !.scalar = TRUE]
  OBVIOUS
<1>2. Twin(e, f)
  BY <1>1 DEF Twin
<1>3. Twin(EngineWrite(e, reg, v), EngineWrite(f, reg, v))
  BY <1>2, TwinEngineWrite
<1>. QED BY <1>3 DEF Twin

\* The engine before access k of the program of a line from a.
LineReady(a, k, e) ==
  /\ Engine(e)
  /\ e.window = [x |-> Bias, y |-> Bias] /\ e.clip_mode = {} /\ e.rb.global_mask = Planes /\ Dots(e) = {}
  /\ k > 1 => e.m1 = LineMode1 /\ LinePlanes(e.rb)
  /\ k > 2 => e.rb.write_mask = Bits24
  /\ k > 3 => e.color_i = {0}
  /\ k > 4 => e.m0 = LineMode0
  /\ k > 5 => e.xs = 16 * a.x /\ e.ys = 16 * a.y

LEMMA ReadyFirst == ASSUME NEW a PROVE LineReady(a, 1, NewEngine(FALSE, Planes))
<1>1. PICK e : e = NewEngine(FALSE, Planes)
  OBVIOUS
<1>2. Engine(e)
  BY <1>1, NewEngineIs DEF Twin
<1>3. e.window = [x |-> Bias, y |-> Bias] /\ e.clip_mode = {} /\ e.fb = [d \in {"rgbci", "cidaux"} |-> [p \in FbXY |-> {}]]
  BY <1>1 DEF NewEngine
<1>4. e.rb.global_mask = Planes
  <2>1. PICK b : b = [fast_clear |-> FALSE, plane |-> 0, depth |-> 0, logicop |-> 0, src_shift |-> 0,
                      dest |-> "rgbci", write_mask |-> {}, global_mask |-> Planes]
    OBVIOUS
  <2>2. e.rb = rb_set_flags(b, Mode1)
    BY <1>1, <2>1 DEF NewEngine
  <2>. QED BY <2>1, <2>2 DEF rb_set_flags
<1>5. Dots(e) = {}
  BY <1>3 DEF Dots
<1>6. LineReady(a, 1, e)
  BY <1>2, <1>3, <1>4, <1>5 DEF LineReady
<1>. QED BY <1>1, <1>6

LEMMA ReadyMode1 ==
  ASSUME NEW a, NEW e, LineReady(a, 1, e)
  PROVE  LineReady(a, 2, EngineWrite(e, "draw_mode1", LineMode1))
<1>1. PICK g : g = EngineWrite(e, "draw_mode1", LineMode1)
  OBVIOUS
<1>2. Engine(e)
  BY DEF LineReady
<1>3. Engine(g)
  <2>1. GoodWrite("draw_mode1", LineMode1)
    BY DEF GoodWrite, LineMode1, Mode1
  <2>. QED BY <1>1, <1>2, <2>1, WriteKeeps
<1>4. PICK r : r = rb_set_flags(e.rb, LineMode1)
  OBVIOUS
<1>5. g = [e EXCEPT !.m1 = LineMode1, !.host_shift = 64 - HostShift(LineMode1.hostdepth), !.rb = r]
  BY <1>1, <1>4, WriteDrawMode1 DEF DrawMode1
<1>6. g.m1 = LineMode1 /\ g.rb = r /\ g.window = e.window /\ g.clip_mode = e.clip_mode /\ g.fb = e.fb
  BY <1>2, <1>5 DEF Engine, EngineFields
<1>7. LinePlanes(r) /\ r.global_mask = e.rb.global_mask
  <2>1. /\ LineMode1.fastclear = FALSE /\ LineMode1.plane = 1 /\ LineMode1.depth = 1 /\ LineMode1.logicop = 3
    BY DEF LineMode1, Mode1
  <2>2. PICK s : s = SrcShift(LineMode1.plane, LineMode1.depth, LineMode1.dblsrc)
    OBVIOUS
  <2>3. PICK d : d = (CASE LineMode1.plane \in {1, 2} -> "rgbci" [] LineMode1.plane \in {4, 5, 6} -> "cidaux" [] OTHER -> e.rb.dest)
    OBVIOUS
  <2>4. r = [e.rb EXCEPT !.fast_clear = LineMode1.fastclear, !.plane = LineMode1.plane, !.depth = LineMode1.depth,
                         !.logicop = LineMode1.logicop, !.src_shift = s, !.dest = d]
    BY <1>4, <2>2, <2>3 DEF rb_set_flags
  <2>5. d = "rgbci"
    BY <2>1, <2>3
  <2>6. e.rb = [f \in RbFields |-> e.rb[f]]
    BY <1>2 DEF Engine
  <2>. QED BY <2>1, <2>4, <2>5, <2>6 DEF LinePlanes, RbFields
<1>8. Dots(g) = Dots(e)
  BY <1>6 DEF Dots
<1>. QED BY <1>1, <1>3, <1>6, <1>7, <1>8 DEF LineReady

LEMMA ReadyMask ==
  ASSUME NEW a, NEW e, LineReady(a, 2, e)
  PROVE  LineReady(a, 3, EngineWrite(e, "write_mask", Bits24))
<1>1. PICK g : g = EngineWrite(e, "write_mask", Bits24)
  OBVIOUS
<1>2. Engine(e) /\ LinePlanes(e.rb)
  BY DEF LineReady
<1>3. Engine(g)
  <2>1. GoodWrite("write_mask", Bits24)
    BY DEF GoodWrite
  <2>. QED BY <1>1, <1>2, <2>1, WriteKeeps
<1>4. PICK r : r = [e.rb EXCEPT !.write_mask = Bits24]
  OBVIOUS
<1>5. g = [e EXCEPT !.rb = r]
  BY <1>1, <1>2, <1>4, WriteWriteMask DEF Engine, EngineFields
<1>6. g.rb = r /\ g.m1 = e.m1 /\ g.window = e.window /\ g.clip_mode = e.clip_mode /\ g.fb = e.fb
  BY <1>2, <1>5 DEF Engine, EngineFields
<1>7. LinePlanes(r) /\ r.global_mask = e.rb.global_mask /\ r.write_mask = Bits24
  <2>1. e.rb = [f \in RbFields |-> e.rb[f]]
    BY <1>2 DEF Engine
  <2>. QED BY <1>2, <1>4, <2>1 DEF LinePlanes, RbFields
<1>8. Dots(g) = Dots(e)
  BY <1>6 DEF Dots
<1>. QED BY <1>1, <1>3, <1>6, <1>7, <1>8 DEF LineReady

LEMMA ReadyColor ==
  ASSUME NEW a, NEW e, LineReady(a, 3, e)
  PROVE  LineReady(a, 4, EngineWrite(e, "color_i", {0}))
<1>1. PICK g : g = EngineWrite(e, "color_i", {0})
  OBVIOUS
<1>2. Engine(e) /\ e.m1 = LineMode1
  BY DEF LineReady
<1>3. Engine(g)
  <2>1. GoodWrite("color_i", {0})
    BY DEF GoodWrite
  <2>. QED BY <1>1, <1>2, <2>1, WriteKeeps
<1>4. g = [e EXCEPT !.color_i = {0}]
  <2>1. ~e.m1.rgb
    BY <1>2 DEF LineMode1, Mode1
  <2>2. g = ColorIndex(e, {0})
    BY <1>1, WriteColorI
  <2>. QED BY <2>1, <2>2 DEF ColorIndex
<1>5. /\ g.color_i = {0} /\ g.rb = e.rb /\ g.m1 = e.m1 /\ g.window = e.window /\ g.clip_mode = e.clip_mode /\ g.fb = e.fb
  BY <1>2, <1>4 DEF Engine, EngineFields
<1>6. Dots(g) = Dots(e)
  BY <1>5 DEF Dots
<1>. QED BY <1>1, <1>3, <1>5, <1>6 DEF LineReady

LEMMA ReadyMode0 ==
  ASSUME NEW a, NEW e, LineReady(a, 4, e)
  PROVE  LineReady(a, 5, EngineWrite(e, "draw_mode0", LineMode0))
<1>1. PICK g : g = EngineWrite(e, "draw_mode0", LineMode0)
  OBVIOUS
<1>2. Engine(e)
  BY DEF LineReady
<1>3. Engine(g)
  <2>1. GoodWrite("draw_mode0", LineMode0)
    BY DEF GoodWrite
  <2>. QED BY <1>1, <1>2, <2>1, WriteKeeps
<1>4. g = [e EXCEPT !.m0 = LineMode0]
  BY <1>1, WriteDrawMode0 DEF Set
<1>5. /\ g.m0 = LineMode0 /\ g.color_i = e.color_i /\ g.rb = e.rb /\ g.m1 = e.m1 /\ g.window = e.window
      /\ g.clip_mode = e.clip_mode /\ g.fb = e.fb
  BY <1>2, <1>4 DEF Engine, EngineFields
<1>6. Dots(g) = Dots(e)
  BY <1>5 DEF Dots
<1>. QED BY <1>1, <1>3, <1>5, <1>6 DEF LineReady

LEMMA ReadyStart ==
  ASSUME NEW a \in ScreenPoints, NEW e, LineReady(a, 5, e)
  PROVE  LineReady(a, 6, EngineWrite(e, "xy_start", a))
<1>1. PICK g : g = EngineWrite(e, "xy_start", a)
  OBVIOUS
<1>2. Engine(e)
  BY DEF LineReady
<1>3. a.x \in Coords /\ a.y \in Coords /\ a.x \in Int /\ a.y \in Int
  BY ScreenAssumption, SizeAssumption DEF ScreenPoints, Coords
<1>4. Engine(g)
  <2>1. GoodWrite("xy_start", a)
    BY <1>3 DEF GoodWrite
  <2>. QED BY <1>1, <1>2, <2>1, WriteKeeps
<1>5. PICK u, v : u = 16 * a.x /\ v = 16 * a.y
  OBVIOUS
<1>6. Sext20(u) = u /\ Sext20(v) = v
  BY <1>3, <1>5, PlaceAt
<1>7. g = [[e EXCEPT !.xs = u, !.ys = v] EXCEPT !.x_save = Whole(u)]
  BY <1>1, <1>5, <1>6, WriteXyStart DEF write_start
<1>8. /\ g.xs = u /\ g.ys = v /\ g.m0 = e.m0 /\ g.color_i = e.color_i /\ g.rb = e.rb /\ g.m1 = e.m1 /\ g.window = e.window
      /\ g.clip_mode = e.clip_mode /\ g.fb = e.fb
  BY <1>2, <1>7 DEF Engine, EngineFields
<1>9. Dots(g) = Dots(e)
  BY <1>8 DEF Dots
<1>. QED BY <1>1, <1>4, <1>5, <1>8, <1>9 DEF LineReady

\* The last access starts the command.
LEMMA ReadyGo ==
  ASSUME NEW a \in ScreenPoints, NEW b \in ScreenPoints, NEW e, LineReady(a, 6, e), NEW f,
         f = do_command(EngineWrite(e, "xy_end", b))
  PROVE  IsLine(LineOf(a, b), Dots(f)) /\ Whole(f.xs) = b.x /\ Whole(f.ys) = b.y
<1>1. PICK g : g = EngineWrite(e, "xy_end", b)
  OBVIOUS
<1>2. Engine(e)
  BY DEF LineReady
<1>3. b.x \in Coords /\ b.y \in Coords /\ b.x \in Int /\ b.y \in Int
  BY ScreenAssumption, SizeAssumption DEF ScreenPoints, Coords
<1>4. Engine(g)
  <2>1. GoodWrite("xy_end", b)
    BY <1>3 DEF GoodWrite
  <2>. QED BY <1>1, <1>2, <2>1, WriteKeeps
<1>5. PICK u, v : u = 16 * b.x /\ v = 16 * b.y
  OBVIOUS
<1>6. Sext20(u) = u /\ Sext20(v) = v
  BY <1>3, <1>5, PlaceAt
<1>7. g = [e EXCEPT !.xe = u, !.ye = v]
  BY <1>1, <1>5, <1>6, WriteXyEnd DEF write_end
<1>8. /\ g.xe = u /\ g.ye = v /\ g.xs = e.xs /\ g.ys = e.ys
      /\ g.m0 = e.m0 /\ g.color_i = e.color_i /\ g.rb = e.rb /\ g.m1 = e.m1 /\ g.window = e.window
      /\ g.clip_mode = e.clip_mode /\ g.fb = e.fb
  BY <1>2, <1>7 DEF Engine, EngineFields
<1>9. Dots(g) = {} /\ Inked(g) /\ g.xs = 16 * a.x /\ g.ys = 16 * a.y
  BY <1>4, <1>8 DEF Dots, Inked, LineReady
<1>10. f = do_command(g)
  BY <1>1
<1>. QED BY <1>5, <1>8, <1>9, <1>10, LineCommand
-----------------------------------------------------------------------------
(* Lines are exact *)

LineJob(j) == j.kind = "line" /\ j.adr = "iline"

LEMMA LineProgramIs ==
  ASSUME NEW j, LineJob(j)
  PROVE  /\ Len(DriverProgram(j)) = 6
         /\ DriverProgram(j)[1] = W("draw_mode1", LineMode1)
         /\ DriverProgram(j)[2] = W("write_mask", Bits24)
         /\ DriverProgram(j)[3] = W("color_i", {0})
         /\ DriverProgram(j)[4] = W("draw_mode0", LineMode0)
         /\ DriverProgram(j)[5] = W("xy_start", j.a)
         /\ DriverProgram(j)[6] = Go("xy_end", j.b)
<1>1. DriverProgram(j) = LineProgram(j)
  BY DEF DriverProgram, LineJob
<1>2. j.adr = "iline"
  BY DEF LineJob
<1>3. LineProgram(j) = <<W("draw_mode1", LineMode1), W("write_mask", Bits24), W("color_i", {0}), W("draw_mode0", LineMode0),
                         W("xy_start", j.a), Go("xy_end", j.b)>>
  BY <1>2 DEF LineProgram, LineMode1, LineMode0
<1>. QED BY <1>1, <1>3

LEMMA LineAccess ==
  ASSUME NEW e, NEW vid, NEW icnt, NEW dcb, NEW mc, NEW mem,
         NEW op, op.dev = "rex", op.reg \notin {"dcb_mode", "dcb_data"}
  PROVE  Tick(Access(Machine3(Board4(e, vid, icnt, dcb), mc, mem), op))
           = Machine3(Board4(OnGo(op.go, EngineWrite(e, op.reg, op.val)), vid, icnt + 1, dcb), mc, mem)
<1>. PICK reg, v, go : reg = op.reg /\ v = op.val /\ go = op.go
  OBVIOUS
<1>. PICK b : b = Board4(e, vid, icnt, dcb)
  OBVIOUS
<1>. PICK m : m = Machine3(b, mc, mem)
  OBVIOUS
<1>1. PICK g, h : g = EngineWrite(e, reg, v) /\ h = OnGo(go, g)
  OBVIOUS
<1>2. [b EXCEPT !.e = g] = Board4(g, vid, icnt, dcb) /\ [Board4(g, vid, icnt, dcb) EXCEPT !.e = h] = Board4(h, vid, icnt, dcb)
  BY DEF Board4
<1>3. b.e = e /\ Board4(g, vid, icnt, dcb).e = g /\ m.b = b
  BY DEF Board4, Machine3
<1>4. rex3_w(b, reg, v, go) = Board4(h, vid, icnt, dcb)
  BY <1>1, <1>2, <1>3 DEF rex3_w
<1>5. PICK d : d = Board4(h, vid, icnt, dcb)
  OBVIOUS
<1>6. Access(m, op) = [m EXCEPT !.b = d]
  BY <1>3, <1>4, <1>5 DEF Access
<1>7. Access(m, op) = Machine3(d, mc, mem)
  BY <1>6 DEF Machine3
<1>8. Tick(Machine3(d, mc, mem)) = Machine3([d EXCEPT !.icnt = d.icnt + 1], mc, mem)
  BY DEF Tick, Machine3
<1>9. [d EXCEPT !.icnt = d.icnt + 1] = Board4(h, vid, icnt + 1, dcb)
  BY <1>5 DEF Board4
<1>. QED BY <1>1, <1>7, <1>8, <1>9

\* Drawn, and the start position left at the end.
LineDone(j, e) == IsLine(LineOf(j.a, j.b), Dots(e)) /\ Whole(e.xs) = j.b.x /\ Whole(e.ys) = j.b.y

\* How far the program of a line is, and the machine at that access.
LineAt(j, pc, m) ==
  /\ pc \in 1 .. 7
  /\ m = Machine3(m.b, m.mc, m.mem) /\ m.b = Board4(m.b.e, m.b.vid, m.b.icnt, m.b.dcb)
  /\ pc < 7 => LineReady(j.a, pc, m.b.e)
  /\ pc = 7 => LineDone(j, m.b.e)

LineInv ==
  /\ gfx = Session(gfx.job, gfx.pc, gfx.fast, gfx.oracle, gfx.retraced)
  /\ gfx.job \in Jobs
  /\ LineJob(gfx.job) => LineAt(gfx.job, gfx.pc, gfx.fast)

LEMMA LineInvInit == GfxInit => LineInv
<1> SUFFICES ASSUME GfxInit PROVE LineInv
  OBVIOUS
<1>1. PICK j \in Jobs : gfx = [job |-> j, pc |-> 1, fast |-> NewMachine(FALSE), oracle |-> NewMachine(TRUE),
                               retraced |-> FALSE]
  BY DEF GfxInit
<1>2. PICK m, n : m = NewMachine(FALSE) /\ n = NewMachine(TRUE)
  OBVIOUS
<1>3. gfx = Session(j, 1, m, n, FALSE)
  BY <1>1, <1>2 DEF Session
<1>4. PICK e, vid, dcb, mc, mem :
        /\ e = NewEngine(FALSE, Planes) /\ vid = NewVideo /\ dcb = [slave |-> "vc2", reg |-> 0, width |-> 4, inc |-> FALSE]
        /\ mc = NewMc /\ mem = [a \in 0 .. MemSize - 1 |-> NumBits((a * 37 + 11) % 256, 8)]
  OBVIOUS
<1>5. m = Machine3(Board4(e, vid, 0, dcb), mc, mem)
  BY <1>2, <1>4 DEF NewMachine, NewBoard, Machine3, Board4
<1>6. LineReady(j.a, 1, e)
  BY <1>4, ReadyFirst
<1>7. LineAt(j, 1, m)
  <2>1. m.b = Board4(e, vid, 0, dcb) /\ m.mc = mc /\ m.mem = mem
    BY <1>5 DEF Machine3
  <2>2. m.b.e = e /\ m.b.vid = vid /\ m.b.icnt = 0 /\ m.b.dcb = dcb
    BY <2>1 DEF Board4
  <2>. QED BY <1>5, <1>6, <2>1, <2>2 DEF LineAt
<1>. QED BY <1>3, <1>7 DEF LineInv, Session

\* One access of the program.
LEMMA LineStepAt ==
  ASSUME EngineOnGo, NEW j \in Jobs, LineJob(j), NEW pc \in 1 .. 6, NEW m, LineAt(j, pc, m)
  PROVE  LineAt(j, pc + 1, Tick(Access(m, DriverProgram(j)[pc])))
<1>1. PICK a, b \in ScreenPoints : a = j.a /\ b = j.b
  BY LineAssumption DEF LineJob
<1>2. PICK e, vid, icnt, dcb, mc, mem : /\ m = Machine3(Board4(e, vid, icnt, dcb), mc, mem)
                                        /\ e = m.b.e /\ LineReady(a, pc, e)
  BY <1>1 DEF LineAt
<1>3. ASSUME NEW f, pc < 6 => LineReady(a, pc + 1, f), pc = 6 => LineDone(j, f),
             NEW n, n = Machine3(Board4(f, vid, icnt + 1, dcb), mc, mem)
      PROVE  LineAt(j, pc + 1, n)
  <2>1. n.b = Board4(f, vid, icnt + 1, dcb) /\ n.mc = mc /\ n.mem = mem
    BY <1>3 DEF Machine3
  <2>2. n.b.e = f /\ n.b.vid = vid /\ n.b.icnt = icnt + 1 /\ n.b.dcb = dcb
    BY <2>1 DEF Board4
  <2>3. pc + 1 \in 1 .. 7 /\ (pc + 1 < 7 => pc < 6) /\ (pc + 1 = 7 => pc = 6)
    OBVIOUS
  <2>. QED BY <1>1, <1>3, <2>1, <2>2, <2>3 DEF LineAt
<1>4. PICK op : op = DriverProgram(j)[pc]
  OBVIOUS
<1>5. ASSUME NEW reg, reg \notin {"dcb_mode", "dcb_data"}, NEW v, DriverProgram(j)[pc] = W(reg, v), pc < 6,
             LineReady(a, pc + 1, EngineWrite(e, reg, v))
      PROVE  LineAt(j, pc + 1, Tick(Access(m, DriverProgram(j)[pc])))
  <2>1. op.dev = "rex" /\ op.reg = reg /\ op.val = v /\ ~op.go
    BY <1>4, <1>5 DEF W
  <2>2. PICK f : f = EngineWrite(e, reg, v)
    OBVIOUS
  <2>3. OnGo(op.go, EngineWrite(e, op.reg, op.val)) = f
    BY <2>1, <2>2 DEF OnGo
  <2>4. PICK n : n = Tick(Access(m, op))
    OBVIOUS
  <2>5. n = Machine3(Board4(f, vid, icnt + 1, dcb), mc, mem)
    <3>1. op.dev = "rex" /\ op.reg \notin {"dcb_mode", "dcb_data"}
      BY <1>5, <2>1
    <3>2. Tick(Access(Machine3(Board4(e, vid, icnt, dcb), mc, mem), op))
            = Machine3(Board4(OnGo(op.go, EngineWrite(e, op.reg, op.val)), vid, icnt + 1, dcb), mc, mem)
      BY <3>1, LineAccess
    <3>. QED BY <1>2, <2>3, <2>4, <3>2
  <2>6. (pc < 6 => LineReady(a, pc + 1, f)) /\ (pc = 6 => LineDone(j, f))
    BY <1>5, <2>2
  <2>7. LineAt(j, pc + 1, n)
    BY <1>3, <2>5, <2>6
  <2>. QED BY <1>4, <2>4, <2>7
<1>6. CASE pc = 1
  BY <1>2, <1>5, <1>6, LineProgramIs, ReadyMode1
<1>7. CASE pc = 2
  BY <1>2, <1>5, <1>7, LineProgramIs, ReadyMask
<1>8. CASE pc = 3
  BY <1>2, <1>5, <1>8, LineProgramIs, ReadyColor
<1>9. CASE pc = 4
  BY <1>2, <1>5, <1>9, LineProgramIs, ReadyMode0
<1>10. CASE pc = 5
  BY <1>1, <1>2, <1>5, <1>10, LineProgramIs, ReadyStart
<1>11. CASE pc = 6
  <2>1. op.dev = "rex" /\ op.reg = "xy_end" /\ op.val = b /\ op.go
    <3>1. op = [dev |-> "rex", reg |-> "xy_end", val |-> b, go |-> TRUE]
      BY <1>1, <1>4, <1>11, LineProgramIs DEF Go
    <3>. QED BY <3>1
  <2>2. PICK f : f = OnGo(op.go, EngineWrite(e, op.reg, op.val))
    OBVIOUS
  <2>3. f = do_command(EngineWrite(e, "xy_end", b))
    BY <2>1, <2>2 DEF OnGo, EngineOnGo
  <2>4. IsLine(LineOf(a, b), Dots(f)) /\ Whole(f.xs) = b.x /\ Whole(f.ys) = b.y
    BY <1>2, <1>11, <2>3, ReadyGo
  <2>5. LineDone(j, f)
    BY <1>1, <2>4 DEF LineDone
  <2>6. PICK n : n = Tick(Access(m, op))
    OBVIOUS
  <2>7. n = Machine3(Board4(f, vid, icnt + 1, dcb), mc, mem)
    <3>1. op.dev = "rex" /\ op.reg \notin {"dcb_mode", "dcb_data"}
      BY <2>1
    <3>2. Tick(Access(Machine3(Board4(e, vid, icnt, dcb), mc, mem), op))
            = Machine3(Board4(OnGo(op.go, EngineWrite(e, op.reg, op.val)), vid, icnt + 1, dcb), mc, mem)
      BY <3>1, LineAccess
    <3>. QED BY <1>2, <2>2, <2>6, <3>2
  <2>8. (pc < 6 => LineReady(a, pc + 1, f)) /\ (pc = 6 => LineDone(j, f))
    BY <1>11, <2>5
  <2>9. LineAt(j, pc + 1, n)
    BY <1>3, <2>7, <2>8
  <2>. QED BY <1>4, <2>6, <2>9
<1>. QED BY <1>6, <1>7, <1>8, <1>9, <1>10, <1>11

LEMMA LineInvNext ==
  ASSUME EngineOnGo, LineInv, [GfxNext]_gfxVars
  PROVE  LineInv'
<1>1. PICK j, pc, m, n, r : gfx = Session(j, pc, m, n, r) /\ j \in Jobs /\ (LineJob(j) => LineAt(j, pc, m))
  BY DEF LineInv
<1>2. gfx.job = j /\ gfx.pc = pc /\ gfx.fast = m /\ gfx.oracle = n /\ gfx.retraced = r
  BY <1>1 DEF Session
<1>3. ASSUME NEW k, NEW p, LineJob(j) => LineAt(j, k, p), NEW q, NEW s, gfx' = Session(j, k, p, q, s) PROVE LineInv'
  BY <1>1, <1>3 DEF LineInv, Session
<1>4. CASE BusAccess
  <2>1. PICK p, q : p = Tick(Access(m, DriverProgram(j)[pc])) /\ q = Tick(Access(n, DriverProgram(j)[pc]))
    OBVIOUS
  <2>2. ASSUME LineJob(j) PROVE LineAt(j, pc + 1, p)
    <3>1. ~(pc > 6)
      BY <1>2, <1>4, <2>2, LineProgramIs DEF BusAccess, Finished
    <3>2. LineAt(j, pc, m) /\ pc \in 1 .. 6
      BY <1>1, <2>2, <3>1 DEF LineAt
    <3>. QED BY <1>1, <2>1, <2>2, <3>2, LineStepAt
  <2>3. gfx' = [gfx EXCEPT !.pc = @ + 1, !.fast = p, !.oracle = q]
    BY <1>2, <1>4, <2>1 DEF BusAccess
  <2>4. gfx' = Session(j, pc + 1, p, q, r)
    BY <1>1, <1>2, <2>3 DEF Session
  <2>. QED BY <1>3, <2>2, <2>4
<1>5. CASE VertRetrace
  <2>1. PICK p, q : p = [m EXCEPT !.b = vblank(@)] /\ q = [n EXCEPT !.b = vblank(@)]
    OBVIOUS
  <2>2. ~LineJob(j)
    BY <1>2, <1>5 DEF VertRetrace, LineJob
  <2>3. gfx' = [gfx EXCEPT !.retraced = TRUE, !.fast.b = vblank(@), !.oracle.b = vblank(@)]
    BY <1>5 DEF VertRetrace
  <2>4. gfx' = [gfx EXCEPT !.retraced = TRUE, !.fast = p, !.oracle = q]
    BY <1>2, <2>1, <2>3
  <2>5. PICK t : t = TRUE
    OBVIOUS
  <2>6. gfx' = Session(j, pc, p, q, t)
    BY <1>1, <2>4, <2>5 DEF Session
  <2>. QED BY <1>3, <2>2, <2>6
<1>6. CASE UNCHANGED gfxVars
  BY <1>6 DEF LineInv, gfxVars
<1>. QED BY <1>4, <1>5, <1>6 DEF GfxNext

LEMMA LineInvExact == LineInv => LineExact
<1> SUFFICES ASSUME LineInv, LineJob(gfx.job), Finished
             PROVE  LET j == gfx.job
                        e == gfx.fast.b.e
                        on == {p \in FbXY : e.fb["rgbci"][p] # {}}
                        dx == j.b.x - j.a.x
                        dy == j.b.y - j.a.y
                        major == IF Abs(dx) > Abs(dy) THEN Abs(dx) ELSE Abs(dy)
                    IN  /\ Cardinality(on) = major + 1
                        /\ \A p \in on : Abs(2 * (dx * (p[2] - j.a.y) - dy * (p[1] - j.a.x))) <= major
                        /\ {<<j.a.x, j.a.y>>, <<j.b.x, j.b.y>>} \subseteq on
                        /\ Whole(e.xs) = j.b.x /\ Whole(e.ys) = j.b.y
  BY DEF LineExact, LineJob
<1>1. PICK j \in Jobs : j = gfx.job
  BY DEF LineInv
<1>2. LineJob(j) /\ LineAt(j, gfx.pc, gfx.fast)
  BY <1>1 DEF LineInv
<1>3. gfx.pc = 7
  <2>1. gfx.pc > 6
    BY <1>1, <1>2, LineProgramIs DEF Finished
  <2>. QED BY <1>2, <2>1 DEF LineAt
<1>4. PICK e : e = gfx.fast.b.e
  OBVIOUS
<1>5. LineDone(j, e)
  BY <1>2, <1>3, <1>4 DEF LineAt
<1>6. PICK a, b \in ScreenPoints : a = j.a /\ b = j.b
  BY <1>2, LineAssumption DEF LineJob
<1>7. PICK l : l = LineOf(a, b)
  OBVIOUS
<1>8. PICK S : S = {p \in FbXY : e.fb["rgbci"][p] # {}}
  OBVIOUS
<1>9. IsLine(l, S) /\ Whole(e.xs) = b.x /\ Whole(e.ys) = b.y
  BY <1>5, <1>6, <1>7, <1>8 DEF LineDone, Dots
<1>10. PICK q : /\ S = {q[i] : i \in 0 .. l.major}
                /\ \A i \in 0 .. l.major : \E m : Near(l, i, m) /\ q[i] = <<Px(l, i, m), Py(l, i, m)>>
                /\ q[l.major] = <<Px(l, l.major, l.minor), Py(l, l.major, l.minor)>>
  BY <1>9 DEF IsLine
<1>11. Line(l) /\ Px(l, l.major, l.minor) = b.x /\ Py(l, l.major, l.minor) = b.y /\ l.ax = a.x /\ l.ay = a.y
  BY <1>7, LineOfIs
<1>12. Cardinality(S) = l.major + 1 /\ q[0] = <<a.x, a.y>> /\ q[l.major] = <<b.x, b.y>>
  <2>1. \A i \in 0 .. l.major : \E m : Near(l, i, m) /\ q[i] = <<Px(l, i, m), Py(l, i, m)>>
    BY <1>10
  <2>2. Cardinality({q[i] : i \in 0 .. l.major}) = l.major + 1 /\ q[0] = <<l.ax, l.ay>>
    BY <1>11, <2>1, LineSet
  <2>. QED BY <1>10, <1>11, <2>2
<1>13. <<a.x, a.y>> \in S /\ <<b.x, b.y>> \in S
  <2>1. 0 \in 0 .. l.major /\ l.major \in 0 .. l.major
    BY <1>11 DEF Line
  <2>2. q[0] \in S /\ q[l.major] \in S
    BY <1>10, <2>1
  <2>. QED BY <1>12, <2>2
<1>14. ASSUME NEW p \in S PROVE Abs(2 * ((b.x - a.x) * (p[2] - a.y) - (b.y - a.y) * (p[1] - a.x))) <= l.major
  <2>1. PICK i \in 0 .. l.major : p = q[i]
    BY <1>10
  <2>2. PICK m : Near(l, i, m) /\ q[i] = <<Px(l, i, m), Py(l, i, m)>>
    BY <1>10
  <2>3. PICK x, y : x = Px(l, i, m) /\ y = Py(l, i, m)
    OBVIOUS
  <2>4. p[1] = x /\ p[2] = y
    BY <2>1, <2>2, <2>3
  <2>5. Abs(2 * ((Px(l, l.major, l.minor) - l.ax) * (Py(l, i, m) - l.ay)
                 - (Py(l, l.major, l.minor) - l.ay) * (Px(l, i, m) - l.ax))) <= l.major
    BY <1>11, <2>2, NearIs
  <2>. QED BY <1>11, <2>3, <2>4, <2>5
<1>15. l.major = IF Abs(b.x - a.x) > Abs(b.y - a.y) THEN Abs(b.x - a.x) ELSE Abs(b.y - a.y)
  BY <1>7 DEF LineOf
<1>. QED BY <1>1, <1>4, <1>6, <1>8, <1>9, <1>12, <1>13, <1>14, <1>15

\* For every board, every size of screen and coordinate and every two points on
\* the screen: the integer line between them (do_setup, do_iline) has one pixel
\* for each step of its longer axis, each within half a pixel of the true line,
\* both ends among them, and leaves the start position at its end.
THEOREM GfxLinesExact ==
  ASSUME EngineOnGo
  PROVE  GfxSpec => []LineExact
<1>1. LineInv /\ [GfxNext]_gfxVars => LineInv'
  BY LineInvNext
<1>. QED BY <1>1, LineInvInit, LineInvExact, PTL DEF GfxSpec
=============================================================================
