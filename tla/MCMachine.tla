------------------------------ MODULE MCMachine ------------------------------
(***************************************************************************)
(* A small machine.  Devices: a ring of two characters, three descriptors, *)
(* two-bit mouse bytes, a counter of two-bit bytes.  Board: 6 by 6 words,  *)
(* 5 by 5 displayed, eight-lane kernels, coordinates that wrap at 16.      *)
(* Host: runs of three instructions, two disk blocks, three pages, two     *)
(* debugger clients.                                                       *)
(***************************************************************************)
EXTENDS Machine

MCMotions == {<<4, -1>>}
MCScript ==
  <<[op |-> "until", n |-> 2], [op |-> "key", key |-> "k"],
    [op |-> "move", dx |-> 2, dy |-> 0, step |-> 1]>>
MCFrames == {[dst |-> "station", len |-> 3], [dst |-> "broadcast", len |-> 1],
             [dst |-> "multicast", len |-> 2]}
MCShapes == {<<2>>, <<1, 1>>}
MCOptions == {[lat |-> 0, head |-> FALSE], [lat |-> 2, head |-> TRUE]}
MCConfigs == {[local_mask |-> (0 :> {"SCSI", "ENET", "MCDMA", "LIO2"}) @@ (1 :> {"RETRACE", "LIO3"}),
               cmeimask |-> (0 :> {"SCC", "PS2"}) @@ (1 :> {"PS2"})]}

MCMaxOps ==
  ({"serial"} :> 3) @@ ({"keyboard"} :> 2) @@ ({"timer"} :> 0) @@ ({"levels"} :> 5)
    @@ ({"receive"} :> 4) @@ ({"transmit"} :> 3)
    @@ [d \in {{"graphics"}, {"lockstep"}, {"delta"}, {"checkpoint"}, {"debugger"}} |-> 0]
MCDriven == DOMAIN MCMaxOps
-----------------------------------------------------------------------------
(* Drawing jobs *)

MCPtes == <<[p \in 0 .. 3 |-> <<2, 0, 3, 1>>[p + 1]]>>

\* Rectangles through the host port and back, by depth of plane and host.
MCBlit ==
  {[kind |-> "blit", plane |-> m[1], depth |-> m[2], host |-> m[3], logicop |-> op,
    x |-> 1, y |-> 0, w |-> w, h |-> 2, zoom |-> z, from |-> 5, to |-> 64 + 30,
    tlb |-> <<[hi |-> 0, table |-> 1]>>] :
     m \in {<<1, 1, 1>>, <<1, 3, 3>>, <<2, 2, 2>>, <<1, 3, 1>>, <<4, 1, 1>>, <<1, 2, 1>>},
     op \in {3, 6}, w \in {3, 5}, z \in {1, 2}}

\* Copies whose source and target overlap, and not.
MCCopy ==
  {[kind |-> "copy", dx |-> d[1], dy |-> d[2], w |-> 3, h |-> 2] :
     d \in {<<1, 0>>, <<1, 1>>, <<0, 1>>, <<3, 2>>, <<2, 0>>, <<2, 1>>}}

MCLine ==
  {[kind |-> "line", adr |-> "iline", a |-> XY(a[1], a[2]), b |-> XY(b[1], b[2])] :
     a \in {<<0, 0>>, <<5, 4>>, <<2, 3>>}, b \in (0 .. 5) \X (0 .. 4)}
  \cup {[kind |-> "line", adr |-> "fline", a |-> XY(1, 0), b |-> XY(b[1], b[2])] :
          b \in {<<4, 2>>, <<0, 3>>}}

\* Frame tables with two kinds of scanline.
MCVideo ==
  {[kind |-> "video", top |-> t, rows |-> r,
    runs |-> <<<<[x |-> 0, mode |-> 1], [x |-> 2, mode |-> 2]>>,
               <<[x |-> 0, mode |-> 3], [x |-> 1, mode |-> 4], [x |-> 4, mode |-> 1]>>>>] :
     t \in {1, 2}, r \in {2, 4}}

\* Draws: shading and dithering; patterns, clipping and wrapping; host data.
M0 == [Mode0 EXCEPT !.op = "draw", !.stop_x = TRUE]
M1 == [Mode1 EXCEPT !.fastclear = FALSE]
DrawJob(m0, m1, p, clip, win, x, w, gos, back, mask) ==
  [kind |-> "draw", m0 |-> m0, m0b |-> m0, m1 |-> m1, mask |-> mask, pattern |-> p, clip |-> clip,
   win |-> win, back |-> back, x |-> x, w |-> w, h |-> 2, gos |-> gos]
MCShaded ==
  {DrawJob([M0 EXCEPT !.adr = "block", !.stop_y = y, !.shade = sh, !.ciclamp = cl],
           [M1 EXCEPT !.depth = d, !.dither = di, !.rgb = rgb], {}, {}, 0, 0, 6, 1, FALSE, Bits24) :
     y \in BOOLEAN, sh \in BOOLEAN, cl \in BOOLEAN, d \in 0 .. 3, di \in BOOLEAN, rgb \in BOOLEAN}
MCPatterned ==
  {DrawJob([M0 EXCEPT !.zpat = TRUE, !.zopaque = o, !.len32 = l, !.adr = "span"],
           [M1 EXCEPT !.depth = 1, !.rgb = FALSE, !.logicop = op],
           {31, 29, 28}, clip, win, x, w, 1, FALSE, {0, 1, 3, 4, 6}) :
     o \in BOOLEAN, l \in BOOLEAN, op \in {3, 6, 9, 13}, clip \in {{}, {0}, {1, 2}},
     win \in {0, -2}, x \in {0, 13}, w \in {3, 10}}
MCHostDraws ==
  {DrawJob([M0 EXCEPT !.color_host = TRUE, !.adr = "block", !.lspat = l],
           [M1 EXCEPT !.depth = 1, !.hostdepth = hd, !.rwpacked = pk, !.rwdouble = db, !.swap = sw],
           {31, 29, 28}, {}, 0, 1, 5, 3, bk, Bits24) :
     hd \in 0 .. 3, pk \in BOOLEAN, db \in BOOLEAN, l \in BOOLEAN, bk \in BOOLEAN, sw \in BOOLEAN}
MCDraws == MCShaded \cup MCPatterned \cup MCHostDraws
MCJobs == MCBlit \cup MCCopy \cup MCLine \cup MCVideo \cup MCDraws
-----------------------------------------------------------------------------
(* The host side *)

MCContents == {<<"a", "a">>, <<"b", "b">>}
MCImage == <<"i", "i">>

\* A loop that writes and clears page 1, updates page 2 with a load-linked
\* pair and makes a system call; its handler is at 8.
MCGuest ==
  <<[op |-> "li", v |-> 5], [op |-> "sw", p |-> 1], [op |-> "ll", p |-> 1], [op |-> "sc", p |-> 2],
    [op |-> "syscall"], [op |-> "b", to |-> 2], [op |-> "li", v |-> 0],
    [op |-> "nextepc"], [op |-> "sw", p |-> 3], [op |-> "eret"]>>
MCBoot == 1 :> 7 @@ 2 :> 0 @@ 3 :> 0
MCEvery == {<<0, 0>>, <<0, 3>>, <<5, 2>>}

\* Addresses 1 and 5 have the same low half.
MCSucc == 1 :> {2} @@ 2 :> {5} @@ 5 :> {2, 1}
MCCommands == <<2, 1>>
MCBreaks == <<1, 0>>
=============================================================================
