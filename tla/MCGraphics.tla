----------------------------- MODULE MCGraphics ------------------------------
(***************************************************************************)
(* A board of 6 by 6 words with 5 by 5 displayed, eight-lane kernels and   *)
(* coordinates that wrap at 16, for the draws whose modes mix shading with *)
(* host or fast-clear colours.                                             *)
(***************************************************************************)
EXTENDS Graphics

MCPtes == <<[p \in 0 .. 3 |-> <<2, 0, 3, 1>>[p + 1]]>>

\* A row of eight-bit pixels from the host, two commands per row.
MCHost == [Mode1 EXCEPT !.depth = 1, !.hostdepth = 1, !.rwpacked = TRUE, !.fastclear = FALSE]

MCDraw == [Mode0 EXCEPT !.op = "draw", !.adr = "span", !.stop_x = TRUE]
MCJobs ==
  {[kind |-> "draw", m0 |-> [MCDraw EXCEPT !.color_host = host, !.shade = TRUE, !.adr = a],
    m1 |-> [MCHost EXCEPT !.fastclear = clear], mask |-> Bits24, pattern |-> {}, clip |-> {}, win |-> 0,
    back |-> FALSE, x |-> x, w |-> 6, h |-> 2, gos |-> 1,
    m0b |-> [MCDraw EXCEPT !.shade = TRUE, !.adr = a]] :
     host \in BOOLEAN, clear \in BOOLEAN, a \in {"span", "block"}, x \in {0, 1}}
=============================================================================
