---------------------------- MODULE MCScsiDriver -----------------------------
(***************************************************************************)
(* ScsiDriver on a two-block disk of two-byte blocks and four bytes of     *)
(* DRAM.  Chunk boundaries fall inside a block, one read runs past the end *)
(* of the image and one chain is longer than its request.                  *)
(***************************************************************************)
EXTENDS ScsiDriver

MCImage == [l \in 0..(NBlocks - 1) |-> [j \in 1..BlockSize |-> IF j = 1 THEN l ELSE 1 - l]]
MCSense == [s \in {"NO_SENSE", "ILLEGAL_REQUEST"} |-> <<Zero>>]
MCReply == <<Zero, Zero>>

D(cbp, count, eox, nbdp) ==
  [cbp |-> cbp, count |-> count, eox |-> eox, xie |-> FALSE, nbdp |-> nbdp]

\* 0: all four bytes in one descriptor; 1-2: in two; 3 then 4: in two chunks.
MCDesc ==
  [d \in 0..4 |->
     CASE d = 0 -> D(0, 4, TRUE, 0)
       [] d = 1 -> D(0, 1, FALSE, 2)
       [] d = 2 -> D(1, 3, TRUE, 2)
       [] d = 3 -> D(0, 3, TRUE, 3)
       [] d = 4 -> D(3, 1, TRUE, 4)]

R(op, lba, n, chains) == [op |-> op, lba |-> lba, n |-> n, base |-> 0, chains |-> chains]

MCRequests ==
  {R(READ10, 0, 2, <<1>>), R(READ10, 1, 2, <<3, 4>>),
   R(WRITE10, 1, 1, <<0>>), R(WRITE10, 0, 2, <<3, 4>>)}

MCLayout ==
  [r \in MCRequests |-> IF r.chains = <<1>> THEN {<<1, 1>>, <<1, 2>>}
                        ELSE {<<c, r.chains[c]>> : c \in DOMAIN r.chains}]
=============================================================================
