-------------------------------- MODULE MCTlb --------------------------------
(***************************************************************************)
(* Instances of Tlb.  Pages 1 and 4 lie in the two halves of a 16 KB pair, *)
(* and in different 4 KB pairs; one of them is named with fill bits set.   *)
(* Kseg0 needs no entry.                                                   *)
(*                                                                         *)
(* A behaviour is about mappings, and software stages entries; or about    *)
(* replacement, and software moves Index, Random and Wired, also out of    *)
(* range.                                                                  *)
(***************************************************************************)
EXTENDS Tlb

VARIABLE about

Narrow(p) == [r |-> 0, fill |-> 0, top |-> 0, page |-> p]
Filled(p) == [r |-> 0, fill |-> 1, top |-> 0, page |-> p]

HiOf(top, v, a) == [r |-> 0, top |-> top, vpn2 |-> v, asid |-> a]

\* A writable cached page and a read-only uncached one.  An entry with both is
\* global, with one it is not.
Writable == [pfn |-> 1, c |-> TRUE, d |-> TRUE, v |-> TRUE, g |-> TRUE]
ReadOnly == [pfn |-> 2, c |-> FALSE, d |-> FALSE, v |-> TRUE, g |-> TRUE]

Kseg0 == [r |-> 3, fill |-> 1, top |-> 1, page |-> 4]

MCVA == {Filled(1), Narrow(4), Kseg0}
MCKseg == {Kseg0}
MCHi == {HiOf(0, v, a) : v \in {0, 2}, a \in 0 .. 1}
MCLo == {ZeroLo, Writable, ReadOnly}

NextAsid == {HiOf(0, 0, 1)}
Even == {Writable}
Odd == {ReadOnly}
Anything == {1, 3} \X BOOLEAN

-----------------------------------------------------------------------------
MCMtc0 ==
  /\ Mtc0
  /\ IF about = "mappings"
     THEN <<reg'.index, reg'.p, reg'.random, reg'.wired, settled'>> =
          <<reg.index, reg.p, reg.random, reg.wired, settled>>
     ELSE <<reg'.lo0, reg'.lo1, reg'.pair>> = <<reg.lo0, reg.lo1, reg.pair>>

MCNext ==
  /\ \/ \E va \in VA, op \in Ops :
          (about = "mappings" \/ va = Narrow(4)) /\ va_translate(va, op)
     \/ TLBR \/ TLBWI \/ TLBWR \/ TLBP \/ MCMtc0
  /\ UNCHANGED about

MCInit == Init /\ about \in {"mappings", "replacement"}
MCSpec == MCInit /\ [][MCNext]_<<vars, about>>
=============================================================================
