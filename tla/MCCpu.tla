-------------------------------- MODULE MCCpu --------------------------------
(***************************************************************************)
(* MCCode: a program at 0 .. 13 with handlers at 14 (bootstrap), 15        *)
(* (general vector) and 20 (refill).  Faults can happen in delay slots,    *)
(* between LL and SC and in the handlers.                                  *)
(* LoopCode: the program enables interrupts and waits in a branch to       *)
(* itself.  SlotCode: MCCode with a fault in a handler's delay slot.       *)
(***************************************************************************)
EXTENDS Cpu

MCUser == 0 .. 13
MCPc == 0 .. 21
MCAfter == [p \in MCPc |-> IF p = 13 THEN 0 ELSE IF p = 21 THEN 14 ELSE p + 1]
NoSr == [ie |-> FALSE, exl |-> FALSE, erl |-> FALSE, bev |-> FALSE, im |-> {}]
I(k, t, may) == [k |-> k, t |-> t, may |-> may, sr |-> NoSr]
EnableAll == [NoSr EXCEPT !.ie = TRUE, !.im = Devices \cup {TIMER}]
SetSr(r) == [k |-> "mtsr", t |-> 0, may |-> {}, sr |-> r]

MCCode == [p \in MCPc |->
  CASE p = 0  -> I("op", 0, {"common"})
    [] p = 1  -> SetSr(EnableAll)
    [] p = 2  -> I("ll", 0, {"common", "refill"})
    [] p = 3  -> I("op", 0, {"refill"})
    [] p = 4  -> I("sc", 0, {"tlb"})
    [] p = 5  -> I("branch", 9, {"xtlb"})
    [] p = 6  -> I("op", 0, Exc)
    [] p = 7  -> I("likely", 2, {})
    [] p = 8  -> I("op", 0, {"refill", "common"})
    [] p = 9  -> I("branch", 1, {})
    [] p = 10 -> I("mtcompare", 2, {})
    [] p = 11 -> I("branch", 13, {})
    [] p = 12 -> I("sc", 0, {"refill"})
    [] p = 13 -> I("ll", 0, {"tlb"})
    [] p = 15 -> I("op", 0, {"refill"})
    [] p = 16 -> I("branch", 19, {})
    [] p = 17 -> I("mtcompare", 2, {})
    [] p = 18 -> I("op", 0, {"common"})
    [] p = 20 -> I("op", 0, {"refill"})
    [] OTHER -> I("eret", 0, {})]

LoopCode == [p \in MCPc |->
  CASE p = 0 -> SetSr(EnableAll)
    [] p = 1 -> I("branch", 1, {})
    [] p = 15 -> I("mtcompare", 3, {})
    [] p \in {14, 16} -> I("eret", 0, {})
    [] OTHER -> I("op", 0, {})]

SlotCode == [MCCode EXCEPT ![17] = I("op", 0, {"refill"})]

MCEffects == {3, 4, 6, 8, 12}
MCVector == [b \in BOOLEAN |->
  [v \in {"refill", "xtlb", "general"} |->
     IF b THEN 14 ELSE IF v = "general" THEN 15 ELSE 20]]
=============================================================================
