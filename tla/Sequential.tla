----------------------------- MODULE Sequential ------------------------------
(***************************************************************************)
(* What a program sees of its processor: instructions take effect once     *)
(* each, in program order, a branch together with its delay slot, and      *)
(* nothing else happens.  Cpu implements this for the program that runs    *)
(* outside exception handlers, whatever exceptions and interrupts occur.   *)
(***************************************************************************)
CONSTANTS
  Pc,       \* the instruction addresses
  After,    \* the address after each
  Code,     \* the instruction at each address
  Effects   \* the addresses whose effect is followed

VARIABLES
  next,    \* the next instruction
  effect   \* parity of the times each instruction has taken effect

Toggled(p) == IF p \in Effects THEN [effect EXCEPT ![p] = ~@] ELSE effect

Init == next \in Pc /\ effect = [p \in Effects |-> FALSE]

\* A store conditional may fail.
Plain ==
  /\ Code[next].k \notin {"branch", "likely"}
  /\ next' = After[next]
  /\ effect' = Toggled(next) \/ (Code[next].k = "sc" /\ effect' = effect)

\* A branch and its delay slot, which may be a store conditional.
Branch ==
  /\ Code[next].k \in {"branch", "likely"}
  /\ next' = Code[next].t \/ (Code[next].k = "branch" /\ next' = After[After[next]])
  /\ effect' = Toggled(After[next]) \/ (Code[After[next]].k = "sc" /\ effect' = effect)

\* A branch-likely that is not taken annuls its delay slot.
Annul ==
  /\ Code[next].k = "likely"
  /\ next' = After[After[next]] /\ UNCHANGED effect

Next == Plain \/ Branch \/ Annul

Spec == Init /\ [][Next]_<<next, effect>>
=============================================================================
