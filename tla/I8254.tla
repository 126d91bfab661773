-------------------------------- MODULE I8254 --------------------------------
(***************************************************************************)
(* Counter 2 of the i8254 in sgi_hpc, which counts down with CP0 Count,    *)
(* and the guest's calibration loop (dosample of ip22-time.c, as the       *)
(* header describes it): program the counter, latch and read it until its  *)
(* high byte is 0, and take the Count that has passed.                     *)
(***************************************************************************)
EXTENDS Integers

CONSTANTS
  Base,      \* values of a byte: 256
  T2_RATIO,  \* Counts per tick of the counter: 50
  CountMod,  \* values of Count: 2^32
  Loads,     \* reload values the guest programs
  StartAt    \* values of Count when it does

ASSUME I8254Assumption ==
  /\ Base \in Nat \ {0, 1}
  /\ T2_RATIO \in Nat \ {0}
  /\ CountMod \in Nat \ {0}
  /\ Loads \subseteq 0 .. Base * Base - 1
  /\ StartAt \subseteq 0 .. CountMod - 1
  /\ Base * Base * T2_RATIO < CountMod     \* Count does not wrap within one count-down

VARIABLES
  t2,     \* load, count_at_load, latch, write and read phase, loading
  count,  \* CP0 Count
  cal     \* the loop: where it is, its reload value, Count at start and end, bytes read

t2Vars == <<t2, count, cal>>

T2Init ==
  /\ t2 = [load |-> 0, at |-> 0, latch |-> 0, wr |-> 0, rd |-> 0, loading |-> FALSE]
  /\ count \in StartAt
  /\ cal = [pc |-> "idle", load |-> 0, start |-> 0, end |-> 0, low |-> 0]

\* The live value.
t2_value ==
  LET dec == ((count - t2.at) % CountMod) \div T2_RATIO
  IN IF dec >= t2.load THEN 0 ELSE t2.load - dec

\* Control word: latch the live value, or expect two bytes of reload.
Latch(t) == [t EXCEPT !.latch = t2_value, !.rd = 0]
ProgramT2(t) == [t EXCEPT !.loading = TRUE, !.wr = 0]

\* Seeded fault: the count-down starts at the low byte.
Tcnt2Write_EarlyStart(t, b) ==
  IF ~t.loading THEN t
  ELSE IF t.wr = 0
    THEN [t EXCEPT !.load = (@ \div Base) * Base + b, !.wr = 1, !.at = count]
    ELSE [t EXCEPT !.load = (@ % Base) + b * Base, !.wr = 0, !.loading = FALSE]

\* Counter write: low byte, then high byte and start; ignored when not loading.
Tcnt2Write(t, b) ==
  IF ~t.loading THEN t
  ELSE IF t.wr = 0
    THEN [t EXCEPT !.load = (@ \div Base) * Base + b, !.wr = 1]
    ELSE [t EXCEPT !.load = (@ % Base) + b * Base, !.wr = 0, !.loading = FALSE, !.at = count]

\* Counter read: the latched low byte, then the high byte.
Tcnt2Read(t) == [t EXCEPT !.rd = 1 - @]
Tcnt2Value(t) == IF t.rd = 0 THEN t.latch % Base ELSE t.latch \div Base

\* One instruction passes.
T2Tick == count' = (count + 1) % CountMod

\* The guest's loop; every access is an instruction.
Calibrate ==
  /\ T2Tick
  /\ \/ /\ cal.pc = "idle"
        /\ \E l \in Loads : cal' = [cal EXCEPT !.pc = "low", !.load = l]
        /\ t2' = ProgramT2(t2)
     \/ /\ cal.pc = "low"
        /\ t2' = Tcnt2Write(t2, cal.load % Base)
        /\ cal' = [cal EXCEPT !.pc = "high"]
     \/ /\ cal.pc = "high"
        /\ t2' = Tcnt2Write(t2, cal.load \div Base)
        /\ cal' = [cal EXCEPT !.pc = "latch", !.start = count]
     \/ /\ cal.pc = "latch"
        /\ t2' = Latch(t2)
        /\ cal' = [cal EXCEPT !.pc = "readlow", !.end = count]
     \/ /\ cal.pc = "readlow"
        /\ t2' = Tcnt2Read(t2)
        /\ cal' = [cal EXCEPT !.pc = "readhigh", !.low = Tcnt2Value(t2)]
     \/ /\ cal.pc = "readhigh"
        /\ t2' = Tcnt2Read(t2)
        /\ cal' = [cal EXCEPT !.pc = IF Tcnt2Value(t2) = 0 THEN "done" ELSE "latch"]
     \/ /\ cal.pc = "done"
        /\ UNCHANGED t2
        /\ cal' = [cal EXCEPT !.pc = "idle"]
-----------------------------------------------------------------------------
\* Instructions of one turn of the loop.
Turn == 3

\* The calibration (t2_value, the latch and the byte phases of read and write):
\* the Count that passes until the high byte reads 0 is that of the ticks from
\* the reload value down to Base - 1, and at most one turn of the loop more,
\* across a wrap of Count and whatever the counter held before.
CalibrationExact ==
  cal.pc = "done" =>
    LET spent == (cal.end - cal.start) % CountMod
        needed == IF cal.load < Base THEN 0 ELSE (cal.load - (Base - 1)) * T2_RATIO
    IN /\ spent >= needed
       /\ spent <= needed + Turn
=============================================================================
