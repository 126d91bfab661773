-------------------------------- MODULE Delta --------------------------------
(***************************************************************************)
(* The disk's copy-on-write overlay and its sidecar file (sgi_scsi.cc,     *)
(* main.cc): blocks the guest writes live in the overlay; a clean exit or  *)
(* a SIGUSR2 rewrites the whole sidecar from it, the next process loads    *)
(* it.  The file is rewritten in place, so a host that dies in the middle  *)
(* leaves a prefix of the new contents.                                    *)
(***************************************************************************)
EXTENDS Naturals, Sequences, FiniteSets

CONSTANTS
  Lbas,       \* blocks of the disk
  Contents,   \* values of a block the guest may write: pairs of halves
  Image,      \* the value of every block of the backing image
  MaxWrites,  \* blocks the guest writes, in all processes
  MaxStops    \* processes that end

ASSUME LbasAssumption == IsFiniteSet(Lbas)
ASSUME ContentsAssumption == \A v \in Contents : v = <<v[1], v[2]>>

VARIABLES
  file,      \* the sidecar: a sequence of items, one per fwrite, or NoFile
  overlay,   \* this process's overlay: a set of blocks and their values
  flush,     \* what flush_delta() has still to write, when it is running
  flushing,  \* why it is: "no", "signal", "exit"
  sigusr2,   \* g_sig_flushdelta
  up,        \* a process is running
  history    \* [writes, stops, cut, old, saved]: counts, whether the last flush
             \* was cut off, and the overlay the last one, and the last
             \* completed one, began with

deltaVars == <<file, overlay, flush, flushing, sigusr2, up, history>>

Empty == [l \in {} |-> Image]
NoFile == <<"none">>
Magic == "magic"
\* A record is an lba and a block; the host may die within the block.
Record(lba, v) == <<[lba |-> lba], [half |-> v[1]], [half |-> v[2]]>>

\* The orders in which the hash table may give its blocks, each of them once.
Orders(ov) == {o \in [1 .. Cardinality(DOMAIN ov) -> DOMAIN ov] :
                 \A l \in DOMAIN ov : \E i \in DOMAIN o : o[i] = l}

\* What flush_delta() writes: the magic, then a record for each block.
Items(ov, order) ==
  [i \in 1 .. 1 + 3 * Len(order) |->
     IF i = 1 THEN Magic
     ELSE LET l == order[(i + 1) \div 3] IN Record(l, ov[l])[1 + ((i + 1) % 3)]]
-----------------------------------------------------------------------------
DeltaInit ==
  /\ file = NoFile
  /\ overlay = Empty
  /\ flush = <<>>
  /\ flushing = "no"
  /\ sigusr2 = FALSE
  /\ up = TRUE
  /\ history = [writes |-> 0, stops |-> 0, cut |-> FALSE, old |-> overlay, saved |-> overlay]

\* A block written by a WRITE(10).
write_block(lba, v) ==
  /\ up /\ flushing = "no"
  /\ history.writes < MaxWrites
  /\ overlay' = [l \in DOMAIN overlay \cup {lba} |-> IF l = lba THEN v ELSE overlay[l]]
  /\ history' = [history EXCEPT !.writes = @ + 1]
  /\ UNCHANGED <<file, flush, flushing, sigusr2, up>>

\* SIGUSR2 may come at any time; it only sets a flag.
on_sigusr2 ==
  /\ up /\ ~sigusr2
  /\ sigusr2' = TRUE
  /\ UNCHANGED <<file, overlay, flush, flushing, up, history>>

\* flush_delta(): fopen("wb") truncates; the records follow in the order of a
\* hash table.  Between two instructions, or when the run has ended.
flush_delta(why) ==
  /\ up /\ flushing = "no"
  /\ IF why = "signal" THEN sigusr2 ELSE history.stops < MaxStops
  /\ sigusr2' = IF why = "signal" THEN FALSE ELSE sigusr2
  /\ file' = <<>>
  /\ \E order \in Orders(overlay) : flush' = Items(overlay, order)
  /\ flushing' = why
  /\ history' = [history EXCEPT !.cut = TRUE, !.old = overlay]
  /\ UNCHANGED <<overlay, up>>

\* The file cannot be opened: nothing is written.
FlushRefused(why) ==
  /\ up /\ flushing = "no"
  /\ IF why = "signal" THEN sigusr2 ELSE history.stops < MaxStops
  /\ sigusr2' = FALSE
  /\ up' = (why # "exit")
  /\ overlay' = IF why = "exit" THEN Empty ELSE overlay
  /\ history' = [history EXCEPT !.stops = IF why = "exit" THEN @ + 1 ELSE @]
  /\ UNCHANGED <<file, flush, flushing>>

\* The next item reaches the file.
FlushItem ==
  /\ flushing # "no" /\ flush # <<>>
  /\ file' = Append(file, Head(flush))
  /\ flush' = Tail(flush)
  /\ UNCHANGED <<overlay, flushing, sigusr2, up, history>>

\* fclose(): after a SIGUSR2 the guest goes on, otherwise the process ends.
FlushEnd ==
  /\ flushing # "no"
  /\ flush' = <<>>
  /\ flushing' = "no"
  /\ up' = (flushing # "exit")
  /\ overlay' = IF flushing = "exit" THEN Empty ELSE overlay
  /\ sigusr2' = (sigusr2 /\ flushing # "exit")
  /\ UNCHANGED file

FlushDone ==
  /\ FlushEnd
  /\ flush = <<>>
  /\ history' = [history EXCEPT !.cut = FALSE, !.saved = overlay,
                                !.stops = IF flushing = "exit" THEN @ + 1 ELSE @]

\* The host's disk is full: no fwrite() is checked, the rest is lost.
FlushFull ==
  /\ FlushEnd
  /\ flush # <<>>
  /\ history' = [history EXCEPT !.stops = IF flushing = "exit" THEN @ + 1 ELSE @]

\* The process dies: a signal, or an exit() outside the run loop.
Killed ==
  /\ up /\ history.stops < MaxStops
  /\ up' = FALSE
  /\ overlay' = Empty
  /\ flush' = <<>> /\ flushing' = "no" /\ sigusr2' = FALSE
  /\ history' = [history EXCEPT !.stops = @ + 1]
  /\ UNCHANGED file

\* load_delta(): no file, or no magic: the image alone.  Otherwise records for
\* as long as they are whole.
WholeRecords(f) == {i \in 1 .. Len(f) : i % 3 = 2 /\ i + 2 <= Len(f)}

\* Seeded fault: a short block accepted, its end that of the record before.
Loaded_Short(f) ==
  LET starts == {i \in 1 .. Len(f) : i % 3 = 2 /\ i + 1 <= Len(f)}
      end(i) == IF i + 2 <= Len(f) THEN f[i + 2] ELSE IF i > 4 THEN f[i - 1] ELSE [half |-> Image[2]]
  IN  IF f = NoFile \/ f = <<>> \/ Head(f) # Magic THEN Empty
      ELSE [l \in {f[i].lba : i \in starts} |->
              LET i == CHOOSE i \in starts : f[i].lba = l IN <<f[i + 1].half, end(i).half>>]

Loaded(f) ==
  IF f = NoFile \/ f = <<>> \/ Head(f) # Magic THEN Empty
  ELSE [l \in {f[i].lba : i \in WholeRecords(f)} |->
          LET i == CHOOSE i \in WholeRecords(f) : f[i].lba = l IN <<f[i + 1].half, f[i + 2].half>>]

load_delta ==
  /\ ~up
  /\ overlay' = Loaded(file)
  /\ up' = TRUE
  /\ UNCHANGED <<file, flush, flushing, sigusr2, history>>

DeltaNext ==
  \/ \E l \in Lbas, v \in Contents : write_block(l, v)
  \/ on_sigusr2
  \/ \E why \in {"signal", "exit"} : flush_delta(why) \/ FlushRefused(why)
  \/ FlushItem \/ FlushDone \/ FlushFull
  \/ Killed
  \/ load_delta

DeltaSpec == DeltaInit /\ [][DeltaNext]_deltaVars
-----------------------------------------------------------------------------
Block(ov, l) == IF l \in DOMAIN ov THEN ov[l] ELSE Image

\* What the next process would see on the disk: after a flush that ended, all
\* that its overlay held, whatever happened since; after one that was cut
\* off, for each block what that overlay held or the image's, never a mix of
\* two blocks (load_delta, flush_delta).
DeltaExact ==
  LET disk == Loaded(file)
  IN  IF history.cut
      THEN \A l \in Lbas : Block(disk, l) \in {Block(history.old, l), Image}
      ELSE \A l \in Lbas : Block(disk, l) = Block(history.saved, l)
=============================================================================
