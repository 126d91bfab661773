----------------------------- MODULE FlatMemory ------------------------------
(***************************************************************************)
(* What a CPU expects of memory: a load returns the byte last stored to    *)
(* the location.  CacheModel implements this for cached accesses.          *)
(***************************************************************************)
CONSTANTS Locations, Offsets, Val

VARIABLES
  flat,  \* the contents, line by line
  out    \* what the last load returned

Init == flat \in [Locations -> [Offsets -> Val]] /\ out \in Val

Load(a, o) == out' = flat[a][o] /\ UNCHANGED flat

Store(a, o, v) == flat' = [flat EXCEPT ![a][o] = v] /\ UNCHANGED out

Next ==
  \E a \in Locations, o \in Offsets : Load(a, o) \/ \E v \in Val : Store(a, o, v)

Spec == Init /\ [][Next]_<<flat, out>>
=============================================================================
