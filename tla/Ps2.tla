--------------------------------- MODULE Ps2 ---------------------------------
(***************************************************************************)
(* The 8042 keyboard and mouse controller (sgi_ps2): the output buffer and *)
(* the two queues behind it, the controller's, the keyboard's and the      *)
(* mouse's commands, host input and the input script.                      *)
(*                                                                         *)
(* A byte of a queue is a record: whether it reports a host event or is a  *)
(* reply, how many bytes of its packet follow it, and its value.  Script   *)
(* waits are kept as what is left of them, and the instruction count is    *)
(* kept up to the last one an "until" names.                               *)
(***************************************************************************)
EXTENDS Integers, Sequences, FiniteSetsExt, SequencesExt

CONSTANTS
  Keys,       \* key names
  ExtKeys,    \* those with an E0 prefix in sets 1 and 2
  PacketMax,  \* largest displacement of one mouse packet: 255 in the code
  Motions,    \* displacements <<dx, dy>> the host may report
  CtlCmds,    \* bytes the guest writes to the command port
  DataBytes,  \* bytes the guest writes to the data port
  Script,     \* the input script: a sequence of [op |-> ..., ...] lines
  Retrace,    \* instructions between two retraces
  MaxEvents   \* bound: host events in a behaviour

ASSUME Ps2Assumption ==
  /\ ExtKeys \subseteq Keys
  /\ PacketMax \in Nat \ {0}
  /\ Motions \subseteq Int \X Int
  /\ CtlCmds \subseteq 0 .. 255
  /\ DataBytes \subseteq 0 .. 255
  /\ Retrace \in Nat \ {0}
  /\ MaxEvents \in Nat

\* What the lines of the script are made of: text is keys, some of them with
\* shift, and a motion is in steps of a pixel at least.
ASSUME ScriptAssumption ==
  /\ Len(Script) \in Nat /\ DOMAIN Script = 1 .. Len(Script)
  /\ \A i \in DOMAIN Script :
       /\ Script[i].op = "type" => Script[i].chars \in Seq([key : Keys, shift : BOOLEAN])
       /\ Script[i].op = "move" => /\ Script[i].dx \in Int /\ Script[i].dy \in Int
                                   /\ Script[i].step \in Nat \ {0}

VARIABLES
  ps2,    \* controller, keyboard and mouse
  host    \* host events not yet handed over, the script, and what the guest
          \* has still to see: key bytes, displacement of the pointer, and the
          \* bytes it has of the motion packet it is in

ps2Vars == <<ps2, host>>

Bit(v, n) == (v \div n) % 2 = 1

\* The flags of the command byte that the code looks at.
CcbFlags == {"KBD_IRQ", "AUX_IRQ", "KBD_OFF", "AUX_OFF", "XLATE"}
CcbOf(v) ==
  {f \in CcbFlags : Bit(v, CASE f = "KBD_IRQ" -> 1 [] f = "AUX_IRQ" -> 2
                             [] f = "KBD_OFF" -> 16 [] f = "AUX_OFF" -> 32
                             [] OTHER -> 64)}

Bytes(e, vals) == [i \in 1 .. Len(vals) |-> [event |-> e, left |-> Len(vals) - i, val |-> vals[i]]]
Reply(vals) == Bytes(FALSE, [i \in DOMAIN vals |-> [reply |-> vals[i]]])
Event(vals) == Bytes(TRUE, vals)

Ps2Init ==
  /\ ps2 = [ccb |-> {"KBD_IRQ", "XLATE"}, pending_cmd |-> 0, obf |-> FALSE, aux_obf |-> FALSE,
            out |-> Reply(<<"none">>)[1], kbd_q |-> <<>>, aux_q |-> <<>>,
            kbd_pending |-> 0, kbd_enabled |-> TRUE, scan_set |-> 2,
            aux_pending |-> 0, aux_enabled |-> FALSE]
  /\ host = [kbd |-> <<>>, aux |-> <<>>, buttons |-> {}, events |-> 0, icnt |-> 0,
             script_pc |-> 1, wait |-> 0, keys |-> <<>>, head |-> <<>>, pos |-> <<0, 0>>]
-----------------------------------------------------------------------------
(* The output buffer *)

irq == ps2.obf /\ (IF ps2.aux_obf THEN "AUX_IRQ" \in ps2.ccb ELSE "KBD_IRQ" \in ps2.ccb)

KbdReady(p) == p.kbd_q # <<>> /\ "KBD_OFF" \notin p.ccb
AuxReady(p) == p.aux_q # <<>> /\ "AUX_OFF" \notin p.ccb

\* Seeded fault: a byte stays in its queue when it is put out.
refill_NoPop(p) ==
  IF p.obf THEN p
  ELSE IF KbdReady(p)
    THEN [p EXCEPT !.out = Head(p.kbd_q), !.obf = TRUE, !.aux_obf = FALSE]
  ELSE IF AuxReady(p)
    THEN [p EXCEPT !.out = Head(p.aux_q), !.aux_q = Tail(@), !.obf = TRUE, !.aux_obf = TRUE]
  ELSE p

\* Move the next byte into the output buffer, the keyboard's first.
refill(p) ==
  IF p.obf THEN p
  ELSE IF KbdReady(p)
    THEN [p EXCEPT !.out = Head(p.kbd_q), !.kbd_q = Tail(@), !.obf = TRUE, !.aux_obf = FALSE]
  ELSE IF AuxReady(p)
    THEN [p EXCEPT !.out = Head(p.aux_q), !.aux_q = Tail(@), !.obf = TRUE, !.aux_obf = TRUE]
  ELSE p

Put(p, q, vals) == IF q = "kbd" THEN [p EXCEPT !.kbd_q = @ \o Reply(vals)]
                                ELSE [p EXCEPT !.aux_q = @ \o Reply(vals)]
-----------------------------------------------------------------------------
(* Commands *)

\* To the controller.
ctl_cmd(p, v) ==
  CASE v = 32 -> [p EXCEPT !.kbd_q = Reply(<<"ccb">>) \o @]
    [] v \in {96, 209, 210, 211, 212} -> [p EXCEPT !.pending_cmd = v]
    [] v = 167 -> [p EXCEPT !.ccb = @ \cup {"AUX_OFF"}]
    [] v = 168 -> [p EXCEPT !.ccb = @ \ {"AUX_OFF"}]
    [] v = 173 -> [p EXCEPT !.ccb = @ \cup {"KBD_OFF"}]
    [] v = 174 -> [p EXCEPT !.ccb = @ \ {"KBD_OFF"}]
    [] v \in {169, 170, 171, 192, 208} -> Put(p, "kbd", <<"test">>)
    [] OTHER -> p

\* To the keyboard: the argument of the command before, unless it is itself a
\* command; the lists of set 3 take arguments until a command comes.
ListCmds == {251, 252, 253}
ArgCmds == {237, 240, 243} \cup ListCmds

KbdArg(p, v) ==
  LET arg_of == p.kbd_pending
      q == [p EXCEPT !.kbd_pending = IF arg_of \in ListCmds THEN arg_of ELSE 0]
  IN IF arg_of = 240 /\ v = 0
       THEN Put([q EXCEPT !.kbd_pending = 0], "kbd", <<"ack", "set">>)
       ELSE Put([q EXCEPT !.scan_set = IF arg_of = 240 THEN v ELSE @], "kbd", <<"ack">>)

KbdNew(p, v) ==
  LET q == [p EXCEPT !.kbd_pending = IF v \in ArgCmds THEN v ELSE 0]
  IN CASE v = 255 -> Put([q EXCEPT !.scan_set = 2, !.kbd_enabled = TRUE], "kbd", <<"ack", "bat">>)
       [] v = 242 -> Put(q, "kbd", <<"ack", "id", "id">>)
       [] v = 238 -> Put(q, "kbd", <<"echo">>)
       [] v \in {244, 246} -> Put([q EXCEPT !.kbd_enabled = TRUE], "kbd", <<"ack">>)
       [] v = 245 -> Put([q EXCEPT !.kbd_enabled = FALSE], "kbd", <<"ack">>)
       [] OTHER -> Put(q, "kbd", <<"ack">>)

kbd_cmd(p, v) == IF p.kbd_pending # 0 /\ v < 237 THEN KbdArg(p, v) ELSE KbdNew(p, v)

\* To the mouse: whatever follows a set-rate or set-resolution is its argument.
aux_cmd(p, v) ==
  IF p.aux_pending # 0
    THEN Put([p EXCEPT !.aux_pending = 0], "aux", <<"ack">>)
    ELSE CASE v = 255 -> Put([p EXCEPT !.aux_enabled = FALSE], "aux", <<"ack", "bat", "id">>)
           [] v = 242 -> Put(p, "aux", <<"ack", "id">>)
           [] v \in {243, 232} -> Put([p EXCEPT !.aux_pending = v], "aux", <<"ack">>)
           [] v = 244 -> Put([p EXCEPT !.aux_enabled = TRUE], "aux", <<"ack">>)
           [] v \in {245, 246} -> Put([p EXCEPT !.aux_enabled = FALSE], "aux", <<"ack">>)
           [] v \in {233, 235} -> Put(p, "aux", <<"ack", "status", "status", "status">>)
           [] OTHER -> Put(p, "aux", <<"ack">>)
-----------------------------------------------------------------------------
(* The guest's side *)

\* Where the pointer goes with a motion packet, decoded from its three bytes.
Signed(neg, b) == IF neg THEN b - (PacketMax + 1) ELSE b
PointerAt(pos, h, dx, dy) == <<pos[1] + Signed(h.flags.xneg, dx.move), pos[2] - Signed(h.flags.yneg, dy.move)>>

\* What is left to see once the guest has taken the byte in the output buffer.
Taken(p, h) ==
  IF ~p.obf \/ ~p.out.event THEN h
  ELSE IF ~p.aux_obf THEN [h EXCEPT !.keys = Tail(@)]
  ELSE IF p.out.left > 0 THEN [h EXCEPT !.head = Append(@, p.out.val)]
  ELSE LET d == PointerAt(<<0, 0>>, h.head[1], h.head[2], p.out.val)
       IN [h EXCEPT !.head = <<>>, !.pos = <<@[1] - d[1], @[2] - d[2]>>]

\* Data port read.
ReadKbd ==
  /\ ps2' = refill([ps2 EXCEPT !.obf = FALSE, !.aux_obf = FALSE])
  /\ host' = Taken(ps2, host)

\* Command port write.
WriteCmd(v) ==
  /\ ps2' = refill(ctl_cmd(ps2, v))
  /\ UNCHANGED host

\* Data port write: to whom it goes was decided by the last command.
Routed(p, v) ==
  LET q == [p EXCEPT !.pending_cmd = 0]
  IN CASE p.pending_cmd = 96 -> [q EXCEPT !.ccb = CcbOf(v)]
       [] p.pending_cmd = 209 -> q
       [] p.pending_cmd = 210 -> Put(q, "kbd", <<"written">>)
       [] p.pending_cmd = 211 -> Put(q, "aux", <<"written">>)
       [] p.pending_cmd = 212 -> aux_cmd(q, v)
       [] OTHER -> kbd_cmd(q, v)

WriteKbd(v) ==
  /\ ps2' = refill(Routed(ps2, v))
  /\ UNCHANGED host
-----------------------------------------------------------------------------
(* Host input *)

\* The bytes of a key going down or up, in the scan code set in force.
KeyBytes(k, down) ==
  LET xlate == "XLATE" \in ps2.ccb /\ ps2.scan_set = 2
      ext == IF k \in ExtKeys THEN <<"e0">> ELSE <<>>
      brk == IF down THEN <<>> ELSE <<"f0">>
  IN CASE ps2.scan_set = 3 /\ ~xlate -> brk \o <<"s3">>
       [] xlate \/ ps2.scan_set = 1 -> ext \o <<IF down THEN "s1" ELSE "s1 up">>
       [] OTHER -> ext \o brk \o <<"s2">>

\* A key event joins the host's queue.
key(h, k, down) ==
  LET codes == KeyBytes(k, down)
      b == [i \in DOMAIN codes |-> [scan |-> codes[i]]]
  IN [h EXCEPT !.kbd = Append(@, Event(b)), !.keys = @ \o b, !.events = @ + 1]

Clamp(d, m) == IF d > m THEN m ELSE IF d < -m THEN -m ELSE d
Mag(d) == IF d < 0 THEN -d ELSE d

\* Packets a displacement needs: one at least, each of at most PacketMax.
Steps(dx, dy, m) ==
  LET far == IF Mag(dx) > Mag(dy) THEN Mag(dx) ELSE Mag(dy)
  IN IF far = 0 THEN 1 ELSE (far + m - 1) \div m

\* What is left of a displacement after n packets.
Left(d, m, n) == IF Mag(d) <= n * m THEN 0 ELSE IF d < 0 THEN d + n * m ELSE d - n * m

\* Seeded fault: the sign of the y byte is that of the host's axis.
Packet_YDown(n, dx, dy, m, btn) ==
  LET px == Clamp(Left(dx, m, n - 1), m)
      my == -Clamp(Left(dy, m, n - 1), m)
  IN <<[flags |-> [xneg |-> px < 0, yneg |-> my > 0, btn |-> btn]],
       [move |-> px % (PacketMax + 1)], [move |-> my % (PacketMax + 1)]>>

\* The n-th packet of a displacement.
Packet(n, dx, dy, m, btn) ==
  LET px == Clamp(Left(dx, m, n - 1), m)
      my == -Clamp(Left(dy, m, n - 1), m)
  IN <<[flags |-> [xneg |-> px < 0, yneg |-> my < 0, btn |-> btn]],
       [move |-> px % (PacketMax + 1)], [move |-> my % (PacketMax + 1)]>>

\* mouse(): a displacement and the buttons, split into packets.
mouse(h, dx, dy, btn) ==
  LET n == Steps(dx, dy, PacketMax)
  IN [h EXCEPT !.aux = @ \o [i \in 1 .. n |-> Event(Packet(i, dx, dy, PacketMax, btn))],
               !.events = @ + n, !.buttons = btn, !.pos = <<@[1] + dx, @[2] + dy>>]

\* Events from the display window.
HostKey(k, down) ==
  /\ host.events < MaxEvents
  /\ host' = key(host, k, down)
  /\ UNCHANGED ps2
HostMouse(d) ==
  /\ host.events < MaxEvents
  /\ host' = mouse(host, d[1], d[2], host.buttons)
  /\ UNCHANGED ps2
-----------------------------------------------------------------------------
(* The script, and the hand-over at each retrace *)

\* Typing: every character is a key, some with shift held around it.
type_char(h, c) ==
  LET on == IF c.shift THEN key(h, "shift", TRUE) ELSE h
      stroke == key(key(on, c.key, TRUE), c.key, FALSE)
  IN IF c.shift THEN key(stroke, "shift", FALSE) ELSE stroke
type_text(h, chars) == FoldLeft(type_char, h, chars)

\* One line: a wait, text, a key pressed and released, a key down or up, a
\* motion in packets of at most a step, a button pressed, released or clicked.
MoveStep(h, i, l) == mouse(h, Clamp(Left(l.dx, l.step, i - 1), l.step),
                              Clamp(Left(l.dy, l.step, i - 1), l.step), h.buttons)
MoveBy(h, l) ==
  FoldLeft(LAMBDA a, i : MoveStep(a, i, l), h,
           [i \in 1 .. (IF l.dx = 0 /\ l.dy = 0 THEN 0 ELSE Steps(l.dx, l.dy, l.step)) |-> i])
ScriptLine(h, l) ==
  CASE l.op = "wait" -> [h EXCEPT !.wait = l.n]
    [] l.op = "until" -> [h EXCEPT !.wait = IF h.icnt < l.n THEN l.n - h.icnt ELSE 0]
    [] l.op = "key" -> key(key(h, l.key, TRUE), l.key, FALSE)
    [] l.op \in {"down", "up"} -> key(h, l.key, l.op = "down")
    [] l.op = "move" -> MoveBy(h, l)
    [] l.op = "type" -> type_text(h, l.chars)
    [] l.op = "press" -> mouse(h, 0, 0, h.buttons \cup {l.button})
    [] l.op = "release" -> mouse(h, 0, 0, h.buttons \ {l.button})
    [] l.op = "click" -> mouse(mouse(h, 0, 0, h.buttons \cup {l.button}), 0, 0, h.buttons \ {l.button})
    [] OTHER -> h

\* Lines run until one has to wait, or has queued an event.
Blocked(h) == h.wait > 0 \/ h.kbd # <<>> \/ h.aux # <<>>
NextLine(h, i) == IF i < h.script_pc \/ Blocked(h) THEN h
                  ELSE ScriptLine([h EXCEPT !.script_pc = i + 1], Script[i])
run_script(h) == FoldLeft(NextLine, h, [i \in DOMAIN Script |-> i])

\* One event per device, into an empty queue; the mouse drops what it gets
\* while reporting is off.
HandKbd(p, h) ==
  IF h.kbd # <<>> /\ p.kbd_q = <<>> /\ p.kbd_enabled
    THEN [p EXCEPT !.kbd_q = Head(h.kbd)] ELSE p
HandAux(p, h) ==
  IF h.aux # <<>> /\ p.aux_q = <<>> /\ p.aux_enabled
    THEN [p EXCEPT !.aux_q = Head(h.aux)] ELSE p

\* Time passes: the count is kept up to the last "until" of the script.
Horizon == Max({0} \cup {Script[i].n : i \in {j \in DOMAIN Script : Script[j].op = "until"}})
Later(h) == [h EXCEPT !.icnt = Min({Horizon, @ + Retrace}),
                      !.wait = IF @ < Retrace THEN 0 ELSE @ - Retrace]

\* A dropped packet is one the guest is not to see.
Dropped(p, h) ==
  IF h.aux # <<>> /\ p.aux_q = <<>> /\ ~p.aux_enabled
    THEN LET b == Head(h.aux) IN PointerAt(<<0, 0>>, b[1].val, b[2].val, b[3].val)
    ELSE <<0, 0>>

service ==
  LET h == run_script(Later(host))
      d == Dropped(ps2, h)
  IN /\ ps2' = refill(HandAux(HandKbd(ps2, h), h))
     /\ host' = [h EXCEPT !.kbd = IF @ # <<>> /\ ps2.kbd_q = <<>> /\ ps2.kbd_enabled THEN Tail(@) ELSE @,
                          !.aux = IF @ # <<>> /\ ps2.aux_q = <<>> THEN Tail(@) ELSE @,
                          !.pos = <<@[1] - d[1], @[2] - d[2]>>]
-----------------------------------------------------------------------------
\* The output buffer is never left empty while an enabled device has a byte
\* for it: every path that queues a byte or enables a device (write, ctl_cmd,
\* read, service) ends in refill, so a guest polling OBF does not wait for a
\* byte the controller holds.
Refilled == ~ps2.obf => ~KbdReady(ps2) /\ ~AuxReady(ps2)

\* The bytes of q that report events.
EventsOf(q) == FlattenSeq([i \in DOMAIN q |-> IF q[i].event THEN <<q[i]>> ELSE <<>>])
Vals(q) == [i \in DOMAIN q |-> q[i].val]
InBuffer(aux) == IF ps2.obf /\ ps2.aux_obf = aux THEN <<ps2.out>> ELSE <<>>

\* Key strokes: the one byte in the output buffer, those in kbd_q and those of
\* events still with the host are, in this order and each once, the bytes of
\* the key events that the guest has not read yet, whatever replies, resets,
\* disables and scan-set changes come between; and none waits in a queue while
\* the buffer is free for it.
KeysInOrder ==
  /\ Refilled
  /\ host.keys = Vals(EventsOf(InBuffer(FALSE) \o ps2.kbd_q) \o FlattenSeq(host.kbd))

\* The bytes on their way to the guest from the mouse, and the motion packets
\* among them and with the host that it has not decoded.
AuxStream == InBuffer(TRUE) \o ps2.aux_q
MotionStream == host.head \o Vals(EventsOf(AuxStream) \o FlattenSeq(host.aux))

\* The pointer: what the guest will decode from the nine-bit packets on their
\* way is the displacement of the host it has not seen, packets the mouse
\* dropped while off aside, and no reply of the mouse cuts a packet in two (a
\* guest that counts bytes would lose step).
PointerTracks ==
  LET s == MotionStream
      n == Len(s) \div 3
  IN /\ Len(s) % 3 = 0
     /\ host.head # <<>> => AuxStream # <<>> /\ Head(AuxStream).event
     /\ \A i \in DOMAIN AuxStream :
          AuxStream[i].event /\ AuxStream[i].left > 0 =>
            i < Len(AuxStream) /\ AuxStream[i + 1].event
     /\ host.pos = FoldLeft(LAMBDA pos, i : PointerAt(pos, s[3 * i - 2], s[3 * i - 1], s[3 * i]),
                            <<0, 0>>, [i \in 1 .. n |-> i])
=============================================================================
