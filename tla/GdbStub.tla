------------------------------- MODULE GdbStub -------------------------------
(***************************************************************************)
(* The gdb stub (gdbstub.cc): the run loop calls step_hook() before every  *)
(* instruction; a client connects, sends one command at a time and waits   *)
(* for its reply, interrupts a running target, or is gone without a word.  *)
(* A socket carries whole packets, acknowledgements and single control     *)
(* bytes; swallowing the first byte of a packet loses the packet.          *)
(***************************************************************************)
EXTENDS Naturals, Sequences

CONSTANTS
  Succ,         \* [address -> set of addresses]: what may execute next
  Width,        \* 2^32: breakpoints keep the low half of an address
  PollTurns,    \* 65536: turns between two polls of the sockets
  BreakAt,      \* addresses the clients name in commands
  MaxCommands,  \* a sequence: the commands each client sends
  MaxBreaks     \* a sequence: its control-C's

ASSUME ClientsAssumption == MaxCommands \in Seq(Nat)

VARIABLES
  stub,     \* [mode, conn, stepping, poll_ctr, breakpoints, say, then]
  target,   \* [pc, since, how]: instructions since the client resumed it (at
            \* most 2) and how
  sock,     \* sock[c] = [in, out]: what client c sent, and was sent
  backlog,  \* connections not accepted yet
  gdb       \* gdb[c] = [st, sent, breaks, pc, mixed]: the client, and the pc it
            \* was told, 0 when it was not

gdbVars == <<stub, target, sock, backlog, gdb>>

Clients == DOMAIN MaxCommands
Low32(a) == a % Width

T(t) == [t |-> t]
Stop(sig) == [t |-> "stop", sig |-> sig]

Commands ==
  {T(t) : t \in {"?", "g", "c", "s", "D", "k", "other"}}
    \cup {[t |-> t, a |-> a] : t \in {"Z", "z", "G"}, a \in BreakAt}
-----------------------------------------------------------------------------
GdbInit ==
  /\ stub = [mode |-> "hook", conn |-> 0, stepping |-> FALSE, poll_ctr |-> 0, breakpoints |-> {},
             say |-> T("ok"), then |-> "cmd"]
  /\ target = [pc |-> CHOOSE a \in DOMAIN Succ : TRUE, since |-> 0, how |-> "c"]
  /\ sock = [c \in Clients |-> [in |-> <<>>, out |-> <<>>]]
  /\ backlog = <<>>
  /\ gdb = [c \in Clients |-> [st |-> "off", sent |-> 0, breaks |-> 0, pc |-> 0, mixed |-> FALSE]]

\* send_packet() follows, then the mode next.
Says(st, body, next) == [st EXCEPT !.mode = "say", !.say = body, !.then = next]
Quiet(st, next) == [st EXCEPT !.mode = next, !.say = T("ok"), !.then = "cmd"]
Closed(st) == [Quiet(st, IF st.then = "exited" THEN "exited" ELSE "exec") EXCEPT !.conn = 0]

Poll(st) == [st EXCEPT !.poll_ctr = (@ + 1) % PollTurns]
\* Bytes the stub has not read yet.
In == sock[stub.conn].in
Read == sock' = [sock EXCEPT ![stub.conn].in = Tail(@)]

\* step_hook() with nobody attached: try_accept() now and then; a client that
\* is accepted gets the command loop, without a stop reply.
HookFree ==
  /\ stub.mode = "hook" /\ stub.conn = 0
  /\ LET st == Poll(stub)
     IN  IF st.poll_ctr = 0 /\ backlog # <<>>
         THEN /\ stub' = [st EXCEPT !.conn = Head(backlog), !.mode = "cmd"]
              /\ backlog' = Tail(backlog)
         ELSE /\ stub' = [st EXCEPT !.mode = "exec"]
              /\ UNCHANGED backlog
  /\ UNCHANGED <<target, sock, gdb>>

\* Seeded fault: the step not over when it is reported.
StopReason_Again(st) ==
  IF st.stepping \/ Low32(target.pc) \in st.breakpoints THEN Says(st, Stop(5), "cmd") ELSE st

\* step_hook(), a client attached: a step is over, or a breakpoint is reached.
StopReason(st) ==
  IF st.stepping \/ Low32(target.pc) \in st.breakpoints
  THEN Says([st EXCEPT !.stepping = FALSE], Stop(5), "cmd")
  ELSE st

HookStops ==
  /\ stub.mode = "hook" /\ stub.conn # 0
  /\ StopReason(stub) # stub
  /\ stub' = StopReason(stub)
  /\ UNCHANGED <<target, sock, backlog, gdb>>

\* Otherwise, now and then, one byte is read without waiting.
HookPolls ==
  /\ stub.mode = "hook" /\ stub.conn # 0
  /\ StopReason(stub) = stub
  /\ LET st == Poll(stub)
         run == [st EXCEPT !.mode = "exec"]
     IN  IF st.poll_ctr # 0 \/ In = <<>>
         THEN stub' = run /\ UNCHANGED sock
         ELSE /\ Read
              /\ stub' = CASE Head(In).t = "eof" -> Closed(st)
                           [] Head(In).t = "^C" -> Says(st, Stop(2), "cmd")
                           [] OTHER -> run
  /\ UNCHANGED <<target, backlog, gdb>>

\* send_packet(): to a client that is gone the write may still succeed.
SendPacket ==
  /\ stub.mode = "say"
  /\ stub' = [stub EXCEPT !.mode = "ack"]
  /\ sock' = [sock EXCEPT ![stub.conn].out =
                Append(@, IF stub.say.t = "regs" THEN [t |-> "regs", pc |-> target.pc] ELSE stub.say)]
  /\ UNCHANGED <<target, backlog, gdb>>

SendFails ==
  /\ stub.mode = "say" /\ gdb[stub.conn].st = "gone"
  /\ stub' = Closed(stub)
  /\ UNCHANGED <<target, sock, backlog, gdb>>

\* ... and one byte is taken for gdb's acknowledgement.
Acknowledged ==
  /\ stub.mode = "ack"
  /\ In # <<>>
  /\ stub' = CASE Head(In).t = "eof" \/ stub.then = "detach" -> Closed(stub)
               [] OTHER -> Quiet(stub, stub.then)
  /\ IF Head(In).t = "eof" THEN UNCHANGED sock ELSE Read
  /\ UNCHANGED <<target, backlog, gdb>>

Resume(how) ==
  /\ stub' = [stub EXCEPT !.mode = "exec", !.stepping = @ \/ how = "s"]
  /\ target' = [target EXCEPT !.since = 0, !.how = how]

\* command_loop(): bytes between packets are skipped; the end of the stream
\* closes the connection and lets the target run.
Command ==
  /\ stub.mode = "cmd"
  /\ In # <<>>
  /\ LET p == Head(In)
     IN  CASE p.t = "eof" -> stub' = Closed(stub) /\ UNCHANGED target
           [] p.t \in {"+", "^C"} -> UNCHANGED <<stub, target>>
           [] p.t = "?" -> stub' = Says(stub, Stop(5), "cmd") /\ UNCHANGED target
           [] p.t = "g" -> stub' = Says(stub, T("regs"), "cmd") /\ UNCHANGED target
           [] p.t = "G" -> stub' = Says(stub, T("ok"), "cmd") /\ target' = [target EXCEPT !.pc = p.a]
           [] p.t = "Z" -> /\ stub' = Says([stub EXCEPT !.breakpoints = @ \cup {Low32(p.a)}], T("ok"), "cmd")
                           /\ UNCHANGED target
           [] p.t = "z" -> /\ stub' = Says([stub EXCEPT !.breakpoints = @ \ {Low32(p.a)}], T("ok"), "cmd")
                           /\ UNCHANGED target
           [] p.t \in {"c", "s"} -> Resume(p.t)
           [] p.t = "D" -> stub' = Says(stub, T("ok"), "detach") /\ UNCHANGED target
           [] p.t = "k" -> stub' = Says(stub, T("ok"), "exited") /\ UNCHANGED target
           [] OTHER -> stub' = Says(stub, T("ok"), "cmd") /\ UNCHANGED target
  /\ IF Head(In).t = "eof" THEN UNCHANGED sock ELSE Read
  /\ UNCHANGED <<backlog, gdb>>

\* execMips(), an interrupt before it included.
RunTurn ==
  /\ stub.mode = "exec"
  /\ \E a \in Succ[target.pc] :
       target' = [target EXCEPT !.pc = a, !.since = IF @ < 2 THEN @ + 1 ELSE @]
  /\ stub' = [stub EXCEPT !.mode = "hook"]
  /\ UNCHANGED <<sock, backlog, gdb>>
-----------------------------------------------------------------------------
(* A client (external): asks for the state first, then one command at a time *)

Sends(c, p) == sock' = [sock EXCEPT ![c].in = Append(@, p)]

Connect(c) ==
  /\ gdb[c].st = "off"
  /\ \A d \in 1 .. c - 1 : gdb[d].st # "off"
  /\ stub.mode # "exited"
  /\ gdb' = [gdb EXCEPT ![c].st = "await"]
  /\ backlog' = Append(backlog, c)
  /\ Sends(c, T("?"))
  /\ UNCHANGED <<stub, target>>

Ask(c, p) ==
  /\ gdb[c].st = "stopped" /\ gdb[c].sent < MaxCommands[c]
  /\ Sends(c, p)
  /\ gdb' = [gdb EXCEPT ![c] = [gdb[c] EXCEPT
                                !.sent = @ + 1,
                                !.st = CASE p.t \in {"c", "s"} -> "running"
                                         [] p.t \in {"D", "k"} -> "leaving"
                                         [] p.t = "g" -> "registers"
                                         [] OTHER -> "await",
                                !.pc = CASE p.t \in {"c", "s"} -> 0
                                         [] p.t = "G" -> p.a
                                         [] OTHER -> @]]
  /\ UNCHANGED <<stub, target, backlog>>

Interrupt(c) ==
  /\ gdb[c].st = "running" /\ gdb[c].breaks < MaxBreaks[c]
  /\ Sends(c, T("^C"))
  /\ gdb' = [gdb EXCEPT ![c].breaks = @ + 1]
  /\ UNCHANGED <<stub, target, backlog>>

\* A reply of the wrong kind is noted in mixed.
Receive(c) ==
  /\ gdb[c].st \notin {"off", "gone"}
  /\ sock[c].out # <<>>
  /\ LET r == Head(sock[c].out)
         st == gdb[c].st
     IN  /\ gdb' = [gdb EXCEPT ![c] = [gdb[c] EXCEPT
                       !.st = IF st = "leaving" THEN "left" ELSE "stopped",
                       !.pc = IF r.t = "regs" THEN r.pc ELSE @,
                       !.mixed = @ \/ (r.t = "regs") # (st = "registers") \/ (st = "running" /\ r.t # "stop")]]
         /\ sock' = [sock EXCEPT ![c] = [in |-> Append(@.in, T("+")), out |-> Tail(@.out)]]
  /\ UNCHANGED <<stub, target, backlog>>

Vanish(c) ==
  /\ gdb[c].st \notin {"off", "gone"}
  /\ gdb' = [gdb EXCEPT ![c].st = "gone"]
  /\ sock' = [sock EXCEPT ![c] = [in |-> Append(@.in, T("eof")), out |-> <<>>]]
  /\ UNCHANGED <<stub, target, backlog>>

GdbNext ==
  \/ HookFree \/ HookStops \/ HookPolls \/ SendPacket \/ SendFails \/ Acknowledged \/ Command \/ RunTurn
  \/ \E c \in Clients : Connect(c) \/ Interrupt(c) \/ Receive(c) \/ Vanish(c) \/ \E p \in Commands : Ask(c, p)

GdbSpec == GdbInit /\ [][GdbNext]_gdbVars
-----------------------------------------------------------------------------
\* A client that was told the target stopped finds it stopped, with the pc it
\* knows, until it resumes it (command_loop, send_packet).
ClientCurrent ==
  \A c \in Clients :
    gdb[c].st \in {"stopped", "registers"} =>
      /\ stub.conn = c /\ stub.mode \in {"say", "ack", "cmd"}
      /\ gdb[c].pc \in {0, target.pc}

\* A target that was continued stops at every breakpoint it comes to and
\* nowhere else but for control-C; a step is one instruction (step_hook).
StopsWhereAsked ==
  /\ stub.mode = "exec" /\ stub.conn # 0 /\ Low32(target.pc) \in stub.breakpoints => target.since = 0
  /\ stub.mode = "say" /\ gdb[stub.conn].st = "running" /\ stub.say = Stop(5) /\ target.how = "c"
       => Low32(target.pc) \in stub.breakpoints
  /\ stub.mode = "exec" /\ stub.conn # 0 /\ target.how = "s" => target.since = 0

\* The debugger's view, over clients that vanish, interrupt late, or connect
\* while another one is attached; each command gets its own reply.
DebuggerExact ==
  /\ ClientCurrent
  /\ StopsWhereAsked
  /\ \A c \in Clients : ~gdb[c].mixed
=============================================================================
