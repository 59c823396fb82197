-------------------------- MODULE TCPSpongeSocket --------------------------
(***************************************************************************)
(* libsponge/tcp_helpers/tcp_sponge_socket.{hh,cc}: the wrapper that runs  *)
(* a TCPConnection in a thread of its own, between the datagram socket and *)
(* a socket pair whose other end the owner reads and writes.  The thread's *)
(* event loop and the owner interleave between any two system calls.       *)
(*                                                                         *)
(* The connection is what its owner sees of it: the two streams, the       *)
(* number of queued segments, whether the handshake is under way and       *)
(* whether it is active.  When acknowledgments come, and what is in them,  *)
(* is left open.  Bytes are numbered in both directions.                   *)
(***************************************************************************)
EXTENDS ByteStream, EventLoop

CONSTANTS InLen, OutLen,   \* bound: bytes the peer and the owner send
          InCap, OutCap,   \* TCPConfig::recv_capacity and send_capacity
          PipeCap,         \* what the kernel holds in each direction of the pair
          MaxSegs          \* bound on _segments_out

ASSUME SocketAssumption ==
    /\ InLen \in Nat /\ OutLen \in Nat /\ InCap \in Nat
    /\ OutCap \in Nat \ {0} /\ PipeCap \in Nat \ {0} /\ MaxSegs \in Nat \ {0}

\* The four rules, in the order of _initialize_TCP().
DatagramIn == 1
PipeIn == 2
PipeOut == 3
DatagramOut == 4
Rules == 1 .. 4

VARIABLES tcp,    \* _tcp; keeps its last value when the thread resets it
          loop,   \* _eventloop
          pc,     \* where in _tcp_loop() or _tcp_main() the loop is
          phase,  \* who runs it: connect(), listen_and_accept(), or the thread
          pipe,   \* the socket pair, _thread_data's end-of-file flag included, and
                  \* whether the owner has closed its end
          shut,   \* _inbound_shutdown and _outbound_shutdown
          abort,  \* _abort
          wire,   \* is a datagram waiting?
          owner,  \* what the owner is doing
          put, got, \* bytes the owner has written and read
          why,    \* why _tcp_main()'s loop has ended
          fault   \* the exception or signal that ended the process

vars == <<tcp, loop, pc, phase, pipe, shut, abort, wire, owner, put, got, why, fault>>
ownerVars == <<abort, owner, put, got>>

-----------------------------------------------------------------------------
(* The connection.  Each operator gives the set of its states after a call. *)

TcpType == [active : BOOLEAN, opening : BOOLEAN, out : ByteStreamType(Nat),
            inb : ByteStreamType(Nat), segs : 0 .. MaxSegs]

NewTcp(segs) == [active |-> TRUE, opening |-> TRUE, out |-> NewByteStream(OutCap),
                 inb |-> NewByteStream(InCap), segs |-> segs]

Queued(c) == [c EXCEPT !.segs = MinOf(@ + 1, MaxSegs)]

\* fill_window() and send_segments().
Sent(c) ==
    LET Taken(n) == [c EXCEPT !.out = Read(@, n)]
    IN UNION {{Taken(n), Queued(Taken(n))} : n \in 0 .. Len(c.out.que)}

AbortTcp(c) == [c EXCEPT !.active = FALSE, !.out = SetError(@), !.inb = SetError(@)]

\* try_clean_close(); whether all is acknowledged and lingered is left open.
Closed(c) ==
    {c} \cup IF Eof(c.out) /\ c.inb.end THEN {[c EXCEPT !.active = FALSE]} ELSE {}

\* What the receiver may have assembled.
Assembled(b) ==
    LET w == b.writtensize
        News == {Write(b, Excerpt(w, w + n)) : n \in 0 .. MinOf(b.capacity, InLen - w)}
        Ends == {EndInput(x) : x \in {y \in News : y.writtensize = InLen}}
    IN IF b.end THEN {b} ELSE News \cup Ends

\* The handshake may go on while bytes come (a SYN with bytes, or bytes before the
\* SYN is acknowledged), but not once the stream has ended.
TakenIn(c, b, goesOn) == [c EXCEPT !.inb = b, !.opening = @ /\ goesOn /\ ~ b.end]

Received(c) == {TakenIn(c, b, goesOn) : b \in Assembled(c.inb), goesOn \in BOOLEAN}

AfterSegment(c) ==
    {AbortTcp(c)} \cup UNION {Closed(e) : e \in UNION {Sent(d) : d \in Received(c)}}

AfterTick(c) ==
    {AbortTcp(Queued(c))} \cup Closed(c) \cup Closed(Queued(c))

AfterWrite(c, data) == UNION {Closed(d) : d \in Sent([c EXCEPT !.out = Write(@, data)])}

AfterEndInput(c) == Sent([c EXCEPT !.out = EndInput(@)])

\* state() is one of those in which connect() and listen_and_accept() wait.
Handshaking(c) == c.active /\ c.opening

-----------------------------------------------------------------------------
(* The socket pair: down from the owner to the thread, up to the owner.     *)

PipeType == [down : Seq(Nat), up : Seq(Nat), downShut : BOOLEAN, upShut : BOOLEAN,
             eof : BOOLEAN, closed : BOOLEAN]

NewPipe == [down |-> <<>>, up |-> <<>>, downShut |-> FALSE, upShut |-> FALSE,
            eof |-> FALSE, closed |-> FALSE]

\* shutdown(SHUT_RDWR) of the owner's end, by the owner or by the thread.
ShutBoth(p) == [p EXCEPT !.downShut = TRUE, !.upShut = TRUE]

\* poll(2) on the four file descriptors.
Ready(r) ==
    CASE r = DatagramIn -> wire
      [] r = PipeIn -> pipe.down # <<>> \/ pipe.downShut
      [] r = PipeOut -> Len(pipe.up) < PipeCap
      [] OTHER -> TRUE

Hangup(r) == r \in {PipeIn, PipeOut} /\ pipe.downShut /\ pipe.upShut

-----------------------------------------------------------------------------
(* The rules. *)

\* Mutant: datagrams are read whatever has become of the connection.
DatagramInInterestedAlways(c) == TRUE

DatagramInInterested(c) == c.active

\* Mutant: rule 3 waits for bytes, not for the end of the inbound stream.
PipeOutInterestedInBytes(c, s) == ~ BufferEmpty(c.inb)

\* Mutant: rule 3 waits for a full buffer or the end of the inbound stream.
PipeOutInterestedInFull(c, s) ==
    \/ ~ BufferEmpty(c.inb) /\ (c.inb.capacity = 0 \/ c.inb.end)
    \/ (Eof(c.inb) \/ c.inb.error) /\ ~ s.inbound

PipeOutInterested(c, s) ==
    \/ ~ BufferEmpty(c.inb)
    \/ (Eof(c.inb) \/ c.inb.error) /\ ~ s.inbound

Interested(r, c, s) ==
    CASE r = DatagramIn -> DatagramInInterested(c)
      [] r = PipeIn -> c.active /\ ~ s.outbound /\ c.out.capacity > 0
      [] r = PipeOut -> PipeOutInterested(c, s)
      [] OTHER -> c.segs > 0

\* An exception in the loop, or SIGPIPE, ends the process.
Fail(f) == /\ fault' = f
           /\ pc' = "dead"

\* The end of a callback that leaves tcp and shut as given.
Return(r, serviced) ==
    /\ IF BusyWait(serviced, Interested(r, tcp', shut'))
         THEN Fail("busy wait")
         ELSE UNCHANGED <<fault, pc>>
    /\ loop' = Handled(loop, r)
    /\ UNCHANGED <<phase, why, ownerVars>>

\* Rule 1.  The adapter returns a segment of this connection, or nothing.
ReadDatagram ==
    /\ wire' = FALSE
    /\ tcp' \in {tcp} \cup AfterSegment(tcp)
    /\ UNCHANGED <<pipe, shut>>
    /\ Return(DatagramIn, TRUE)

\* Rule 2.  The read is limited by the room in the outbound stream.
ReadPipe ==
    LET n == MinOf(Len(pipe.down), tcp.out.capacity)
        data == SubSeq(pipe.down, 1, n)
        eof == n = 0 /\ tcp.out.capacity > 0
    IN /\ pipe' = [pipe EXCEPT !.down = SubSeq(@, n + 1, Len(@)), !.eof = @ \/ eof]
       /\ shut' = [shut EXCEPT !.outbound = @ \/ eof]
       /\ \E c \in AfterWrite(tcp, data) : tcp' \in IF eof THEN AfterEndInput(c) ELSE {c}
       /\ UNCHANGED wire
       /\ IF WriteSize(tcp.out, data) # n
            THEN /\ Fail("short write")
                 /\ UNCHANGED <<loop, phase, why, ownerVars>>
            ELSE Return(PipeIn, TRUE)

\* Mutant: all that was offered to the pipe is popped.
PoppedAll(offered, written) == offered

\* Mutant: what is left of the inbound stream is not waited for.
InboundOverAtEnd(b) == b.end \/ b.error

\* How much rule 3 pops.
Popped(offered, written) == written

\* Rule 3 tells the owner that no more will come.
InboundOver(b) == Eof(b) \/ b.error

\* Rule 3.  Writing to a pipe that was shut down is SIGPIPE.
WritePipe ==
    LET n == BufferSize(tcp.inb)
        w == MinOf(n, PipeCap - Len(pipe.up))
        inb == PopOutput(tcp.inb, Popped(n, w))
        over == InboundOver(inb)
    IN IF pipe.upShut /\ n > 0
         THEN /\ Fail("broken pipe")
              /\ UNCHANGED <<tcp, loop, phase, pipe, shut, wire, why, ownerVars>>
         ELSE /\ tcp' = [tcp EXCEPT !.inb = inb]
              /\ pipe' = [pipe EXCEPT !.up = @ \o SubSeq(tcp.inb.que, 1, w),
                                      !.upShut = @ \/ over]
              /\ shut' = [shut EXCEPT !.inbound = @ \/ over]
              /\ UNCHANGED wire
              /\ Return(PipeOut, TRUE)

\* Mutant: one segment a call.
LeftAfterSendOne(segs) == segs - 1

\* Rule 4 sends all that is queued.
LeftAfterSend(segs) == 0

\* Rule 4.  LossyFdAdapter may drop them all, and then nothing is written.
WriteDatagrams ==
    /\ tcp' = [tcp EXCEPT !.segs = LeftAfterSend(@)]
    /\ UNCHANGED <<pipe, shut, wire>>
    /\ \E serviced \in BOOLEAN : Return(DatagramOut, serviced)

-----------------------------------------------------------------------------
(* _tcp_loop(). *)

Init == /\ \E segs \in {0, 1} : tcp = NewTcp(segs)   \* listen_and_accept(), connect()
        /\ loop = NewLoop(Rules)
        /\ pc = "setup"
        /\ phase = "handshake"
        /\ pipe = NewPipe
        /\ shut = [inbound |-> FALSE, outbound |-> FALSE]
        /\ abort = FALSE
        /\ wire = FALSE
        /\ owner = "blocked"
        /\ put = 0 /\ got = 0
        /\ why = "running"
        /\ fault = "none"

\* The loop ends for a reason.  In connect() and listen_and_accept() the thread
\* is started whatever it was, and the owner goes on.
Leave(reason) ==
    IF phase = "handshake"
      THEN /\ pc' = "setup" /\ phase' = "thread" /\ owner' = "using"
           /\ UNCHANGED why
      ELSE /\ pc' = "main" /\ why' = reason
           /\ UNCHANGED <<phase, owner>>

\* The condition of the loop of connect() or listen_and_accept() is false.
Opened ==
    /\ pc = "setup" /\ phase = "handshake" /\ ~ Handshaking(tcp)
    /\ Leave("opened")
    /\ UNCHANGED <<tcp, loop, pipe, shut, abort, wire, put, got, fault>>

\* Rule 2 is cancelled once the pipe has reached its end.
PipeEnded == PipeIn \in loop.rules /\ pipe.eof

Prepare ==
    /\ pc = "setup" /\ (phase = "thread" \/ Handshaking(tcp))
    /\ tcp' \in IF PipeEnded THEN AfterEndInput(tcp) ELSE {tcp}
    /\ shut' = [shut EXCEPT !.outbound = @ \/ PipeEnded]
    /\ LET rest == IF PipeEnded THEN Erase(loop, PipeIn) ELSE loop
       IN loop' = SetUp(rest, {r \in Rules : Interested(r, tcp', shut')})
    /\ IF NothingToPoll(loop')
         THEN Leave("exit")
         ELSE pc' = "poll" /\ UNCHANGED <<phase, owner, why>>
    /\ UNCHANGED <<pipe, abort, wire, put, got, fault>>

Poll ==
    /\ pc = "poll"
    /\ loop' = Polled(loop, {r \in Rules : Ready(r)}, {r \in Rules : Hangup(r)}, {})
    /\ pc' = "dispatch"
    /\ UNCHANGED <<tcp, phase, pipe, shut, wire, ownerVars, why, fault>>

\* poll(2) is interrupted by a signal: Result::Exit.
Interrupted ==
    /\ pc = "poll"
    /\ Leave("signal")
    /\ UNCHANGED <<tcp, loop, pipe, shut, abort, wire, put, got, fault>>

\* A hangup cancels the rule: rule 2 ends the outbound stream, rule 3 has no
\* cancel callback.
Cancel(r) ==
    /\ tcp' \in IF r = PipeIn THEN AfterEndInput(tcp) ELSE {tcp}
    /\ shut' = [shut EXCEPT !.outbound = @ \/ r = PipeIn]
    /\ loop' = Handled(Erase(loop, r), r)
    /\ UNCHANGED <<pc, phase, pipe, wire, ownerVars, why, fault>>

Callback(r) ==
    \/ r = DatagramIn /\ ReadDatagram
    \/ r = PipeIn /\ ReadPipe
    \/ r = PipeOut /\ WritePipe
    \/ r = DatagramOut /\ WriteDatagrams

Dispatch ==
    /\ pc = "dispatch" /\ ~ AllHandled(loop)
    /\ LET r == Current(loop)
       IN IF r \in loop.hung THEN Cancel(r) ELSE Callback(r)

\* Lines 29-38.
AfterEvents ==
    /\ pc = "dispatch" /\ AllHandled(loop)
    /\ IF abort
         THEN Leave("abort") /\ UNCHANGED tcp
         ELSE /\ tcp' \in IF tcp.active THEN AfterTick(tcp) ELSE {tcp}
              /\ pc' = "setup"
              /\ UNCHANGED <<phase, owner, why>>
    /\ UNCHANGED <<loop, pipe, shut, abort, wire, put, got, fault>>

\* The end of _tcp_main(): the owner's end is shut down, the connection goes.  If
\* the owner has closed its end, shutdown() throws.
Finish ==
    /\ pc = "main"
    /\ IF pipe.closed
         THEN Fail("bad descriptor") /\ UNCHANGED pipe
         ELSE pc' = "done" /\ pipe' = ShutBoth(pipe) /\ UNCHANGED fault
    /\ UNCHANGED <<tcp, loop, phase, shut, wire, ownerVars, why>>

Thread == Opened \/ Prepare \/ Poll \/ Interrupted \/ Dispatch \/ AfterEvents \/ Finish

-----------------------------------------------------------------------------
(* The owner, as the applications behave, and the network. *)

loopVars == <<tcp, loop, pc, phase, shut, wire, why, fault>>

OwnerWrite ==
    /\ owner \in {"using", "eof"} /\ fault = "none"
    /\ ~ pipe.downShut /\ Len(pipe.down) < PipeCap /\ put < OutLen
    /\ pipe' = [pipe EXCEPT !.down = Append(@, put)]
    /\ put' = put + 1
    /\ UNCHANGED <<loopVars, abort, owner, got>>

OwnerShutWrite ==
    /\ owner \in {"using", "eof"} /\ fault = "none"
    /\ ~ pipe.downShut
    /\ pipe' = [pipe EXCEPT !.downShut = TRUE]
    /\ UNCHANGED <<loopVars, ownerVars>>

\* read(): bytes, or the end of the stream.
OwnerRead ==
    /\ owner = "using" /\ fault = "none"
    /\ \/ /\ pipe.up # <<>>
          /\ pipe' = [pipe EXCEPT !.up = Tail(@)]
          /\ got' = got + 1
          /\ UNCHANGED owner
       \/ /\ pipe.up = <<>> /\ pipe.upShut
          /\ owner' = "eof"
          /\ UNCHANGED <<pipe, got>>
    /\ UNCHANGED <<loopVars, abort, put>>

\* wait_until_closed(), called as its comment advises, and ~TCPSpongeSocket().
OwnerWait ==
    /\ owner = "eof" /\ fault = "none"
    /\ pipe' = ShutBoth(pipe)
    /\ owner' = "joining"
    /\ UNCHANGED <<loopVars, abort, put, got>>

\* webget closes its end first: wait_until_closed() throws, and the destructor runs.
OwnerClose ==
    /\ owner = "eof" /\ fault = "none"
    /\ pipe' = [ShutBoth(pipe) EXCEPT !.closed = TRUE]
    /\ owner' = "closed"
    /\ UNCHANGED <<loopVars, abort, put, got>>

OwnerDestroy ==
    /\ owner \in {"using", "eof", "closed"} /\ fault = "none"
    /\ abort' = TRUE
    /\ owner' = "joining"
    /\ UNCHANGED <<loopVars, pipe, put, got>>

OwnerJoin ==
    /\ owner = "joining" /\ pc = "done"
    /\ owner' = "gone"
    /\ UNCHANGED <<loopVars, pipe, abort, put, got>>

Arrival ==
    /\ ~ wire /\ pc \notin {"done", "dead"}
    /\ wire' = TRUE
    /\ UNCHANGED <<tcp, loop, pc, phase, pipe, shut, ownerVars, why, fault>>

Next == \/ Thread
        \/ OwnerWrite \/ OwnerShutWrite \/ OwnerRead
        \/ OwnerWait \/ OwnerClose \/ OwnerDestroy \/ OwnerJoin
        \/ Arrival

Spec == Init /\ [][Next]_vars

FairSpec == Spec /\ WF_vars(Thread) /\ WF_vars(OwnerRead)

-----------------------------------------------------------------------------
TypeOK ==
    /\ tcp \in TcpType /\ pipe \in PipeType
    /\ loop \in LoopType(Rules) /\ loop.ready \cup loop.hung \subseteq loop.rules
    /\ pc \in {"setup", "poll", "dispatch", "main", "done", "dead"}
    /\ phase \in {"handshake", "thread"}
    /\ shut \in [inbound : BOOLEAN, outbound : BOOLEAN]
    /\ abort \in BOOLEAN /\ wire \in BOOLEAN
    /\ owner \in {"blocked", "using", "eof", "closed", "joining", "gone"}
    /\ put \in 0 .. OutLen /\ got \in 0 .. InLen
    /\ why \in {"running", "exit", "abort", "signal"}
    /\ fault \in {"none", "busy wait", "short write", "broken pipe", "bad descriptor"}

\* Every byte is in exactly one place on its way through the thread, and in
\* order: what the owner wrote is in the pipe or was accepted by the
\* connection, what the connection has assembled is with the owner, in the
\* pipe or in the inbound stream.
BytesCross ==
    /\ tcp.out.que \o pipe.down = Excerpt(tcp.out.readsize, put)
    /\ pipe.up \o tcp.inb.que = Excerpt(got, tcp.inb.writtensize)

\* No exception leaves the loop, although interest is asked before poll(2), and
\* the callbacks of the rules before have run since: the read fits the stream,
\* no rule stays interested without acting.  Two exceptions: after a reset rule 3
\* shuts the pipe down with bytes left to write, and writes them; and an owner that
\* closes its socket before waiting (webget) makes the thread's last shutdown() fail.
NoFault ==
    \/ fault = "none"
    \/ fault = "broken pipe" /\ tcp.inb.error
    \/ fault = "bad descriptor" /\ pipe.closed

\* The owner reads an end of the stream only at the end of the peer's stream,
\* unless the connection was reset or its thread was stopped.
EofHonest ==
    owner = "eof" =>
        \/ tcp.inb.end /\ got = tcp.inb.writtensize
        \/ tcp.inb.error
        \/ why = "signal"

\* When the loop of the thread ends for want of anything to poll, the connection
\* is over, nothing is left to send and the owner has been told.
CleanExit ==
    why = "exit" => ~ tcp.active /\ tcp.segs = 0 /\ pipe.upShut

Ended == pc \in {"done", "dead"}

\* join() returns, in the destructor whatever peer, network and owner do, and in
\* wait_until_closed() once the connection is over and the owner has read: no
\* rule stays interested for ever in a connection that is over.
ThreadEnds == (abort \/ ~ tcp.active) ~> Ended

\* What the connection has assembled reaches an owner who reads, once connect() or
\* listen_and_accept() has returned to it.
Delivered ==
    \A n \in 1 .. InLen :
        (tcp.inb.writtensize >= n /\ phase = "thread") ~>
            (got >= n \/ abort \/ tcp.inb.error \/ why = "signal")
=============================================================================
