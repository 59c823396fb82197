----------------------------- MODULE StreamCopy -----------------------------
(***************************************************************************)
(* apps/bidirectional_stream_copy.cc: the event loop of the applications,  *)
(* which copies the standard input to a socket and the socket to the       *)
(* standard output.  The socket is the owner's end of a TCPSpongeSocket:   *)
(* the connection takes bytes from it and puts bytes into it, ends the     *)
(* stream, and shuts the socket down both ways if it fails.  All of them   *)
(* act between any two system calls of the loop.  Bytes are numbered.      *)
(***************************************************************************)
EXTENDS ByteStream, EventLoop, FileDescriptor

CONSTANTS TypeLen, ComeLen,    \* bound: bytes typed, bytes from the connection
          BufferCap, MaxCopy,  \* buffer_size and max_copy_length
          SocketCap, OutputCap \* what the kernel holds for the socket and the output

ASSUME CopyAssumption ==
    /\ TypeLen \in Nat /\ ComeLen \in Nat
    /\ {BufferCap, MaxCopy, SocketCap, OutputCap} \subseteq Nat \ {0}

\* The four rules, in the order in which they are added, and their descriptors.
InputIn == 1
SocketOut == 2
SocketIn == 3
OutputOut == 4
Rules == 1 .. 4
FdOf == [r \in Rules |-> CASE r = InputIn -> "input" [] r = OutputOut -> "output"
                           [] OTHER -> "socket"]

VARIABLES outbound, inbound, \* the two ByteStreams
          shut,       \* _outbound_shutdown and _inbound_shutdown
          fd,         \* the descriptors as FileDescriptor sees them
          loop, pc,   \* _eventloop and where it is
          typed, typedEnd, typedRead,  \* the standard input: bytes, end, bytes read
          came, cameEnd, cameRead,     \* the socket, likewise
          toSocket, taken,             \* bytes written to the socket; how many are taken
          toOutput, eaten,             \* bytes written to the output; how many are read
          failed,     \* the connection has failed and its thread has shut the socket
          deaf,       \* nobody reads the output any more
          why,        \* why the loop has ended
          fault       \* the exception or signal that ended the process

copyVars == <<outbound, inbound, shut, fd, loop, pc, typedRead, cameRead, toSocket,
              toOutput, why, fault>>
worldVars == <<typed, typedEnd, came, cameEnd, taken, eaten, failed, deaf>>
vars == <<copyVars, worldVars>>

Init ==
    /\ outbound = NewByteStream(BufferCap) /\ inbound = NewByteStream(BufferCap)
    /\ shut = [outbound |-> FALSE, inbound |-> FALSE]
    /\ fd = [d \in {"input", "socket", "output"} |-> NewFd]
    /\ loop = NewLoop(Rules) /\ pc = "setup"
    /\ typed = 0 /\ typedEnd = FALSE /\ typedRead = 0
    /\ came = 0 /\ cameEnd = FALSE /\ cameRead = 0
    /\ toSocket = <<>> /\ taken = 0
    /\ toOutput = <<>> /\ eaten = 0
    /\ failed = FALSE /\ deaf = FALSE
    /\ why = "running" /\ fault = "none"

-----------------------------------------------------------------------------
(* What poll(2) says of the descriptors. *)

SocketRoom == SocketCap - (Len(toSocket) - taken)
OutputRoom == OutputCap - (Len(toOutput) - eaten)

\* The end of a pipe is a hangup without an event, that of a file or a terminal
\* an event; the socket is readable at its end.
Ready(r, inputIsPipe) ==
    CASE r = InputIn -> typedRead < typed \/ (typedEnd /\ ~ inputIsPipe)
      [] r = SocketOut -> SocketRoom > 0
      [] r = SocketIn -> cameRead < came \/ cameEnd
      [] OTHER -> OutputRoom > 0

Hangup(r, inputIsPipe) ==
    CASE r = InputIn -> typedEnd /\ inputIsPipe
      [] r \in {SocketOut, SocketIn} -> failed \/ (shut.outbound /\ cameEnd)
      [] OTHER -> FALSE

\* POLLERR and POLLNVAL, which come unasked.
PollError(r) == fd[FdOf[r]].closed \/ (r = OutputOut /\ deaf)

-----------------------------------------------------------------------------
(* The rules. *)

\* Mutant: the end of the outbound stream is announced again and again.
SocketOutInterestedAgain == ~ BufferEmpty(outbound)' \/ Eof(outbound)'

SocketOutInterested ==
    ~ BufferEmpty(outbound)' \/ (Eof(outbound)' /\ ~ shut'.outbound)

\* Mutant: rule 4 waits for bytes, not for the end of the inbound stream.
OutputOutInterestedInBytes == ~ BufferEmpty(inbound)'

OutputOutInterested ==
    ~ BufferEmpty(inbound)' \/ (Eof(inbound)' /\ ~ shut'.inbound)

\* Asked after a callback or a cancellation has left the streams as they are.
\* (Neither stream is ever given an error.)
Interested(r) ==
    CASE r = InputIn -> outbound'.capacity > 0
      [] r = SocketOut -> SocketOutInterested
      [] r = SocketIn -> inbound'.capacity > 0
      [] OTHER -> OutputOutInterested

\* An exception, or SIGPIPE, ends the process.
Fail(f) == fault' = f /\ pc' = "dead"

\* The end of a callback: every one of them has read or written its descriptor, so
\* that the test for a busy wait passes.
Return(r) ==
    /\ loop' = Handled(loop, r)
    /\ UNCHANGED <<pc, why, fault, worldVars>>

\* A stream after the callback of its In rule.
Filled(stream, data, eof) ==
    IF eof THEN EndInput(Write(stream, data)) ELSE Write(stream, data)

ReadInput ==
    \E n \in ReadLengths(typed - typedRead, outbound.capacity) :
        LET after == AfterRead(fd["input"], n, outbound.capacity)
        IN /\ outbound' = Filled(outbound, Excerpt(typedRead, typedRead + n), after.eof)
           /\ fd' = [fd EXCEPT !["input"] = after]
           /\ typedRead' = typedRead + n
           /\ UNCHANGED <<inbound, shut, cameRead, toSocket, toOutput>>
           /\ Return(InputIn)

ReadSocket ==
    \E n \in ReadLengths(came - cameRead, inbound.capacity) :
        LET after == AfterRead(fd["socket"], n, inbound.capacity)
        IN /\ inbound' = Filled(inbound, Excerpt(cameRead, cameRead + n), after.eof)
           /\ fd' = [fd EXCEPT !["socket"] = after]
           /\ cameRead' = cameRead + n
           /\ UNCHANGED <<outbound, shut, typedRead, toSocket, toOutput>>
           /\ Return(SocketIn)

\* How much an Out rule offers.
Offered(stream) == PeekOutput(stream, MinOf(MaxCopy, BufferSize(stream)))

\* Mutant: all that was offered is popped.
PoppedAll(stream, n) == PopOutput(stream, Len(Offered(stream)))

\* A stream of which n bytes were written.
Popped(stream, n) == PopOutput(stream, n)

BrokenPipe ==
    /\ Fail("broken pipe")
    /\ UNCHANGED <<outbound, inbound, shut, fd, loop, typedRead, cameRead, toSocket,
                   toOutput, why, worldVars>>

\* Writing nothing is no error; shutdown() of a socket that is shut down neither.
WriteSocket ==
    LET offered == Offered(outbound)
    IN IF offered # <<>> /\ (failed \/ shut.outbound)
         THEN BrokenPipe
         ELSE \E n \in WriteLengths(Len(offered), SocketRoom) :
                /\ outbound' = Popped(outbound, n)
                /\ toSocket' = toSocket \o SubSeq(offered, 1, n)
                /\ shut' = [shut EXCEPT !.outbound = @ \/ Eof(outbound)']
                /\ UNCHANGED <<inbound, fd, typedRead, cameRead, toOutput>>
                /\ Return(SocketOut)

WriteOutput ==
    LET offered == Offered(inbound)
    IN IF offered # <<>> /\ deaf
         THEN BrokenPipe
         ELSE \E n \in WriteLengths(Len(offered), OutputRoom) :
                /\ inbound' = Popped(inbound, n)
                /\ toOutput' = toOutput \o SubSeq(offered, 1, n)
                /\ shut' = [shut EXCEPT !.inbound = @ \/ Eof(inbound)']
                /\ fd' = [fd EXCEPT !["output"] = IF Eof(inbound)' THEN AfterClose(@) ELSE @]
                /\ UNCHANGED <<outbound, typedRead, cameRead, toSocket>>
                /\ Return(OutputOut)

\* The cancel callbacks: the stream of the rule ends.
CancelAll(rules) ==
    /\ outbound' = IF rules \cap {InputIn, SocketOut} # {} THEN EndInput(outbound) ELSE outbound
    /\ inbound' = IF rules \cap {SocketIn, OutputOut} # {} THEN EndInput(inbound) ELSE inbound

-----------------------------------------------------------------------------
(* The loop. *)

\* Mutant: a rule stays although its descriptor was closed.
DefunctAtEof == {r \in loop.rules \cap {InputIn, SocketIn} : fd[FdOf[r]].eof}

\* A rule that reads at the end of its file, and any whose descriptor is closed.
Defunct ==
    {r \in loop.rules : (r \in {InputIn, SocketIn} /\ fd[FdOf[r]].eof) \/ fd[FdOf[r]].closed}

Prepare ==
    /\ pc = "setup"
    /\ CancelAll(Defunct)
    /\ UNCHANGED <<shut, fd, typedRead, cameRead, toSocket, toOutput, fault, worldVars>>
    /\ loop' = SetUp([loop EXCEPT !.rules = @ \ Defunct], {r \in Rules : Interested(r)})
    /\ IF NothingToPoll(loop')
         THEN pc' = "done" /\ why' = "exit"
         ELSE pc' = "poll" /\ UNCHANGED why

\* poll(2) waits for an event asked for, or for a hangup or an error, asked or not.
Poll(inputIsPipe) ==
    LET ready == {r \in Rules : Ready(r, inputIsPipe)}
        hangup == {r \in Rules : Hangup(r, inputIsPipe)}
        errors == {r \in Rules : PollError(r)}
    IN /\ pc = "poll"
       /\ (loop.events \cap ready) \cup (loop.rules \cap (hangup \cup errors)) # {}
       /\ UNCHANGED <<outbound, inbound, shut, fd, typedRead, cameRead, toSocket, toOutput,
                      why, fault, worldVars>>
       /\ loop' = Polled(loop, ready, hangup, errors)
       /\ pc' = "dispatch"

\* poll(2) is interrupted by a signal: Result::Exit.
Interrupted ==
    /\ pc = "poll"
    /\ pc' = "done" /\ why' = "signal"
    /\ UNCHANGED <<outbound, inbound, shut, fd, loop, typedRead, cameRead, toSocket,
                   toOutput, fault, worldVars>>

\* The exception at a descriptor that poll(2) reported an error for.
Throw ==
    /\ Fail("poll error")
    /\ UNCHANGED <<outbound, inbound, shut, fd, loop, typedRead, cameRead, toSocket,
                   toOutput, why, worldVars>>

Cancel(r) ==
    /\ CancelAll({r})
    /\ loop' = Handled(Erase(loop, r), r)
    /\ UNCHANGED <<shut, fd, pc, typedRead, cameRead, toSocket, toOutput, why, fault,
                   worldVars>>

Callback(r) ==
    \/ r = InputIn /\ ReadInput
    \/ r = SocketOut /\ WriteSocket
    \/ r = SocketIn /\ ReadSocket
    \/ r = OutputOut /\ WriteOutput

Dispatch ==
    /\ pc = "dispatch" /\ ~ AllHandled(loop)
    /\ LET r == Current(loop)
       IN \/ r \in loop.error /\ Throw
          \/ r \in loop.hung \ loop.error /\ Cancel(r)
          \/ r \in loop.ready \ loop.error /\ Callback(r)

Again ==
    /\ pc = "dispatch" /\ AllHandled(loop)
    /\ pc' = "setup"
    /\ UNCHANGED <<outbound, inbound, shut, fd, loop, typedRead, cameRead, toSocket,
                   toOutput, why, fault, worldVars>>

Copy == Prepare \/ (\E inputIsPipe \in BOOLEAN : Poll(inputIsPipe)) \/ Dispatch \/ Again

-----------------------------------------------------------------------------
(* The world: who types, the connection, who reads the output. *)

Type ==
    /\ ~ typedEnd
    /\ \/ typed < TypeLen /\ typed' = typed + 1 /\ UNCHANGED typedEnd
       \/ typedEnd' = TRUE /\ UNCHANGED typed
    /\ UNCHANGED <<copyVars, came, cameEnd, taken, eaten, failed, deaf>>

Come ==
    /\ ~ cameEnd
    /\ \/ came < ComeLen /\ came' = came + 1 /\ UNCHANGED cameEnd
       \/ cameEnd' = TRUE /\ UNCHANGED came
    /\ UNCHANGED <<copyVars, typed, typedEnd, taken, eaten, failed, deaf>>

Take ==
    /\ ~ failed /\ taken < Len(toSocket)
    /\ taken' = taken + 1
    /\ UNCHANGED <<copyVars, typed, typedEnd, came, cameEnd, eaten, failed, deaf>>

\* The thread of a connection that has failed ends: shutdown(SHUT_RDWR).
ConnectionFails ==
    /\ ~ failed
    /\ failed' = TRUE /\ cameEnd' = TRUE
    /\ UNCHANGED <<copyVars, typed, typedEnd, came, taken, eaten, deaf>>

Eat ==
    /\ ~ deaf /\ eaten < Len(toOutput)
    /\ eaten' = eaten + 1
    /\ UNCHANGED <<copyVars, typed, typedEnd, came, cameEnd, taken, failed, deaf>>

GoDeaf ==
    /\ ~ deaf
    /\ deaf' = TRUE
    /\ UNCHANGED <<copyVars, typed, typedEnd, came, cameEnd, taken, eaten, failed>>

Next == Copy \/ Interrupted \/ Type \/ Come \/ Take \/ ConnectionFails \/ Eat \/ GoDeaf

Spec == Init /\ [][Next]_vars

\* The loop runs, the connection takes what it is given and the output is read.
FairSpec == Spec /\ WF_vars(Copy) /\ WF_vars(Take) /\ WF_vars(Eat)

-----------------------------------------------------------------------------
Over == fault # "none" \/ why = "signal"

InputToSocket == INSTANCE ReliableStream WITH
    sent <- typed, closed <- typedEnd, arrived <- toSocket, ended <- shut.outbound,
    failed <- Over

SocketToOutput == INSTANCE ReliableStream WITH
    sent <- came, closed <- cameEnd, arrived <- toOutput, ended <- fd["output"].closed,
    failed <- Over

\* In both directions the copy is a reliable stream, in whatever portions reads
\* and writes are done and whoever hangs up: nothing is lost, doubled or out of
\* order, and an end is passed on only behind the last byte.
CopiesBothWays == InputToSocket!Spec /\ SocketToOutput!Spec

\* The loop is ended by an exception or a signal only if the connection fails
\* under it or nobody reads the output: it never acts on a descriptor that it
\* has closed or shut down itself.
FaultsOnlyFromOutside ==
    /\ fault = "broken pipe" => failed \/ deaf
    /\ fault = "poll error" => deaf

\* When the loop ends by itself all has been copied, both ends included, but for
\* what a failed connection could not take.
ExitMeansCopied ==
    why = "exit" =>
        /\ fd["output"].closed /\ toOutput = Excerpt(0, came)
        /\ failed \/ (shut.outbound /\ toSocket = Excerpt(0, typed))

\* Once both inputs have ended the loop ends, also if the connection takes no
\* more: the hangup must be noticed, and no rule may stay interested.
CopyEnds == (typedEnd /\ cameEnd) ~> (pc \in {"done", "dead"})
=============================================================================
