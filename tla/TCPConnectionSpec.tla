------------------------- MODULE TCPConnectionSpec -------------------------
(***************************************************************************)
(* Two TCPConnections and the network between them.  A segment is under    *)
(* way as long as it is in the _segments_out of the endpoint that made it: *)
(* the owner's queue and the network are one channel, which delivers in    *)
(* order but for a bounded number of faults (a segment lost, delivered     *)
(* twice, or overtaken).  The owner (TCPSpongeSocket) calls a connection   *)
(* only while it is active, but for the end of input and for reads.        *)
(***************************************************************************)
EXTENDS TCPState, SequencesExt

CONSTANTS SendCapacity, \* TCPConfig::send_capacity
          Rto,          \* TCPConfig::rt_timeout
          Isn,          \* [Endpoint -> Uint32], the initial sequence numbers
          Scenarios,    \* the scenarios of this instance, see below
          FaultKinds,   \* a subset of {"lose", "repeat", "overtake"}
          MaxFaults,    \* bound on the faults of the network
          MaxQueue,     \* bound on the segments under way in one direction
          Prompt        \* is every segment delivered within a unit of time?

Endpoint == {"A", "B"}
Peer(e) == IF e = "A" THEN "B" ELSE "A"

\* What the two owners do: how many bytes each of them writes, who calls connect(),
\* who ends its input before the connection is opened (tcp_benchmark does), who
\* destructs an active connection; and TCPConfig::recv_capacity.  The calls come in
\* any order, or in that of apps/tcp_benchmark.cc, where A is x and B is y.
ScenarioType ==
    [streamLen : [Endpoint -> Nat], openers : SUBSET Endpoint, earlyEnd : SUBSET Endpoint,
     destructors : SUBSET Endpoint, recvCapacity : Nat,
     benchmark : {"no", "in order", "reversed"}]

ASSUME EndpointsAssumption ==
    /\ SendCapacity \in Nat
    /\ Rto \in Nat /\ Rto > 0
    /\ Isn \in [Endpoint -> Uint32]
    /\ \A s \in Scenarios :
         /\ s \in ScenarioType
         /\ s.recvCapacity > 0 /\ s.recvCapacity < Wrap16
         /\ s.recvCapacity + 2 < Half32
         /\ \A e \in Endpoint : s.streamLen[e] + 3 < Half32
         /\ \A e \in s.earlyEnd : s.streamLen[e] = 0
         /\ s.benchmark # "no" =>
              /\ s.streamLen["A"] > 0 /\ SendCapacity > 0
              /\ s.openers = {"A"} /\ s.earlyEnd = {"B"} /\ s.destructors = {}
    /\ FaultKinds \subseteq {"lose", "repeat", "overtake"}
    /\ MaxFaults \in Nat /\ MaxQueue \in Nat
    /\ Prompt \in BOOLEAN

VARIABLES conn,     \* [Endpoint -> ConnectionType]
          gone,     \* the endpoints whose TCPConnection has been destructed
          faults,   \* how many faults there have been
          scenario, \* one of Scenarios, never changed
          turn      \* where the loop of the benchmark is

vars == <<conn, gone, faults, scenario, turn>>

StreamLen(e) == scenario.streamLen[e]

Init == /\ scenario \in Scenarios
        /\ conn = [e \in Endpoint |->
                     NewConnection(SendCapacity, scenario.recvCapacity, Rto, Isn[e])]
        /\ gone = {}
        /\ faults = 0
        /\ turn = "write"

AnyOrder == scenario.benchmark = "no"

\* A call leaves the connection of e as c.  (The actions bind c by a singleton
\* set, so that TLC evaluates a handler once.)
Becomes(e, c) ==
    /\ Len(c.segments_out) <= MaxQueue
    /\ conn' = [conn EXCEPT ![e] = c]
    /\ UNCHANGED <<gone, faults, scenario, turn>>

DoConnect(e) ==
    /\ e \in scenario.openers
    /\ conn[e].active /\ conn[e].sender.next_seqno = 0
    /\ \E c \in {Connect(conn[e])} : Becomes(e, c)

\* The application writes, once the connection is being set up: the next n bytes
\* of its stream, of which the stream takes what it has room for.
DoWrite(e, n) ==
    LET done == Outbound(conn[e]).writtensize
    IN /\ AnyOrder
       /\ conn[e].active /\ conn[e].sender.next_seqno > 0
       /\ ~ Outbound(conn[e]).end
       /\ done + n <= StreamLen(e)
       /\ Outbound(conn[e]).capacity > 0
       /\ \E c \in {ConnectionWrite(conn[e], [i \in 1 .. n |-> done + i - 1])} :
            Becomes(e, c)

\* TCPSpongeSocket also ends the input of a connection that is over (the cancel
\* callback of its rule 2).
DoEndInput(e) ==
    /\ e \notin gone /\ (conn[e].sender.next_seqno > 0 \/ e \in scenario.earlyEnd)
    /\ ~ Outbound(conn[e]).end
    /\ Outbound(conn[e]).writtensize = StreamLen(e)
    /\ \E c \in {EndInputStream(conn[e])} : Becomes(e, c)

\* The application reads all there is.
DoRead(e) ==
    /\ AnyOrder /\ e \notin gone
    /\ ~ BufferEmpty(Inbound(conn[e]))
    /\ conn' = [conn EXCEPT ![e].receiver.reassembler.output =
                  Read(@, BufferSize(@))]
    /\ UNCHANGED <<gone, faults, scenario, turn>>

\* A unit of time passes for both.
DoTick ==
    /\ AnyOrder
    /\ Prompt => \A e \in Endpoint : conn[e].segments_out = <<>>
    /\ \E e \in Endpoint : conn[e].active
    /\ \E next \in {[e \in Endpoint |->
                       IF conn[e].active THEN Tick(conn[e], 1) ELSE conn[e]]} :
         /\ \A e \in Endpoint : Len(next[e].segments_out) <= MaxQueue
         /\ conn' = next
    /\ UNCHANGED <<gone, faults, scenario, turn>>

\* The i-th segment under way to e arrives, and stays under way if `keep'.  An
\* endpoint that is not active is not called any more.
Arrive(e, i, keep) ==
    LET q == conn[Peer(e)].segments_out
        rest == [conn EXCEPT ![Peer(e)].segments_out = IF keep THEN @ ELSE RemoveAt(@, i)]
    IN /\ UNCHANGED <<gone, scenario, turn>>
       /\ IF conn[e].active
            THEN \E c \in {SegmentReceived(conn[e], q[i])} :
                   /\ Len(c.segments_out) <= MaxQueue
                   /\ conn' = [rest EXCEPT ![e] = c]
            ELSE conn' = rest

DoSegment(e) ==
    /\ AnyOrder
    /\ conn[Peer(e)].segments_out # <<>>
    /\ Arrive(e, 1, FALSE)
    /\ UNCHANGED faults

Fault(kind) == /\ AnyOrder
               /\ kind \in FaultKinds
               /\ faults < MaxFaults
               /\ faults' = faults + 1

Lose(e) ==
    /\ Fault("lose")
    /\ \E i \in DOMAIN conn[e].segments_out :
         conn' = [conn EXCEPT ![e].segments_out = RemoveAt(@, i)]
    /\ UNCHANGED <<gone, scenario, turn>>

Repeat(e) ==
    /\ Fault("repeat")
    /\ conn[e].active
    /\ conn[Peer(e)].segments_out # <<>>
    /\ Arrive(e, 1, TRUE)

Overtake(e) ==
    /\ Fault("overtake")
    /\ conn[e].active
    /\ \E i \in 2 .. Len(conn[Peer(e)].segments_out) : Arrive(e, i, FALSE)

\* The owner destructs the connection; its queue goes with it.
DoDestruct(e) ==
    /\ e \in scenario.destructors
    /\ conn[e].active
    /\ \E c \in {Destruct(conn[e])} :
         conn' = [conn EXCEPT ![e] = [c EXCEPT !.segments_out = <<>>]]
    /\ gone' = gone \cup {e}
    /\ UNCHANGED <<faults, scenario, turn>>

-----------------------------------------------------------------------------
(* apps/tcp_benchmark.cc: one thread calls both connections, active or not. *)

\* move_segments(x, y, segments, reorder).
MoveSegments(pair, x, y, reorder) ==
    LET segments == IF reorder THEN Reverse(pair[x].segments_out) ELSE pair[x].segments_out
    IN [pair EXCEPT ![x].segments_out = <<>>,
                    ![y] = FoldLeft(SegmentReceived, @, segments)]

\* A turn of the loop that writes into x.
WriteMore(c) ==
    LET done == Outbound(c).writtensize
        want == MinOf(Outbound(c).capacity, StreamLen("A") - done)
    IN IF want = 0 THEN c ELSE ConnectionWrite(c, [i \in 1 .. want |-> done + i - 1])

\* The parts of the loop, one after the other.
Proceed(now, after) ==
    /\ ~ AnyOrder
    /\ turn = now /\ turn' = after
    /\ UNCHANGED <<gone, faults, scenario>>

\* All is written that there is room for, once x has connected and y has ended.
BenchmarkWrite ==
    LET Ended(c) ==
            IF Outbound(c).writtensize = StreamLen("A") /\ ~ Outbound(c).end
              THEN EndInputStream(c) ELSE c
    IN /\ Proceed("write", "forth")
       /\ conn["A"].sender.next_seqno > 0 /\ Outbound(conn["B"]).end
       /\ ~ Eof(Inbound(conn["B"])) \/ \E e \in Endpoint : conn[e].active
       /\ \E c \in {Then(Iterate(WriteMore, conn["A"], StreamLen("A")), Ended)} :
            conn' = [conn EXCEPT !["A"] = c]

BenchmarkMove ==
    \/ /\ Proceed("forth", "back")
       /\ conn' = MoveSegments(conn, "A", "B", scenario.benchmark = "reversed")
    \/ /\ Proceed("back", "read")
       /\ conn' = MoveSegments(conn, "B", "A", FALSE)

BenchmarkRead ==
    /\ Proceed("read", "tick")
    /\ conn' = [conn EXCEPT !["B"].receiver.reassembler.output = Read(@, BufferSize(@))]

\* A whole timeout passes.
BenchmarkTick ==
    /\ Proceed("tick", "write")
    /\ conn' = [e \in Endpoint |-> Tick(conn[e], Rto)]

BenchmarkLoop == BenchmarkWrite \/ BenchmarkMove \/ BenchmarkRead \/ BenchmarkTick

-----------------------------------------------------------------------------
Next == \/ DoTick
        \/ BenchmarkLoop
        \/ \E e \in Endpoint :
             \/ DoConnect(e)
             \/ \E n \in 1 .. SendCapacity + 1 : DoWrite(e, n)
             \/ DoEndInput(e)
             \/ DoRead(e)
             \/ DoSegment(e)
             \/ Lose(e)
             \/ Repeat(e)
             \/ Overtake(e)
             \/ DoDestruct(e)

Spec == Init /\ [][Next]_vars

-----------------------------------------------------------------------------
Failed(e) == Outbound(conn[e]).error

\* The stream from e to its peer: what the peer's connection has assembled has
\* come out, whether it was read already or not.
Assembled(e) ==
    LET in == Inbound(conn[e]) IN Excerpt(0, in.readsize) \o in.que

AtoB == INSTANCE ReliableStream WITH
            sent <- Outbound(conn["A"]).writtensize, closed <- Outbound(conn["A"]).end,
            arrived <- Assembled("B"),
            ended <- Inbound(conn["B"]).end, failed <- Inbound(conn["B"]).error

BtoA == INSTANCE ReliableStream WITH
            sent <- Outbound(conn["B"]).writtensize, closed <- Outbound(conn["B"]).end,
            arrived <- Assembled("A"),
            ended <- Inbound(conn["A"]).end, failed <- Inbound(conn["A"]).error

\* Two connections over a network that loses, repeats and reorders implement a
\* reliable stream in each direction, resets and destructions included.
ReliableBothWays == AtoB!Spec /\ BtoA!Spec

\* A sender forgets a segment only when the peer's receiver has put all of it
\* into its stream: nothing can be acknowledged before it is there.
NothingForgotten ==
    \A e \in Endpoint :
        LET s == conn[e].sender
        IN s.next_seqno - s.flight_bytes <=
             IF HasAckno(conn[Peer(e)].receiver) THEN AbsAckno(conn[Peer(e)].receiver) ELSE 0

\* At most one of the two decides not to linger: the other is there to answer
\* a FIN that is sent again.
OneSideLingers ==
    \E e \in Endpoint : conn[e].linger_after_streams_finish

\* An endpoint that closes without an error has delivered its stream to the
\* end and received the peer's.
CleanCloseMeansDelivered ==
    \A e \in Endpoint :
        ~ conn[e].active /\ ~ Failed(e) =>
            /\ Inbound(conn[e]).end
            /\ Inbound(conn[Peer(e)]).end
            /\ Inbound(conn[Peer(e)]).writtensize = StreamLen(e)

\* The official states, and the one other a connection can be seen in: its own
\* stream is drained but its FIN waits for room in the window, and the peer's FIN
\* is in.  (CLOSE_WAIT is shown only if the stream was not drained before.)
NamedStates ==
    [n \in DOMAIN OfficialStates \cup {"FIN_PENDING"} |->
        IF n = "FIN_PENDING" THEN Summary("SYN_ACKED", "FIN_RECV", TRUE, TRUE)
                             ELSE OfficialStates[n]]

NamesOf(summary) == {n \in DOMAIN NamedStates : NamedStates[n] = summary}

\* The edges of TCP's state diagram, with those that one segment can take two of.
Successors ==
    [LISTEN      |-> {"SYN_RCVD", "SYN_SENT"},
     SYN_SENT    |-> {"SYN_RCVD", "ESTABLISHED", "FIN_WAIT_1"},
     SYN_RCVD    |-> {"ESTABLISHED", "FIN_WAIT_1", "CLOSE_WAIT", "FIN_PENDING"},
     ESTABLISHED |-> {"FIN_WAIT_1", "CLOSE_WAIT", "FIN_PENDING", "CLOSING"},
     FIN_PENDING |-> {"CLOSING"},
     FIN_WAIT_1  |-> {"FIN_WAIT_2", "CLOSING", "TIME_WAIT"},
     FIN_WAIT_2  |-> {"TIME_WAIT"},
     CLOSING     |-> {"TIME_WAIT"},
     TIME_WAIT   |-> {"CLOSED"},
     CLOSE_WAIT  |-> {"LAST_ACK"},
     LAST_ACK    |-> {"CLOSED"},
     CLOSED      |-> {},
     RESET       |-> {}]

\* Sender, receiver and connection have no common state machine, and yet what
\* they show together moves only along the edges of TCP's, whatever the network
\* does; it ends in CLOSED or RESET and stays there.  (A turn of the benchmark's
\* loop is many calls.)
FollowsDiagram ==
    [][ AnyOrder => \A e \in Endpoint :
          State(conn'[e]) # State(conn[e]) =>
            \E before \in NamesOf(State(conn[e])), after \in NamesOf(State(conn'[e])) :
              \/ after \in Successors[before]
              \/ after = "RESET" /\ before # "CLOSED" ]_vars

-----------------------------------------------------------------------------
\* The applications go on: they connect, write, end their streams and read.
Application ==
    \/ BenchmarkLoop
    \/ \E e \in Endpoint :
         \/ DoConnect(e)
         \/ \E n \in 1 .. SendCapacity + 1 : DoWrite(e, n)
         \/ DoEndInput(e)
         \/ DoRead(e)

Deliver == \E e \in Endpoint : DoSegment(e)

Fairness == WF_vars(DoTick) /\ WF_vars(Application) /\ WF_vars(Deliver)

FairSpec == Spec /\ Fairness

CleanlyClosed(e) == ~ conn[e].active /\ ~ Failed(e)

\* If segments arrive in time and no more than MaxFaults of them are lost, both
\* sides close, and neither has to give up.  So does the benchmark, although it
\* lets a whole timeout pass in every turn.
BothCloseCleanly == <>(\A e \in Endpoint : CleanlyClosed(e))
============================================================================
