--------------------------- MODULE TCPConnection ---------------------------
(***************************************************************************)
(* libsponge/tcp_connection.{hh,cc}: one endpoint.  A TCPConnection owns a *)
(* TCPSender and a TCPReceiver, passes segments and time to them, stamps   *)
(* every outgoing segment with the receiver's ackno and window, and        *)
(* decides when the connection is over.                                    *)
(***************************************************************************)
EXTENDS TCPSender, TCPReceiver

CONSTANTS Wrap16,   \* 2^16, the range of the window field
          MaxRetx,  \* TCPConfig::MAX_RETX_ATTEMPTS, 8 in the code
          Linger    \* 10 * _cfg.rt_timeout

ASSUME ConnectionAssumption ==
    /\ Wrap16 \in Nat /\ Wrap16 > 0
    /\ MaxRetx \in Nat
    /\ Linger \in Nat

\* _wait_segment_time is only compared with Linger, and is kept at most there.
ConnectionType ==
    [sender : SenderType(Nat), receiver : ReceiverType,
     segments_out : Seq(SegmentType(Nat, Uint32)),
     linger_after_streams_finish : BOOLEAN, active : BOOLEAN,
     wait_segment_time : 0 .. Linger]

NewConnection(send_capacity, recv_capacity, rto, isn) ==
    [sender |-> NewSender(send_capacity, rto, isn),
     receiver |-> NewReceiver(recv_capacity),
     segments_out |-> <<>>, linger_after_streams_finish |-> TRUE,
     active |-> TRUE, wait_segment_time |-> 0]

Inbound(c)  == StreamOut(c.receiver)
Outbound(c) == c.sender.stream

\* The ackno and the window of the receiver as they are when the segment leaves.
Stamp(c, seg) ==
    IF HasAckno(c.receiver)
      THEN [seg EXCEPT !.ack = TRUE,
                       !.ackno = Ackno(c.receiver),
                       !.win = WindowSize(c.receiver) % Wrap16]
      ELSE seg

\* send_segments(): everything the sender has queued.
SendSegments(c) ==
    LET q == c.sender.segments_out
    IN [c EXCEPT !.segments_out = @ \o [i \in DOMAIN q |-> Stamp(c, q[i])],
                 !.sender.segments_out = <<>>]

\* send_rst_seg(), straight to the connection's queue.
SendRst(c) ==
    LET empty == NewSegment(wrap(c.sender.next_seqno, c.sender.isn), FALSE, <<>>, FALSE)
    IN [c EXCEPT !.segments_out = Append(@, Stamp(c, [empty EXCEPT !.rst = TRUE]))]

\* Mutant: only the outbound stream is put in error.
AbortOutbound(c) ==
    [c EXCEPT !.active = FALSE, !.sender.stream = SetError(@)]

\* Both streams in error, and the end of the connection.
Abort(c) ==
    [c EXCEPT !.active = FALSE,
              !.sender.stream = SetError(@),
              !.receiver.reassembler.output = SetError(@)]

\* Mutant: the end is not held up by what is still in flight.
StreamsFinishedInFlight(c) ==
    /\ Eof(Outbound(c))
    /\ Inbound(c).end
    /\ c.sender.next_seqno = Outbound(c).writtensize + 2

\* Both streams have ended, and all of the outbound one is acknowledged.
StreamsFinished(c) ==
    /\ Eof(Outbound(c))
    /\ Inbound(c).end
    /\ c.sender.flight_bytes = 0
    /\ c.sender.next_seqno = Outbound(c).writtensize + 2

\* Mutant: the time to linger is not waited for.
LingeredAlways(c) == TRUE

Lingered(c) ==
    \/ c.wait_segment_time >= Linger
    \/ ~ c.linger_after_streams_finish

TryCleanClose(c) ==
    [c EXCEPT !.active = @ /\ ~ (StreamsFinished(c) /\ Lingered(c))]

-----------------------------------------------------------------------------
(* The calls of the owner. *)

Fill(c) == [c EXCEPT !.sender = FillWindow(@)]
FillAndSend(c) == Then(Then(c, Fill), SendSegments)

Connect(c) == FillAndSend(c)

\* Returns the number of bytes written, here WriteSize.
ConnectionWrite(c, data) ==
    Then(FillAndSend([c EXCEPT !.sender.stream = Write(@, data)]), TryCleanClose)

EndInputStream(c) == FillAndSend([c EXCEPT !.sender.stream = EndInput(@)])

\* Lines 70-75: a segment that takes room in the sequence space is answered.
Answer(c, seg) ==
    IF LengthInSequenceSpace(seg) > 0 /\ c.sender.segments_out = <<>>
      THEN [c EXCEPT !.sender = SendEmptySegment(@)] ELSE c

\* Mutant: the side that ends its stream first does not linger either.
PassiveAlways(c) == Inbound(c).end

\* Lines 80-83: the peer's stream has ended first.
Passive(c) == ~ Eof(Outbound(c)) /\ Inbound(c).end

SettleLinger(c) == [c EXCEPT !.linger_after_streams_finish = @ /\ ~ Passive(c)]

\* segment_received(seg): a reset ends the connection; all but the receiver
\* waits for a SYN.
SegmentReceived(c, seg) ==
    LET c0 == [c EXCEPT !.wait_segment_time = 0]
        Receive(d) == [d EXCEPT !.receiver = ReceiverSegmentReceived(@, seg)]
        Acked(d) == IF seg.ack
                      THEN [d EXCEPT !.sender = AckReceived(@, seg.ackno, seg.win)]
                      ELSE d
        Answered(d) == Answer(d, seg)
        Process(d) ==
            IF HasAckno(d.receiver)
              THEN Then(Then(Then(Then(Then(d, Acked), Fill), Answered), SendSegments),
                        SettleLinger)
              ELSE d
    IN IF seg.rst
         THEN Abort(c0)
         ELSE Then(Then(Then(c0, Receive), Process), TryCleanClose)

\* tick(ms): too many retransmissions abort the connection; the segment the
\* sender has just retransmitted then stays in its queue.
Tick(c, ms) ==
    LET Timed(d) == [d EXCEPT !.sender = SenderTick(@, ms)]
        Waited(d) == [d EXCEPT !.wait_segment_time = MinOf(@ + ms, Linger)]
        Outcome(d) ==
            IF d.sender.consecutive_transmit_num > MaxRetx
              THEN Then(Then(d, SendRst), Abort)
              ELSE Then(Then(Then(d, Waited), SendSegments), TryCleanClose)
    IN Then(Then(c, Timed), Outcome)

\* ~TCPConnection() of an active connection.
Destruct(c) == Then(Then(Then(c, SendRst), Abort), SendSegments)
=============================================================================
