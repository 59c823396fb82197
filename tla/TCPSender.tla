----------------------------- MODULE TCPSender -----------------------------
(***************************************************************************)
(* libsponge/tcp_sender.{hh,cc}: cuts the outgoing stream into segments    *)
(* that fit the peer's window, keeps what is not acknowledged, and         *)
(* retransmits the oldest segment when the timer expires, with exponential *)
(* backoff.  A TCPSender object is a record with the members of the class. *)
(***************************************************************************)
EXTENDS ByteStream, TCPSegment, WrappingIntegers, FiniteSetsExt

CONSTANT MaxPayload   \* TCPConfig::MAX_PAYLOAD_SIZE, 1000 in the code

ASSUME MaxPayloadAssumption == MaxPayload \in Nat /\ MaxPayload > 0

TimerType == [active : BOOLEAN, expired : BOOLEAN, init_timeout : Nat,
              timeout : Nat, cur_time : Nat]

SenderType(Byte) ==
    [isn : Uint32, segments_out : Seq(SegmentType(Byte, Uint32)),
     stream : ByteStreamType(Byte), next_seqno : Nat, window_sz : Nat,
     ackno : Nat, flight_bytes : Nat, set_fin : BOOLEAN,
     wait_ack : Seq(SegmentType(Byte, Uint32)), timer : TimerType,
     consecutive_transmit_num : Nat]

NewTimer(rto) == [active |-> FALSE, expired |-> FALSE, init_timeout |-> rto,
                  timeout |-> rto, cur_time |-> 0]

NewSender(cap, rto, isn) ==
    [isn |-> isn, segments_out |-> <<>>, stream |-> NewByteStream(cap),
     next_seqno |-> 0, window_sz |-> 1, ackno |-> 0, flight_bytes |-> 0,
     set_fin |-> FALSE, wait_ack |-> <<>>, timer |-> NewTimer(rto),
     consecutive_transmit_num |-> 0]

-----------------------------------------------------------------------------
(* class Timer. *)

TimerStart(t) == [t EXCEPT !.expired = FALSE, !.active = TRUE, !.cur_time = 0]
TimerStop(t)  == [t EXCEPT !.active = FALSE]
TimerReset(t) == [t EXCEPT !.timeout = t.init_timeout]

\* The timer reaches its timeout in this tick.
TimerFires(t, ms) == t.active /\ t.cur_time + ms >= t.timeout

-----------------------------------------------------------------------------
(* fill_window().  The loop of lines 55-91 in closed form: it takes as many *)
(* bytes as the window and the stream allow, MaxPayload at a time, and sets *)
(* FIN on the segment that empties an ended stream if that leaves room.     *)

\* The right edge the sender assumes: a window of zero counts as one.
WindowEdge(snd) == snd.ackno + (IF snd.window_sz # 0 THEN snd.window_sz ELSE 1)

\* The segments of a burst: n bytes of the stream, with SYN on the first and
\* FIN on the last if asked for.
Burst(snd, syn, n, fin) ==
    LET chunks == (n + MaxPayload - 1) \div MaxPayload
        count  == IF syn \/ fin THEN MaxOf(chunks, 1) ELSE chunks
        Start(k) == (k - 1) * MaxPayload
        Seqno(k) == snd.next_seqno + Start(k) + (IF k > 1 THEN BoolToNat(syn) ELSE 0)
    IN [k \in 1 .. count |->
          NewSegment(wrap(Seqno(k), snd.isn),
                     syn /\ k = 1,
                     Substr(snd.stream.que, Start(k), MinOf(MaxPayload, n - Start(k))),
                     fin /\ k = count)]

\* Mutant: FIN is set although it does not fit the window.
FinFitsAlways(stream, used, win) == Eof(stream)

\* Mutant: FIN is set whenever the stream is drained.
FinWhenDrained(stream, used, win) == BufferEmpty(stream) /\ used < win

\* The stream is read to its end and there is room for FIN.
FinFits(stream, used, win) == Eof(stream) /\ used < win

\* Mutant: the timer is left alone when new segments go out.
TimerAfterSendIdle(timer, segs) == timer

TimerAfterSend(timer, segs) ==
    IF segs # <<>> /\ ~ timer.active THEN TimerStart(timer) ELSE timer

FillWindow(snd) ==
    LET win == WindowEdge(snd) - snd.next_seqno
        syn == snd.next_seqno = 0
        n   == MinOf(Len(snd.stream.que), win - BoolToNat(syn))
        s1  == Read(snd.stream, n)
        fin == FinFits(s1, n + BoolToNat(syn), win)
        segs == Burst(snd, syn, n, fin)
        len == n + BoolToNat(syn) + BoolToNat(fin)
    IN IF snd.set_fin \/ win <= 0 THEN snd
       ELSE [snd EXCEPT !.stream = s1, !.set_fin = fin, !.next_seqno = @ + len,
                        !.flight_bytes = @ + len, !.segments_out = @ \o segs,
                        !.wait_ack = @ \o segs,
                        !.timer = TimerAfterSend(@, segs)]

-----------------------------------------------------------------------------
(* ack_received(ackno, window_size). *)

\* Mutant: one that is acknowledged in part is dropped as well.
PartlyAcked(snd, abs_ack_no, seg) ==
    abs_ack_no > unwrap(seg.seqno, snd.isn, snd.next_seqno)

\* The segment is acknowledged to its end.
FullyAcked(snd, abs_ack_no, seg) ==
    abs_ack_no >= unwrap(seg.seqno, snd.isn, snd.next_seqno) + LengthInSequenceSpace(seg)

\* How many segments lines 120-157 pop from the front of _wait_ack.
AckedCount(snd, abs_ack_no) ==
    LET w == snd.wait_ack
    IN Min({k \in 0 .. Len(w) : k < Len(w) => ~ FullyAcked(snd, abs_ack_no, w[k + 1])})

\* Mutant: the timeout stays backed off after new data is acknowledged.
TimerAfterAckNoReset(timer, more) ==
    IF more THEN TimerStart(timer) ELSE TimerStop(timer)

\* Lines 158-171.
TimerAfterAck(timer, more) ==
    IF more THEN TimerStart(TimerReset(timer)) ELSE TimerStop(TimerReset(timer))

AckReceived(snd, ackno, window_size) ==
    LET abs_ack_no == unwrap(ackno, snd.isn, snd.next_seqno)
        k      == AckedCount(snd, abs_ack_no)
        w      == snd.wait_ack
        acked  == SumTo([i \in DOMAIN w |-> LengthInSequenceSpace(w[i])], k)
        s1     == [snd EXCEPT !.ackno = abs_ack_no]
        s2     == [s1 EXCEPT !.window_sz = window_size]
    IN CASE abs_ack_no > snd.next_seqno -> s1
         [] abs_ack_no <= snd.next_seqno /\ k = 0 -> s2
         [] OTHER -> [s2 EXCEPT
              !.wait_ack = SubSeq(w, k + 1, Len(w)),
              !.flight_bytes = @ - acked,
              !.timer = TimerAfterAck(@, k < Len(w)),
              !.consecutive_transmit_num = 0]

-----------------------------------------------------------------------------
\* tick(ms): Timer::tictoc() and expire(), then the retransmission of the oldest
\* segment.  With a zero window a timeout is a probe: no backoff, no count.
SenderTick(snd, ms) ==
    LET t == snd.timer
        backoff == snd.window_sz # 0
        s1 == [snd EXCEPT !.timer.cur_time = @ + ms,
                          !.timer.active = FALSE,
                          !.timer.expired = TRUE,
                          !.timer.timeout = IF backoff THEN @ * 2 ELSE @,
                          !.consecutive_transmit_num = IF backoff THEN @ + 1 ELSE @]
        s2 == CASE TimerFires(t, ms) -> s1
                [] t.active /\ ~ TimerFires(t, ms) -> [snd EXCEPT !.timer.cur_time = @ + ms]
                [] OTHER -> snd
    IN IF s2.timer.expired /\ s2.wait_ack # <<>>
         THEN [s2 EXCEPT !.segments_out = Append(@, s2.wait_ack[1]),
                         !.timer = TimerStart(@)]
         ELSE s2

SendEmptySegment(snd) ==
    [snd EXCEPT !.segments_out =
        Append(@, NewSegment(wrap(snd.next_seqno, snd.isn), FALSE, <<>>, FALSE))]
=============================================================================
