---------------------------- MODULE TCPReceiver ----------------------------
(***************************************************************************)
(* libsponge/tcp_receiver.{hh,cc}: hands the payload of a segment to the   *)
(* reassembler at the stream index its sequence number stands for, and     *)
(* computes the ackno and the window that go back to the peer.             *)
(***************************************************************************)
EXTENDS StreamReassembler, TCPSegment, WrappingIntegers

ReceiverType ==
    [reassembler : ReassemblerType, capacity : Nat, isn : Uint32, set_isn : BOOLEAN]

NewReceiver(cap) ==
    [reassembler |-> NewReassembler(cap), capacity |-> cap,
     isn |-> 0, set_isn |-> FALSE]

StreamOut(rcv) == rcv.reassembler.output

\* ackno() has a value once a SYN has been seen.
HasAckno(rcv) == rcv.set_isn

\* The absolute form of the ackno: SYN, the written bytes and, if the input
\* has ended, FIN.
AbsAckno(rcv) == StreamOut(rcv).writtensize + 1 + BoolToNat(StreamOut(rcv).end)

\* Mutant: FIN is not acknowledged.
AcknoWithoutFin(rcv) == Plus(rcv.isn, (StreamOut(rcv).writtensize + 1) % Wrap32)

\* Mutant: bytes that wait behind a hole are acknowledged.
AcknoOverHoles(rcv) ==
    Plus(rcv.isn, (AbsAckno(rcv) + UnassembledBytes(rcv.reassembler)) % Wrap32)

Ackno(rcv) == Plus(rcv.isn, AbsAckno(rcv) % Wrap32)

\* Mutant: the window counts the bytes waiting in the list as well.
WindowSizeLessStored(rcv) ==
    MaxOf(0, rcv.capacity - BufferSize(StreamOut(rcv)) - UnassembledBytes(rcv.reassembler))

WindowSize(rcv) == rcv.capacity - BufferSize(StreamOut(rcv))

\* The sequence number of the first byte of the payload.
PayloadSeqno(seg) == IF seg.syn THEN Plus(seg.seqno, 1) ELSE seg.seqno

\* Mutant: `>=' for `>' in line 59.
RefusedAtEdge(rcv, abs_seq_no) ==
    LET W == StreamOut(rcv).writtensize
    IN abs_seq_no = 0 \/ (abs_seq_no > W /\ abs_seq_no - W >= rcv.capacity)

\* Lines 58-59: the number of the SYN, or a number far ahead.
Refused(rcv, abs_seq_no) ==
    LET W == StreamOut(rcv).writtensize
    IN abs_seq_no = 0 \/ (abs_seq_no > W /\ abs_seq_no - W > rcv.capacity)

\* The SYN has a sequence number but no place in the stream.
StreamIndex(abs_seq_no) == abs_seq_no - 1

\* segment_received(seg): a SYN sets the isn and its payload begins one later;
\* the sequence number of the SYN itself and numbers more than a capacity
\* ahead are refused.
ReceiverSegmentReceived(rcv, seg) ==
    LET isn == IF seg.syn THEN seg.seqno ELSE rcv.isn
        r1  == [rcv EXCEPT !.isn = isn, !.set_isn = @ \/ seg.syn]
        Push(abs_seq_no) ==
            IF ~ r1.set_isn \/ Refused(rcv, abs_seq_no)
              THEN r1
              ELSE [r1 EXCEPT !.reassembler =
                      PushSubstring(@, seg.payload, StreamIndex(abs_seq_no), seg.fin)]
    IN Then(unwrap(PayloadSeqno(seg), isn, StreamOut(rcv).writtensize), Push)
=============================================================================
