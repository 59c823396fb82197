----------------------------- MODULE TCPSegment -----------------------------
(***************************************************************************)
(* libsponge/tcp_helpers/tcp_segment.{hh,cc} and tcp_header.hh: the fields *)
(* of a segment that the TCP machinery reads.  Ports, checksum, data       *)
(* offset and the urgent and push fields are left out: none of them is     *)
(* read by TCPSender, TCPReceiver or TCPConnection.                        *)
(***************************************************************************)
EXTENDS Integers, Sequences

SegmentType(Byte, Seqno) ==
    [seqno : Seqno, syn : BOOLEAN, fin : BOOLEAN, rst : BOOLEAN,
     ack : BOOLEAN, ackno : Seqno, win : Nat, payload : Seq(Byte)]

\* A segment as the sender makes it: no ack and no window yet.
NewSegment(seqno, syn, payload, fin) ==
    [seqno |-> seqno, syn |-> syn, fin |-> fin, rst |-> FALSE,
     ack |-> FALSE, ackno |-> 0, win |-> 0, payload |-> payload]

BoolToNat(b) == IF b THEN 1 ELSE 0

\* Mutant: FIN takes no room in the sequence space.
LengthWithoutFin(seg) == Len(seg.payload) + BoolToNat(seg.syn)

LengthInSequenceSpace(seg) ==
    Len(seg.payload) + BoolToNat(seg.syn) + BoolToNat(seg.fin)
=============================================================================
