--------------------------- MODULE TCPReceiverSpec ---------------------------
(***************************************************************************)
(* A TCPReceiver that gets the segments of one stream, reordered, repeated *)
(* and cut in any way, while the application reads.  The stream is longer  *)
(* than a lap of the sequence numbers, so they wrap under way; a segment   *)
(* is delayed by less than half a lap (the segment lifetime that TCP       *)
(* assumes of the network).                                                *)
(***************************************************************************)
EXTENDS TCPReceiver

CONSTANTS StreamLen,   \* the length of the stream
          Capacity,    \* TCPConfig::recv_capacity
          MaxSegment,  \* bound on the payload of a segment
          MaxLag,      \* how far behind the output a late segment may be
          MaxNodes,    \* bound on the length of the reassembler's list
          Isns,        \* the peer's initial sequence numbers to try
          Overrun      \* may the peer ignore the advertised window?

ASSUME ReceiverAssumption ==
    /\ StreamLen \in Nat /\ MaxSegment \in Nat /\ MaxNodes \in Nat
    /\ Capacity \in Nat /\ Capacity > 0
    /\ MaxLag \in Nat /\ MaxLag + 1 < Half32 /\ Capacity + 2 < Half32
    /\ StreamLen + 2 * Wrap32 <= Wrap64
    /\ Isns \subseteq Uint32
    /\ Overrun \in BOOLEAN

VARIABLES rcv,      \* the TCPReceiver
          peerIsn   \* the isn of the peer's sender

vars == <<rcv, peerIsn>>

out == StreamOut(rcv)

Init == /\ rcv = NewReceiver(Capacity)
        /\ peerIsn \in Isns

\* The segment with the bytes [lo, hi) of the stream.
SegmentOf(lo, hi, syn, fin) ==
    NewSegment(wrap(IF syn THEN 0 ELSE lo + 1, peerIsn), syn, Excerpt(lo, hi), fin)

DoSegment(lo, hi, syn, fin) ==
    /\ lo <= hi /\ hi - lo <= MaxSegment
    /\ syn => lo = 0
    /\ fin => hi = StreamLen
    /\ lo + MaxLag >= out.writtensize
    /\ Overrun \/ hi <= MaxOf(out.readsize + Capacity, out.writtensize + 1)
    /\ rcv' = ReceiverSegmentReceived(rcv, SegmentOf(lo, hi, syn, fin))
    /\ Len(rcv'.reassembler.nodes) <= MaxNodes
    /\ UNCHANGED peerIsn

DoRead(len) == /\ rcv' = [rcv EXCEPT !.reassembler.output = Read(@, len)]
               /\ UNCHANGED peerIsn

Next == \/ \E lo \in 0 .. StreamLen, hi \in 0 .. StreamLen, syn, fin \in BOOLEAN :
              DoSegment(lo, hi, syn, fin)
        \/ \E len \in 1 .. Capacity : DoRead(len)

Spec == Init /\ [][Next]_vars

-----------------------------------------------------------------------------
TypeOK == rcv \in ReceiverType /\ peerIsn \in Uint32

\* Every byte is put at its place although the sequence numbers wrap and
\* segments are late, and the stream ends where FIN says.
StreamIntact ==
    /\ out.que = Excerpt(out.readsize, out.writtensize)
    /\ out.end => out.writtensize = StreamLen

\* The peer reads the ackno as the first sequence number that is missing here,
\* whatever it has sent of the window: FIN counts exactly if it has arrived.
AcknoReadBack ==
    HasAckno(rcv) =>
        \A next \in AbsAckno(rcv) .. AbsAckno(rcv) + WindowSize(rcv) :
            unwrap(Ackno(rcv), peerIsn, next) = out.writtensize + 1 + BoolToNat(out.end)

\* A byte inside the advertised window is kept when it arrives alone: it is
\* written or stored, unless the list is full when it comes.
InWindowKept ==
    HasAckno(rcv) =>
        \A i \in out.writtensize .. out.readsize + Capacity - 1 :
            i < StreamLen =>
              LET after == ReceiverSegmentReceived(rcv, SegmentOf(i, i + 1, FALSE, FALSE)).reassembler
              IN \/ i < after.output.writtensize
                 \/ \E k \in DOMAIN after.nodes :
                      i \in after.nodes[k].blockstart .. after.nodes[k].blockend
                 \/ rcv.reassembler.remaincapacity = 0

\* The right edge of the window, ackno plus window size, never moves back: what
\* the peer was once allowed to send stays allowed.
RightEdgeNeverRetreats ==
    [][ HasAckno(rcv) =>
          AbsAckno(rcv)' + WindowSize(rcv)' >= AbsAckno(rcv) + WindowSize(rcv) ]_vars
=============================================================================
