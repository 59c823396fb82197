-------------------------- MODULE TCPReceiverProofs --------------------------
(***************************************************************************)
(* For every width of the sequence numbers, every stream, capacity and     *)
(* initial sequence number: with a peer that respects the window, every    *)
(* byte is put at its place although the numbers wrap, the peer reads the  *)
(* ackno as what it stands for, the window never shrinks, and every byte   *)
(* of the window that arrives is kept.                                     *)
(***************************************************************************)
EXTENDS TCPReceiverSpec, StreamLemmas

\* The inductive invariant: what StreamReassemblerProofs needs, and that the isn
\* is the peer's once it is set.
IndInv ==
    /\ rcv = [reassembler |-> rcv.reassembler, capacity |-> Capacity,
              isn |-> rcv.isn, set_isn |-> rcv.set_isn]
    /\ GoodReassembler(rcv.reassembler, StreamLen) /\ rcv.reassembler.capacity = Capacity
    /\ rcv.isn \in Uint32 /\ rcv.set_isn \in BOOLEAN /\ peerIsn \in Uint32
    /\ rcv.set_isn => rcv.isn = peerIsn

\* A member of the new object is what its constructor says.
LEMMA IndInvMade ==
    ASSUME NEW z, GoodReassembler(z, StreamLen), z.capacity = Capacity,
           NEW i \in Uint32, NEW s \in BOOLEAN, peerIsn' \in Uint32, s => i = peerIsn',
           rcv' = [reassembler |-> z, capacity |-> Capacity, isn |-> i, set_isn |-> s]
    PROVE  IndInv'
<1>1. rcv'.reassembler = z /\ rcv'.isn = i /\ rcv'.set_isn = s
  OBVIOUS
<1> QED BY <1>1 DEF IndInv

\* What is known of the constants.
LEMMA Widths ==
    /\ Wrap32 \in Nat /\ Half32 \in Nat /\ 2 * Half32 = Wrap32 /\ Wrap64 \in Nat
    /\ StreamLen \in Nat /\ Capacity \in Nat /\ Capacity > 0 /\ MaxLag \in Nat
    /\ MaxLag + 1 < Half32 /\ Capacity + 2 < Half32
    /\ StreamLen + 2 * Wrap32 <= Wrap64
    /\ 0 \in Uint32 /\ Uint32 \subseteq Nat
<1>1. Half32 \in Nat /\ 2 * Half32 = Wrap32
  BY WrapAssumption DEF Half32
<1>2. 0 \in Uint32 /\ Uint32 \subseteq Nat
  BY WrapAssumption DEF Uint32
<1> QED BY <1>1, <1>2, WrapAssumption, ReceiverAssumption

\* The constructor.
LEMMA InitInv == Init => IndInv
<1> SUFFICES ASSUME Init PROVE IndInv
  OBVIOUS
<1> DEFINE o == NewByteStream(Capacity)
           z == NewReassembler(Capacity)
<1>0. StreamLen \in Nat /\ Capacity \in Nat /\ 0 \in Uint32
  BY Widths
<1>1. z = [output |-> o, capacity |-> Capacity, remaincapacity |-> Capacity, nodes |-> <<>>]
  BY DEF NewReassembler
<1>2. GoodReassembler(z, StreamLen) /\ z.capacity = Capacity
  BY <1>0, NewReassemblerGood
<1>3. rcv = [reassembler |-> z, capacity |-> Capacity, isn |-> 0, set_isn |-> FALSE]
      /\ peerIsn \in Uint32
  BY ReceiverAssumption DEF Init, NewReceiver
<1> HIDE DEF z
<1>4. rcv.reassembler = z /\ rcv.isn = 0 /\ rcv.set_isn = FALSE
  BY <1>3
<1> QED BY <1>0, <1>2, <1>3, <1>4 DEF IndInv

\* What is known of the output.
LEMMA Output ==
    ASSUME IndInv
    PROVE  /\ GoodOutput(out, StreamLen, Capacity)
           /\ out.writtensize \in Nat /\ out.readsize \in Nat /\ out.end \in BOOLEAN
           /\ out.writtensize <= StreamLen /\ out.readsize <= out.writtensize
           /\ out.writtensize = out.readsize + Len(out.que)
           /\ Len(out.que) \in Nat /\ Len(out.que) <= Capacity
<1>1. GoodOutput(out, StreamLen, Capacity)
  BY DEF IndInv, GoodReassembler, out, StreamOut
<1>2. StreamLen \in Nat /\ Capacity \in Nat
  BY Widths
<1> HIDE DEF out
<1>3. /\ Len(out.que) \in Nat /\ out.capacity \in Nat
      /\ out.writtensize \in Nat /\ out.readsize \in Nat /\ out.end \in BOOLEAN
      /\ out.writtensize <= StreamLen /\ out.readsize <= out.writtensize
  BY <1>1, <1>2, GoodOutputMembers
<1>4. out.capacity + Len(out.que) = Capacity /\ out.writtensize = out.readsize + Len(out.que)
  BY <1>1 DEF GoodOutput
<1>5. Len(out.que) <= Capacity
  BY <1>2, <1>3, <1>4
<1> QED BY <1>1, <1>3, <1>4, <1>5

\* unwrap() finds the index that the sequence number of the payload stands for.
LEMMA IndexFound ==
    ASSUME ~ Overrun, IndInv, NEW lo \in Nat, NEW hi \in Nat, NEW syn \in BOOLEAN,
           NEW fin \in BOOLEAN, lo <= hi, syn => lo = 0,
           lo + MaxLag >= out.writtensize,
           hi <= MaxOf(out.readsize + Capacity, out.writtensize + 1),
           NEW seg, seg = SegmentOf(lo, hi, syn, fin)
    PROVE  /\ seg.syn => seg.seqno = peerIsn
           /\ unwrap(PayloadSeqno(seg), peerIsn, out.writtensize) = lo + 1
<1>1. peerIsn \in Uint32 /\ peerIsn \in Nat
  BY Widths DEF IndInv
<1>2. seg.syn = syn /\ seg.seqno = wrap(IF syn THEN 0 ELSE lo + 1, peerIsn)
  BY DEF SegmentOf, NewSegment
<1>3. PICK W \in Nat, R \in Nat :
          /\ W = out.writtensize /\ R = out.readsize /\ R <= W /\ W <= StreamLen
  BY Output
<1>4. unwrap(wrap(lo + 1, peerIsn), peerIsn, W) = lo + 1
  <2>1. lo + MaxLag >= W /\ lo <= hi /\ (hi <= R + Capacity \/ hi <= W + 1)
    BY <1>3 DEF MaxOf
  <2>2. -Half32 <= (lo + 1) - W /\ (lo + 1) - W < Half32
    BY <1>3, <2>1, Widths
  <2>3. W + Wrap32 <= Wrap64 /\ lo + 1 \in Nat
    BY <1>3, Widths
  <2> QED BY <1>1, <2>2, <2>3, UnwrapWrap
<1>5. CASE syn
  <2>1. seg.seqno = peerIsn
    BY <1>1, <1>2, <1>5, WrapOfZero
  <2>2. PayloadSeqno(seg) = Plus(peerIsn, 1)
    BY <1>2, <1>5, <2>1 DEF PayloadSeqno
  <2>3. Plus(peerIsn, 1) = wrap(lo + 1, peerIsn)
    <3>1. lo + 1 = 1
      BY <1>5
    <3>2. 1 % Wrap32 = 1
      BY Widths, SmallMod
    <3> QED BY <3>1, <3>2 DEF wrap
  <2> QED BY <1>3, <1>4, <2>1, <2>2, <2>3
<1>6. CASE ~ syn
  <2>1. PayloadSeqno(seg) = wrap(lo + 1, peerIsn)
    BY <1>2, <1>6 DEF PayloadSeqno
  <2> QED BY <1>2, <1>3, <1>4, <1>6, <2>1
<1> QED BY <1>5, <1>6

\* The receiver after a segment whose payload has the absolute number abs.
Received(seg, isn, set, abs) ==
    [reassembler |-> IF ~ set \/ Refused(rcv, abs)
                       THEN rcv.reassembler
                       ELSE PushSubstring(rcv.reassembler, seg.payload, StreamIndex(abs), seg.fin),
     capacity |-> Capacity, isn |-> isn, set_isn |-> set]

LEMMA SegmentReceived ==
    ASSUME IndInv, NEW seg, NEW isn, isn = IF seg.syn THEN seg.seqno ELSE rcv.isn,
           NEW set, set = (rcv.set_isn \/ seg.syn),
           NEW abs, abs = unwrap(PayloadSeqno(seg), isn, out.writtensize)
    PROVE  ReceiverSegmentReceived(rcv, seg) = Received(seg, isn, set, abs)
<1>1. PICK a, b, c : rcv = [reassembler |-> a, capacity |-> Capacity, isn |-> b, set_isn |-> c]
  BY DEF IndInv
<1> DEFINE d == [rcv EXCEPT !.isn = isn]
           r1 == [rcv EXCEPT !.isn = isn, !.set_isn = rcv.set_isn \/ seg.syn]
           y == PushSubstring(a, seg.payload, StreamIndex(abs), seg.fin)
<1>2. ReceiverSegmentReceived(rcv, seg)
        = IF ~ r1.set_isn \/ Refused(rcv, abs)
            THEN r1
            ELSE [r1 EXCEPT !.reassembler =
                    PushSubstring(r1.reassembler, seg.payload, StreamIndex(abs), seg.fin)]
  BY DEF ReceiverSegmentReceived, Then, out
<1>3. rcv.reassembler = a
  BY <1>1
<1>4. d = [reassembler |-> a, capacity |-> Capacity, isn |-> isn, set_isn |-> c]
  BY <1>1
<1>5. r1 = [d EXCEPT !.set_isn = set]
  OBVIOUS
<1> HIDE DEF d, r1
<1>6. r1 = [reassembler |-> a, capacity |-> Capacity, isn |-> isn, set_isn |-> set]
  BY <1>4, <1>5
<1>7. r1.set_isn = set /\ r1.reassembler = a
  BY <1>6
<1>8. ReceiverSegmentReceived(rcv, seg)
        = IF ~ set \/ Refused(rcv, abs) THEN r1 ELSE [r1 EXCEPT !.reassembler = y]
  BY <1>2, <1>7
<1>9. Received(seg, isn, set, abs)
        = [reassembler |-> IF ~ set \/ Refused(rcv, abs) THEN a ELSE y,
           capacity |-> Capacity, isn |-> isn, set_isn |-> set]
  BY <1>3 DEF Received
<1> HIDE DEF y
<1>10. CASE ~ set \/ Refused(rcv, abs)
  BY <1>6, <1>8, <1>9, <1>10
<1>11. CASE ~ (~ set \/ Refused(rcv, abs))
  BY <1>6, <1>8, <1>9, <1>11
<1> QED BY <1>10, <1>11

\* segment_received().
LEMMA SegmentStep ==
    ASSUME ~ Overrun, IndInv,
           NEW lo \in 0 .. StreamLen, NEW hi \in 0 .. StreamLen,
           NEW syn \in BOOLEAN, NEW fin \in BOOLEAN, DoSegment(lo, hi, syn, fin)
    PROVE  IndInv' /\ Advanced(rcv'.reassembler, rcv.reassembler)
<1> DEFINE seg == SegmentOf(lo, hi, syn, fin)
           isn == IF seg.syn THEN seg.seqno ELSE rcv.isn
           set == rcv.set_isn \/ seg.syn
           abs == unwrap(PayloadSeqno(seg), isn, out.writtensize)
           r == rcv.reassembler
           z == IF ~ set \/ Refused(rcv, abs)
                  THEN r ELSE PushSubstring(r, seg.payload, StreamIndex(abs), seg.fin)
<1>1. /\ lo \in Nat /\ hi \in Nat /\ lo <= hi /\ (syn => lo = 0) /\ (fin => hi = StreamLen)
      /\ hi <= StreamLen
      /\ lo + MaxLag >= out.writtensize
      /\ hi <= MaxOf(out.readsize + Capacity, out.writtensize + 1)
      /\ rcv' = ReceiverSegmentReceived(rcv, seg)
      /\ peerIsn' = peerIsn
  BY Widths DEF DoSegment
<1>2. seg.syn = syn /\ seg.fin = fin /\ seg.payload = Excerpt(lo, hi)
  BY DEF SegmentOf, NewSegment
<1>3. rcv' = [reassembler |-> z, capacity |-> Capacity, isn |-> isn, set_isn |-> set]
  <2> HIDE DEF seg
  <2>1. PICK isn2, set2, abs2 : isn2 = isn /\ set2 = set /\ abs2 = abs
    OBVIOUS
  <2>2. rcv' = Received(seg, isn2, set2, abs2)
    BY <1>1, <2>1, SegmentReceived
  <2> QED BY <2>1, <2>2 DEF Received
<1>4. seg.syn => seg.seqno = peerIsn
  BY <1>1, IndexFound
<1>5. set \in BOOLEAN /\ isn \in Uint32 /\ (set => isn = peerIsn)
  <2> HIDE DEF seg
  <2> QED BY <1>2, <1>4 DEF IndInv
<1>6. set => abs = lo + 1
  <2>1. unwrap(PayloadSeqno(seg), peerIsn, out.writtensize) = lo + 1
    BY <1>1, IndexFound
  <2> HIDE DEF seg, isn, set
  <2> QED BY <1>5, <2>1
<1>7. GoodReassembler(r, StreamLen) /\ r.capacity = Capacity
  BY DEF IndInv
<1>8. GoodReassembler(z, StreamLen) /\ Advanced(z, r)
  <2>1. CASE ~ set \/ Refused(rcv, abs)
    <3>1. z = r
      BY <2>1
    <3> HIDE DEF z, r
    <3> QED BY <1>7, <3>1, Widths, AdvancedSelf
  <2>2. CASE ~ (~ set \/ Refused(rcv, abs))
    <3>1. z = PushSubstring(r, Excerpt(lo, hi), lo, fin)
      <4>1. abs = lo + 1 /\ StreamIndex(abs) = lo
        BY <1>1, <1>6, <2>2 DEF StreamIndex
      <4> HIDE DEF seg, abs, set
      <4> QED BY <1>2, <2>2, <4>1
    <3>2. PICK n \in Nat : hi = lo + n
      <4>1. hi - lo \in Nat /\ hi = lo + (hi - lo)
        BY <1>1
      <4> QED BY <4>1
    <3>3. PICK data : data = Excerpt(lo, hi) /\ Bytes(data, lo, n)
      BY <1>1, <3>2, BytesOfExcerpt
    <3>4. lo + n <= StreamLen /\ lo + n <= Edge(r.output, r.capacity) /\ (fin => lo + n = StreamLen)
      BY <1>1, <1>7, <3>2 DEF Edge, out, StreamOut
    <3> HIDE DEF r, z
    <3>5. Pushed(PushSubstring(r, data, lo, fin), r, StreamLen)
      BY <1>1, <1>7, <3>3, <3>4, Widths, PushSubstringGood
    <3> QED BY <3>1, <3>3, <3>5 DEF Pushed
  <2> QED BY <2>1, <2>2
<1>9. z.capacity = Capacity
  BY <1>7, <1>8 DEF Advanced
<1> HIDE DEF z, isn, set
<1>10. peerIsn' \in Uint32
  BY <1>1 DEF IndInv
<1>11. IndInv'
  BY <1>1, <1>3, <1>5, <1>8, <1>9, <1>10, IndInvMade
<1>12. rcv'.reassembler = z
  BY <1>3
<1> QED BY <1>8, <1>11, <1>12

\* The application reads.
LEMMA ReadStep ==
    ASSUME IndInv, NEW len \in Nat, DoRead(len)
    PROVE  /\ IndInv'
           /\ rcv'.reassembler.output.readsize >= rcv.reassembler.output.readsize
           /\ rcv'.reassembler.output.end = rcv.reassembler.output.end
<1> DEFINE r == rcv.reassembler
           z == ReadOutput(r, len)
<1>1. rcv' = [reassembler |-> z, capacity |-> Capacity, isn |-> rcv.isn, set_isn |-> rcv.set_isn]
      /\ peerIsn' = peerIsn
  BY DEF DoRead, IndInv, ReadOutput
<1>2. GoodReassembler(r, StreamLen)
  BY DEF IndInv
<1>0. r.capacity = Capacity
  BY DEF IndInv
<1> HIDE DEF z, r
<1>3. GoodReassembler(z, StreamLen)
  BY <1>2, Widths, ReassemblerRead DEF z
<1>4. z.capacity = r.capacity
  BY <1>2, Widths, ReassemblerRead DEF z
<1>5. z.output.readsize >= r.output.readsize
  BY <1>2, Widths, ReassemblerRead DEF z
<1>6. z.output.end = r.output.end
  BY <1>2, Widths, ReassemblerRead DEF z
<1>7. /\ rcv.isn \in Uint32 /\ rcv.set_isn \in BOOLEAN /\ peerIsn' \in Uint32
      /\ (rcv.set_isn => rcv.isn = peerIsn')
  BY <1>1 DEF IndInv
<1>8. z.capacity = Capacity
  BY <1>0, <1>4
<1>9. IndInv'
  BY <1>1, <1>3, <1>7, <1>8, IndInvMade
<1>10. rcv'.reassembler = z
  BY <1>1
<1> QED BY <1>5, <1>6, <1>9, <1>10 DEF r

\* Every step keeps the invariant.
LEMMA NextInv ==
    ASSUME ~ Overrun PROVE IndInv /\ [Next]_vars => IndInv'
<1> SUFFICES ASSUME IndInv, [Next]_vars PROVE IndInv'
  OBVIOUS
<1>1. ASSUME NEW lo \in 0 .. StreamLen, NEW hi \in 0 .. StreamLen,
             NEW syn \in BOOLEAN, NEW fin \in BOOLEAN, DoSegment(lo, hi, syn, fin)
      PROVE  IndInv'
  BY <1>1, SegmentStep
<1>2. ASSUME NEW len \in 1 .. Capacity, DoRead(len) PROVE IndInv'
  <2>1. len \in Nat
    BY Widths
  <2> QED BY <1>2, <2>1, ReadStep
<1>3. CASE UNCHANGED vars
  BY <1>3 DEF IndInv, vars
<1> QED BY <1>1, <1>2, <1>3 DEF Next

\* Always, with a peer that respects the window.
LEMMA Invariance ==
    ASSUME ~ Overrun PROVE Spec => []IndInv
<1>1. IndInv /\ [Next]_vars => IndInv'
  BY NextInv
<1> QED BY <1>1, InitInv, PTL DEF Spec

\* With a peer that respects the window, the TCPReceiver hands every byte of the
\* stream to the application at its place and ends it where FIN says, for every
\* width of the sequence numbers and every initial sequence number.
THEOREM ReceiverCorrect ==
    ASSUME ~ Overrun PROVE Spec => []StreamIntact
<1>1. IndInv => StreamIntact
  <2> SUFFICES ASSUME IndInv PROVE StreamIntact
    OBVIOUS
  <2>1. PICK R \in Nat, n \in Nat : /\ R = out.readsize /\ n = Len(out.que)
                                   /\ out.writtensize = R + n
    BY Output
  <2>2. Bytes(out.que, R, n) /\ (out.end => out.writtensize = StreamLen)
    BY <2>1, Output DEF GoodOutput
  <2>3. out.que = Excerpt(R, R + n)
    BY <2>2, ExcerptOfBytes
  <2> QED BY <2>1, <2>2, <2>3 DEF StreamIntact
<1>2. Spec => []IndInv
  BY Invariance
<1> QED BY <1>1, <1>2, PTL

\* The peer, whose own absolute numbers are within the window of the ackno, reads
\* the 32 bits of ackno() as the number of the first byte that is missing.
THEOREM AcknoCorrect ==
    ASSUME ~ Overrun PROVE Spec => []AcknoReadBack
<1>1. IndInv => AcknoReadBack
  <2> SUFFICES ASSUME IndInv, HasAckno(rcv),
                      NEW next \in AbsAckno(rcv) .. AbsAckno(rcv) + WindowSize(rcv)
               PROVE  unwrap(Ackno(rcv), peerIsn, next)
                        = out.writtensize + 1 + BoolToNat(out.end)
    BY DEF AcknoReadBack
  <2> DEFINE A == AbsAckno(rcv)
  <2>1. A = out.writtensize + 1 + BoolToNat(out.end)
    BY DEF AbsAckno, out
  <2>2. WindowSize(rcv) = Capacity - Len(out.que)
    BY DEF WindowSize, BufferSize, out, IndInv
  <2>3. rcv.isn = peerIsn /\ peerIsn \in Nat
    BY Widths DEF HasAckno, IndInv
  <2>4. Ackno(rcv) = wrap(A, peerIsn)
    BY <2>3 DEF Ackno, wrap
  <2>5. BoolToNat(out.end) \in 0 .. 1
    BY DEF BoolToNat
  <2> HIDE DEF A
  <2>6. A \in Nat /\ A <= out.writtensize + 2
    BY <2>1, <2>5, Output
  <2>7. next \in Nat /\ A <= next /\ next <= A + (Capacity - Len(out.que))
    BY <2>2, <2>6, Output, Widths DEF A
  <2>8. next + Wrap32 <= Wrap64
    <3>1. next <= StreamLen + 2 + Capacity
      BY <2>6, <2>7, Output, Widths
    <3> QED BY <2>7, <3>1, Widths
  <2>9. -Half32 <= A - next /\ A - next < Half32
    BY <2>6, <2>7, Output, Widths
  <2>10. unwrap(wrap(A, peerIsn), peerIsn, next) = A
    BY <2>3, <2>6, <2>7, <2>8, <2>9, UnwrapWrap
  <2> QED BY <2>1, <2>4, <2>10
<1>2. Spec => []IndInv
  BY Invariance
<1> QED BY <1>1, <1>2, PTL

\* ackno() + window_size(), the number up to which the peer may send, never moves
\* back, whatever arrives and whatever the application reads.
THEOREM WindowNeverShrinks ==
    ASSUME ~ Overrun PROVE Spec => RightEdgeNeverRetreats
<1> DEFINE E(o) == o.readsize + 1 + BoolToNat(o.end) + Capacity
           A == HasAckno(rcv) =>
                  AbsAckno(rcv)' + WindowSize(rcv)' >= AbsAckno(rcv) + WindowSize(rcv)
<1>1. ASSUME IndInv PROVE AbsAckno(rcv) + WindowSize(rcv) = E(out)
  <2>1. AbsAckno(rcv) = out.writtensize + 1 + BoolToNat(out.end)
    BY DEF AbsAckno, out
  <2>2. WindowSize(rcv) = Capacity - Len(out.que)
    BY <1>1 DEF WindowSize, BufferSize, out, IndInv
  <2>3. BoolToNat(out.end) \in Nat
    BY DEF BoolToNat
  <2>4. PICK b \in Nat, W \in Nat, R \in Nat, l \in Nat :
            /\ b = BoolToNat(out.end) /\ W = out.writtensize /\ R = out.readsize
            /\ l = Len(out.que) /\ W = R + l
    BY <1>1, <2>3, Output
  <2>5. (W + 1 + b) + (Capacity - l) = R + 1 + b + Capacity
    <3>1. W = R + l /\ Capacity \in Nat
      BY <2>4, Widths
    <3> QED BY <3>1
  <2> QED BY <2>1, <2>2, <2>4, <2>5
<1>2. IndInv' => AbsAckno(rcv)' + WindowSize(rcv)' = E(out')
  <2>1. (IndInv => AbsAckno(rcv) + WindowSize(rcv) = E(out))'
    BY <1>1, PTL
  <2> QED BY <2>1
<1>0. (IndInv => out.readsize \in Nat)'
  <2>1. IndInv => out.readsize \in Nat
    BY Output
  <2> QED BY <2>1, PTL
<1>3. ASSUME IndInv, Next PROVE A
  <2>1. IndInv'
    BY <1>3, NextInv
  <2>2. /\ out.readsize \in Nat /\ out'.readsize \in Nat
        /\ out'.readsize >= out.readsize /\ (out.end => out'.end)
    <3>1. out.readsize \in Nat
      BY <1>3, Output
    <3>2. out'.readsize \in Nat
      BY <1>0, <2>1
    <3>3. ASSUME NEW lo \in 0 .. StreamLen, NEW hi \in 0 .. StreamLen,
                 NEW syn \in BOOLEAN, NEW fin \in BOOLEAN, DoSegment(lo, hi, syn, fin)
          PROVE  out'.readsize >= out.readsize /\ (out.end => out'.end)
      <4>1. Advanced(rcv'.reassembler, rcv.reassembler)
        BY <1>3, <3>3, SegmentStep
      <4> QED BY <3>1, <4>1 DEF Advanced, out, StreamOut
    <3>4. ASSUME NEW len \in 1 .. Capacity, DoRead(len)
          PROVE  out'.readsize >= out.readsize /\ (out.end => out'.end)
      <4>1. len \in Nat
        BY Widths
      <4>2. /\ rcv'.reassembler.output.readsize >= rcv.reassembler.output.readsize
            /\ rcv'.reassembler.output.end = rcv.reassembler.output.end
        BY <1>3, <3>4, <4>1, ReadStep
      <4> QED BY <4>2 DEF out, StreamOut
    <3> QED BY <1>3, <3>1, <3>2, <3>3, <3>4 DEF Next
  <2>3. E(out') >= E(out)
    BY <2>2, Widths DEF BoolToNat
  <2> QED BY <1>1, <1>2, <1>3, <2>1, <2>3
<1>4. IndInv /\ [Next]_vars => [A]_vars
  BY <1>3
<1>5. Spec => []IndInv
  BY Invariance
<1> QED BY <1>4, <1>5, PTL DEF Spec, RightEdgeNeverRetreats

-----------------------------------------------------------------------------
(* One byte on its way through the reassembler. *)

\* A node of the list holds byte i.
Holds(nodes, i) ==
    \E k \in DOMAIN nodes : i \in nodes[k].blockstart .. nodes[k].blockend

\* The reassembler has byte i: it has written or stored it.
Has(r, i) == i < r.output.writtensize \/ Holds(r.nodes, i)

\* A round of fetch_valid_data() takes a node off the list only when the output
\* has all of its bytes.
LEMMA RoundKeeps ==
    ASSUME NEW L \in Nat, NEW r, GoodReassembler(r, L), NEW i \in Nat, Has(r, i)
    PROVE  Has(FetchRound(r), i)
<1>1. PICK z : z = FetchRound(r)
  OBVIOUS
<1>2. /\ Advanced(z, r)
      /\ ~ LoopEnds(r) => /\ z.nodes = Tail(r.nodes) /\ r.nodes # <<>>
                          /\ r.nodes[1].blockend < z.output.writtensize
      /\ LoopEnds(r) => z = r
      /\ GoodReassembler(z, L)
  BY <1>1, FetchRoundGood
<1>3. \A x : GoodReassembler(x, L) => x.output.writtensize \in Nat
  BY GoodOutputMembers DEF GoodReassembler
<1>4. /\ r.output.writtensize \in Nat /\ z.output.writtensize \in Nat
      /\ z.output.writtensize >= r.output.writtensize
  BY <1>2, <1>3 DEF Advanced
<1>5. CASE i < r.output.writtensize
  BY <1>1, <1>4, <1>5 DEF Has
<1>6. CASE LoopEnds(r)
  BY <1>1, <1>2, <1>6
<1>7. CASE ~ LoopEnds(r) /\ Holds(r.nodes, i)
  <2>1. PICK k \in DOMAIN r.nodes : i \in r.nodes[k].blockstart .. r.nodes[k].blockend
    BY <1>7 DEF Holds
  <2>2. r.nodes \in Seq(NodeType) /\ r.nodes # <<>>
    BY <1>2, <1>7 DEF GoodReassembler, GoodList
  <2>3. k \in 1 .. Len(r.nodes) /\ Len(r.nodes) \in Nat /\ r.nodes[k] \in NodeType
    BY <2>2, LenProperties
  <2>4. CASE k = 1
    <3>1. r.nodes[1].blockend \in Int /\ i <= r.nodes[1].blockend
      BY <2>1, <2>3, <2>4 DEF NodeType
    <3>2. i < z.output.writtensize
      BY <1>2, <1>4, <1>7, <3>1
    <3> QED BY <1>1, <3>2 DEF Has
  <2>5. CASE k # 1
    <3>1. /\ Len(z.nodes) = Len(r.nodes) - 1 /\ z.nodes \in Seq(NodeType)
          /\ \A j \in 1 .. Len(r.nodes) - 1 : z.nodes[j] = r.nodes[j + 1]
      <4>1. PICK s \in Seq(NodeType), q \in {z.nodes} :
                s = r.nodes /\ q = Tail(s) /\ q = z.nodes /\ s # <<>>
        BY <1>2, <1>7, <2>2
      <4>2. q \in Seq(NodeType) /\ Len(q) = Len(s) - 1
        BY <4>1, HeadTailProperties
      <4>3. \A j \in 1 .. Len(q) : q[j] = s[j + 1]
        BY <4>1, HeadTailProperties
      <4> QED BY <4>1, <4>2, <4>3
    <3>2. k - 1 \in 1 .. Len(r.nodes) - 1 /\ (k - 1) + 1 = k
      BY <2>3, <2>5
    <3>3. k - 1 \in DOMAIN z.nodes /\ z.nodes[k - 1] = r.nodes[k]
      BY <3>1, <3>2
    <3>4. Holds(z.nodes, i)
      BY <2>1, <3>3 DEF Holds
    <3> QED BY <1>1, <3>4 DEF Has
  <2> QED BY <2>4, <2>5
<1> QED BY <1>5, <1>6, <1>7 DEF Has

\* So the whole loop loses no byte.
LEMMA FetchKeeps ==
    ASSUME NEW L \in Nat, NEW r, GoodReassembler(r, L), NEW i \in Nat, Has(r, i)
    PROVE  Has(FetchValidData(r), i)
<1> DEFINE S == {x \in ReassemblerType : GoodReassembler(x, L) /\ Has(x, i)}
<1>1. ASSUME NEW x \in S PROVE FetchRound(x) \in S
  <2>1. GoodReassembler(FetchRound(x), L) /\ Has(FetchRound(x), i)
    BY FetchRoundGood, RoundKeeps
  <2> QED BY <2>1, GoodReassemblerType
<1>2. r \in S
  BY GoodReassemblerType
<1>3. PICK n \in Nat : n = Len(r.nodes)
  BY LenProperties DEF GoodReassembler, GoodList
<1>4. PICK g \in [0 .. n -> S] : FetchRounds(g, r, n)
  <2> HIDE DEF S
  <2>1. \A x \in S : FetchRound(x) \in S
    BY <1>1
  <2> QED BY <1>2, <2>1, FetchIterated, Zenon
<1>5. FetchValidData(r) = g[n]
  BY <1>3, <1>4 DEF FetchValidData, FetchRounds
<1>6. g[n] \in S
  OBVIOUS
<1> QED BY <1>5, <1>6

\* A call of insert_to_linklist() that comes after byte i has been stored.
Done(c, i) == Len(c.data) = 0 /\ Holds(c.sr.nodes, i)

\* One that still has to store it: the node at which its walk begins lies before i.
Pending(c, i) ==
    /\ Len(c.data) = 1 /\ c.index = i /\ c.sr.remaincapacity > 0
    /\ c.sr.nodes # <<>> => c.head = 1 \/ c.sr.nodes[c.head].blockstart <= i

\* How far a call that has not stored the byte has come: the list is longer by an
\* empty node, and the next call begins behind it.
Further(c2, c, i) ==
    /\ Pending(c2, i)
    /\ Len(c2.sr.nodes) = Len(c.sr.nodes) + 1 /\ c2.head >= c.head + 2

\* A node for the byte, and an empty one.
LEMMA ByteStored ==
    ASSUME NEW L \in Nat, NEW r, GoodReassembler(r, L), NEW c, GoodCall(c, r, L),
           NEW p, NEW n \in 0 .. 1, NEW i, Pending(c, i), GoodPlace(c, p, 0, n),
           NEW eof \in BOOLEAN, eof => KeptEof(c, 0, n) /\ n > 0,
           NEW z, z = StoreAfter(c, p, 0, n, eof)
    PROVE  /\ Relisted(z, r, L) /\ StoredAt(z, c, p, 0, n)
           /\ n = 1 => Holds(z.nodes, i)
<1>1. PICK offset \in Nat : offset = 0 /\ offset + n = n /\ n + offset = n
  OBVIOUS
<1>2. GoodPlace(c, p, offset, n) /\ z = StoreAfter(c, p, offset, n, eof)
      /\ (eof => c.eof /\ offset + n = Len(c.data) /\ n > 0)
  BY <1>1 DEF KeptEof
<1>3. Relisted(z, r, L) /\ StoredAt(z, c, p, offset, n)
  BY <1>2, StoreAfterGood
<1>4. StoredAt(z, c, p, 0, n)
  BY <1>1, <1>3
<1>5. ASSUME n = 1 PROVE Holds(z.nodes, i)
  <2>1. i \in Nat /\ c.index = i
    BY DEF Pending, GoodCall, GoodData
  <2>2. z.nodes[p + 1].blockstart = i /\ z.nodes[p + 1].blockend = i
        /\ Len(z.nodes) = Len(c.sr.nodes) + 1
    BY <1>4, <1>5, <2>1 DEF StoredAt
  <2>3. p \in 0 .. Len(c.sr.nodes) /\ Len(c.sr.nodes) \in Nat
    BY LenProperties DEF GoodPlace, GoodCall, GoodReassembler, GoodList
  <2>4. z.nodes \in Seq(NodeType)
    BY <1>3 DEF Relisted, GoodReassembler, GoodList
  <2>5. p + 1 \in DOMAIN z.nodes
    BY <2>2, <2>3, <2>4
  <2>6. i \in z.nodes[p + 1].blockstart .. z.nodes[p + 1].blockend
    BY <2>1, <2>2
  <2> QED BY <2>5, <2>6 DEF Holds
<1> QED BY <1>3, <1>4, <1>5

\* What a call that returns leaves.
LEMMA ReturnedMembers ==
    ASSUME NEW L, NEW r, NEW c, GoodCall(c, r, L), NEW z
    PROVE  Returned(c, z).sr = z /\ Len(Returned(c, z).data) = 0
<1>1. PICK a1, a2, a3, a4, a5 : c = [sr |-> a1, data |-> a2, index |-> a3, head |-> a4, eof |-> a5]
  BY Zenon DEF GoodCall
<1>2. PICK d : d = [c EXCEPT !.sr = z]
  OBVIOUS
<1>3. d = [sr |-> z, data |-> a2, index |-> a3, head |-> a4, eof |-> a5]
  BY <1>1, <1>2
<1>4. Returned(c, z) = [d EXCEPT !.data = <<>>]
  BY <1>2 DEF Returned
<1>5. Len(<<>>) = 0
  BY EmptySeq
<1> QED BY <1>3, <1>4, <1>5

\* The arguments of a recursive call.
CalledFrom(c2, c, z, used, head) ==
    c2.sr = z /\ c2.data = Drop(c.data, used) /\ c2.index = c.index + used /\ c2.head = head

LEMMA RecurseMembers ==
    ASSUME NEW c, NEW z, NEW used, NEW head
    PROVE  CalledFrom(Recurse(c, z, used, head), c, z, used, head)
<1> DEFINE c2 == Recurse(c, z, used, head)
<1>1. PICK d, x, e : d = Drop(c.data, used) /\ x = c.index + used /\ e = c.eof
  OBVIOUS
<1>2. c2 = [sr |-> z, data |-> d, index |-> x, head |-> head, eof |-> e]
  BY <1>1 DEF Recurse
<1> HIDE DEF c2
<1>3. CalledFrom(c2, c, z, used, head)
  BY <1>1, <1>2 DEF CalledFrom
<1> QED BY <1>3 DEF c2

\* Behind the last node the byte is stored at once.
LEMMA AppendDone ==
    ASSUME NEW L \in Nat, NEW r, GoodReassembler(r, L), NEW c, GoodCall(c, r, L),
           NEW p, NEW i, Pending(c, i), GoodPlace(c, p, 0, 1)
    PROVE  Done(AppendLast(c, p, 0, 1), i)
<1>0. PICK n \in 0 .. 1 : n = 1
  OBVIOUS
<1>1. PICK eof \in BOOLEAN : eof = KeptEof(c, 0, n)
  BY DEF GoodCall, GoodData, KeptEof
<1>2. PICK z : z = StoreAfter(c, p, 0, n, eof)
  OBVIOUS
<1>3. GoodPlace(c, p, 0, n) /\ (eof => KeptEof(c, 0, n) /\ n > 0)
  BY <1>0, <1>1
<1>4. Holds(z.nodes, i)
  BY <1>0, <1>2, <1>3, ByteStored
<1>5. AppendLast(c, p, 0, 1) = Returned(c, z)
  BY <1>0, <1>1, <1>2 DEF AppendLast
<1>6. Returned(c, z).sr = z /\ Len(Returned(c, z).data) = 0
  BY ReturnedMembers
<1> QED BY <1>4, <1>5, <1>6 DEF Done

\* Before a node it is stored, or an empty node is, and the next call begins at a
\* node that begins with the byte.
LEMMA GoOnDone ==
    ASSUME NEW L \in Nat, NEW r, GoodReassembler(r, L), NEW c, GoodCall(c, r, L),
           NEW p \in Nat, NEW n \in 0 .. 1, NEW i \in Nat, Pending(c, i), GoodPlace(c, p, 0, n),
           p < Len(c.sr.nodes),
           n = 0 => c.sr.nodes[p + 1].blockstart <= i /\ p >= c.head,
           NEW c2, c2 = Recurse(c, StoreAfter(c, p, 0, n, FALSE), n, p + 2)
    PROVE  (n = 1 /\ Done(c2, i)) \/ (n = 0 /\ Further(c2, c, i))
<1>0. PICK eof \in BOOLEAN : eof = FALSE
  OBVIOUS
<1>1. PICK z : z = StoreAfter(c, p, 0, n, eof)
  OBVIOUS
<1>2. /\ StoredAt(z, c, p, 0, n)
      /\ n = 1 => Holds(z.nodes, i)
  BY <1>0, <1>1, ByteStored
<1>3. c2 = Recurse(c, z, n, p + 2)
  BY <1>0, <1>1
<1>4. /\ c2.sr = z /\ c2.data = Drop(c.data, n) /\ c2.index = c.index + n
      /\ c2.head = p + 2
  <2>1. CalledFrom(c2, c, z, n, p + 2)
    BY <1>3, RecurseMembers
  <2> QED BY <2>1 DEF CalledFrom
<1>5. c.index \in Nat /\ c.index = i /\ Bytes(c.data, c.index, 1) /\ c.sr.remaincapacity > 0
      /\ c.sr.remaincapacity \in Nat
  BY DEF GoodCall, GoodData, Pending, GoodReassembler
<1>6. ASSUME n = 1 PROVE Done(c2, i)
  <2>1. Bytes(Drop(c.data, n), c.index + n, 0)
    <3>1. n \in Nat /\ 0 \in Nat /\ n + 0 = 1
      BY <1>6
    <3> QED BY <1>5, <3>1, BytesDrop
  <2> QED BY <1>2, <1>4, <1>6, <2>1 DEF Done, Bytes
<1>7. ASSUME n = 0 PROVE Further(c2, c, i)
  <2>1. Bytes(Drop(c.data, n), c.index + n, 1)
    <3>1. n \in Nat /\ 1 \in Nat /\ n + 1 = 1
      BY <1>7
    <3> QED BY <1>5, <3>1, BytesDrop
  <2>2. z.remaincapacity > 0 /\ z.nodes[p + 2] = c.sr.nodes[p + 1]
        /\ Len(z.nodes) = Len(c.sr.nodes) + 1
    BY <1>2, <1>5, <1>7 DEF StoredAt
  <2>3. Len(c2.data) = 1 /\ c2.index = i
    <3>1. c.index + n = i
      BY <1>5, <1>7
    <3>2. Len(Drop(c.data, n)) = 1
      BY <2>1 DEF Bytes
    <3> QED BY <1>4, <3>1, <3>2, Zenon
  <2>4. c2.sr.nodes[c2.head].blockstart <= i
    BY <1>4, <1>7, <2>2
  <2>5. c2.head >= c.head + 2
    <3>1. PICK h \in Nat : h = c.head
      BY DEF GoodCall
    <3>2. p >= h
      BY <1>7, <3>1
    <3>3. p + 2 >= h + 2
      BY <3>2
    <3> QED BY <1>4, <3>1, <3>3
  <2>6. Pending(c2, i)
    BY <1>4, <2>2, <2>3, <2>4 DEF Pending
  <2> QED BY <1>4, <2>2, <2>5, <2>6 DEF Further
<1>8. n = 0 \/ n = 1
  OBVIOUS
<1> QED BY <1>6, <1>7, <1>8, Zenon

\* A call with nothing to store changes nothing.
LEMMA DoneStays ==
    ASSUME NEW L \in Nat, NEW r, NEW c, GoodCall(c, r, L), NEW i, Done(c, i)
    PROVE  Done(InsertCall(c), i)
<1>1. c.sr.remaincapacity \in Nat /\ Len(c.data) = 0
  BY DEF GoodCall, GoodReassembler, Done
<1>2. StoreSize(c) = 0
  BY <1>1 DEF StoreSize, MinOf
<1>3. InsertCall(c) = Returned(c, c.sr)
  BY <1>2 DEF InsertCall
<1>4. Returned(c, c.sr).sr = c.sr /\ Len(Returned(c, c.sr).data) = 0
  BY ReturnedMembers
<1> QED BY <1>3, <1>4 DEF Done

\* What the walk does with a single byte.
LEMMA WalkCases ==
    ASSUME NEW c, NEW i \in Nat, c.index = i, Len(c.data) = 1,
           NEW p, p = WalkEnd(c, 1), NEW end \in Int, end = c.sr.nodes[p].blockend
    PROVE  /\ i <= end => InsertWalk(c, 1) = Returned(c, c.sr)
           /\ i > end /\ p = Len(c.sr.nodes) => InsertWalk(c, 1) = AppendLast(c, p, 0, 1)
           /\ i > end /\ p # Len(c.sr.nodes) =>
                \A n : n = MinOf(1, Gap(c, p)) =>
                  InsertWalk(c, 1) = Recurse(c, StoreAfter(c, p, 0, n, FALSE), 0 + n, p + 2)
<1> DEFINE q == WalkEnd(c, 1)
           e == c.sr.nodes[q].blockend
           offset == IF c.index > e THEN 0 ELSE e + 1 - c.index
           room == MinOf(1, Len(c.data) - offset)
           m == MinOf(room, Gap(c, q))
           done == c.index + 1 - 1 <= e
           last == c.index + 1 - 1 > e /\ q = Len(c.sr.nodes)
           x == Returned(c, c.sr)
           y == AppendLast(c, q, offset, room)
           z == Recurse(c, StoreAfter(c, q, offset, m, FALSE), offset + m, q + 2)
<1>1. InsertWalk(c, 1) = CASE done -> x [] last -> y [] OTHER -> z
  BY DEF InsertWalk
<1>2. q = p /\ e = end
  OBVIOUS
<1> HIDE DEF q, e
<1>3. /\ done <=> i <= end
      /\ last <=> i > end /\ p = Len(c.sr.nodes)
      /\ i <= end <=> ~ (i > end)
  BY <1>2
<1>4. i > end => offset = 0
  BY <1>2
<1> HIDE DEF offset
<1>5. i > end => room = 1
  BY <1>4 DEF MinOf
<1> HIDE DEF room
<1>6. i > end => m = MinOf(1, Gap(c, p)) /\ y = AppendLast(c, p, 0, 1)
  BY <1>2, <1>4, <1>5
<1>7. i > end => z = Recurse(c, StoreAfter(c, p, 0, m, FALSE), 0 + m, p + 2)
  BY <1>2, <1>4
<1> HIDE DEF m, x, y, z
<1>8. i <= end => InsertWalk(c, 1) = x
  BY <1>1, <1>3
<1>9. i > end /\ p = Len(c.sr.nodes) => InsertWalk(c, 1) = y
  BY <1>1, <1>3
<1>10. i > end /\ p # Len(c.sr.nodes) => InsertWalk(c, 1) = z
  BY <1>1, <1>3
<1> QED BY <1>6, <1>7, <1>8, <1>9, <1>10 DEF x

\* The walk stops at a node that holds the byte, or at the gap where it belongs, or
\* before a node that begins with it.
LEMMA WalkKeeps ==
    ASSUME NEW L \in Nat, NEW r, GoodReassembler(r, L), NEW c, GoodCall(c, r, L),
           NEW i \in Nat, Pending(c, i), c.sr.nodes # <<>>,
           c.sr.nodes[1].blockstart <= i
    PROVE  Done(InsertWalk(c, 1), i) \/ Further(InsertWalk(c, 1), c, i)
<1>1. PICK nodes : nodes = c.sr.nodes
  OBVIOUS
<1>2. /\ c.index = i /\ Len(c.data) = 1 /\ c.sr.remaincapacity \in Nat /\ c.sr.remaincapacity > 0
      /\ nodes \in Seq(NodeType) /\ Len(nodes) \in Nat
      /\ c.head \in Nat /\ c.head >= 1
      /\ c.head = 1 \/ nodes[c.head].blockstart <= i
  BY <1>1, LenProperties DEF Pending, GoodCall, GoodReassembler, GoodList
<1>3. PICK p : p = WalkEnd(c, 1)
  OBVIOUS
<1>4. StopsAt(p, c, 1)
  <2>1. PICK ws \in Nat : ws = 1
    OBVIOUS
  <2>2. p = WalkEnd(c, ws) /\ Len(c.data) > 0
    BY <1>2, <1>3, <2>1
  <2>3. StopsAt(p, c, ws)
    BY <2>2, WalkEndStops
  <2> QED BY <2>1, <2>3
<1>5. p \in 1 .. Len(nodes) /\ p >= c.head /\ p \in Nat
  BY <1>1, <1>2, <1>4 DEF StopsAt
<1>6. PICK start \in Nat, end \in Int : start = nodes[p].blockstart /\ end = nodes[p].blockend
  <2>1. nodes[p] \in NodeType
    BY <1>2, <1>5
  <2> QED BY <2>1 DEF NodeType
<1>7. start <= i
  <2>1. CASE p = c.head
    BY <1>1, <1>2, <1>6, <2>1
  <2>2. CASE p # c.head
    <3>1. p > c.head /\ p - 1 \in 1 .. Len(nodes)
      BY <1>2, <1>5, <2>2
    <3>2. nodes[p - 1] \in NodeType
      BY <1>2, <3>1
    <3>3. PICK e \in Int : e = nodes[p - 1].blockend
      BY <3>2 DEF NodeType
    <3>4. (start = e + 1 /\ i + 1 - 1 > e) \/ i > start
      BY <1>1, <1>2, <1>4, <1>6, <3>1, <3>3 DEF StopsAt
    <3> QED BY <3>4
  <2> QED BY <2>1, <2>2
<1>8. CASE i <= end
  <2>2. InsertWalk(c, 1) = Returned(c, c.sr)
    BY <1>1, <1>2, <1>3, <1>6, <1>8, WalkCases
  <2>3. Returned(c, c.sr).sr = c.sr /\ Len(Returned(c, c.sr).data) = 0
    BY ReturnedMembers
  <2>4. p \in DOMAIN nodes /\ i \in nodes[p].blockstart .. nodes[p].blockend
    BY <1>2, <1>5, <1>6, <1>7, <1>8
  <2> QED BY <1>1, <2>2, <2>3, <2>4 DEF Done, Holds
<1>9. CASE i > end /\ p = Len(nodes)
  <2>1. GoodPlace(c, p, 0, 1)
    BY <1>1, <1>2, <1>5, <1>6, <1>9 DEF GoodPlace
  <2>2. InsertWalk(c, 1) = AppendLast(c, p, 0, 1)
    BY <1>1, <1>2, <1>3, <1>6, <1>9, WalkCases
  <2> QED BY <2>1, <2>2, AppendDone
<1>10. CASE i > end /\ p # Len(nodes)
  <2>1. p < Len(nodes) /\ p + 1 \in 1 .. Len(nodes)
    BY <1>2, <1>5, <1>10
  <2>2. PICK next \in Nat : next = nodes[p + 1].blockstart
    <3>1. nodes[p + 1] \in NodeType
      BY <1>2, <2>1
    <3> QED BY <3>1 DEF NodeType
  <2>3. i <= next
    <3>1. i + 1 - 1 > end
      BY <1>10
    <3> QED BY <1>1, <1>2, <1>4, <1>6, <2>1, <2>2, <3>1, SMTT(20) DEF StopsAt
  <2>4. Gap(c, p) = next - i
    <3>1. MaxOf(i - 1, end) = i - 1
      BY <1>10 DEF MaxOf
    <3>2. Gap(c, p) = next - (i - 1) - 1
      BY <1>1, <1>2, <1>6, <2>2, <3>1 DEF Gap
    <3> QED BY <3>2
  <2>5. PICK n \in 0 .. 1 :
            n = MinOf(1, Gap(c, p)) /\ (n = 0 => next = i) /\ i + n <= next
    <3>1. CASE next = i
      <4>1. Gap(c, p) = 0
        BY <2>4, <3>1
      <4> QED BY <3>1, <4>1 DEF MinOf
    <3>2. CASE next # i
      <4>1. Gap(c, p) >= 1 /\ Gap(c, p) \in Nat
        BY <2>3, <2>4, <3>2
      <4>2. MinOf(1, Gap(c, p)) = 1 /\ i + 1 <= next
        BY <2>3, <3>2, <4>1 DEF MinOf
      <4> QED BY <4>2
    <3> QED BY <3>1, <3>2
  <2>6. GoodPlace(c, p, 0, n)
    <3>1. p \in 0 .. Len(nodes) /\ 0 \in Nat /\ n \in Nat /\ 0 + n <= 1 /\ end < i + 0
          /\ i + 0 + n - 1 < next
      BY <1>2, <1>5, <1>10, <2>5
    <3>2. n <= c.sr.remaincapacity
      BY <1>2
    <3> QED BY <1>1, <1>2, <1>6, <2>2, <3>1, <3>2 DEF GoodPlace
  <2>7. PICK c2 : c2 = Recurse(c, StoreAfter(c, p, 0, n, FALSE), n, p + 2)
    OBVIOUS
  <2>8. InsertWalk(c, 1) = c2
    <3>1. InsertWalk(c, 1) = Recurse(c, StoreAfter(c, p, 0, n, FALSE), 0 + n, p + 2)
      BY <1>1, <1>2, <1>3, <1>6, <1>10, <2>5, WalkCases
    <3>2. 0 + n = n
      OBVIOUS
    <3> QED BY <2>7, <3>1, <3>2
  <2>9. p < Len(c.sr.nodes) /\ (n = 0 => c.sr.nodes[p + 1].blockstart <= i /\ p >= c.head)
    BY <1>1, <1>5, <2>1, <2>2, <2>5
  <2>10. Done(c2, i) \/ Further(c2, c, i)
    BY <1>5, <2>6, <2>7, <2>9, GoOnDone
  <2> QED BY <2>8, <2>10
<1> QED BY <1>8, <1>9, <1>10

\* Every call of insert_to_linklist() stores the byte, finds it stored, or gets
\* further.
LEMMA CallKeeps ==
    ASSUME NEW L \in Nat, NEW r, GoodReassembler(r, L), NEW c, GoodCall(c, r, L),
           NEW i \in Nat, Pending(c, i)
    PROVE  Done(InsertCall(c), i) \/ Further(InsertCall(c), c, i)
<1>1. PICK nodes : nodes = c.sr.nodes
  OBVIOUS
<1>2. /\ c.index = i /\ Len(c.data) = 1 /\ c.sr.remaincapacity \in Nat /\ c.sr.remaincapacity > 0
      /\ nodes \in Seq(NodeType) /\ Len(nodes) \in Nat
  BY <1>1, LenProperties DEF Pending, GoodCall, GoodReassembler, GoodList
<1>3. StoreSize(c) = 1
  BY <1>2 DEF StoreSize, MinOf
<1>4. CASE nodes = <<>>
  <2>1. InsertCall(c) = AppendLast(c, 0, 0, 1)
    BY <1>1, <1>3, <1>4 DEF InsertCall
  <2>2. GoodPlace(c, 0, 0, 1)
    <3>1. Len(nodes) = 0
      BY <1>4
    <3> QED BY <1>1, <1>2, <3>1 DEF GoodPlace
  <2> QED BY <2>1, <2>2, AppendDone
<1>5. CASE nodes # <<>>
  <2>1. PICK start \in Nat : start = nodes[1].blockstart
    <3>1. Len(nodes) > 0
      BY <1>2, <1>5, EmptySeq
    <3>2. nodes[1] \in NodeType
      BY <1>2, <3>1
    <3> QED BY <3>2 DEF NodeType
  <2>2. CASE i < start
    <3>1. PICK n \in 0 .. 1 : n = 1
      OBVIOUS
    <3>2. n = MinOf(1, start - i)
      BY <2>2, <3>1 DEF MinOf
    <3>3. InsertCall(c) = Recurse(c, StoreAfter(c, 0, 0, n, FALSE), n, 2)
      BY <1>1, <1>2, <1>3, <1>5, <2>1, <2>2, <3>2 DEF InsertCall
    <3>4. PICK p \in Nat, c2 \in {InsertCall(c)} : p = 0 /\ c2 = InsertCall(c) /\ p + 2 = 2
      OBVIOUS
    <3>5. Len(nodes) > 0
      BY <1>2, <1>5, EmptySeq
    <3>6. GoodPlace(c, p, 0, n)
      <4>1. p \in 0 .. Len(nodes) /\ 0 \in Nat /\ n \in Nat /\ 0 + n <= 1 /\ ~ (p > 0)
            /\ i + 0 + n - 1 < start /\ n <= c.sr.remaincapacity /\ p + 1 = 1
        BY <1>2, <2>2, <3>1, <3>4
      <4> QED BY <1>1, <1>2, <2>1, <4>1 DEF GoodPlace
    <3>7. /\ p < Len(c.sr.nodes)
          /\ n = 0 => c.sr.nodes[p + 1].blockstart <= i /\ p >= c.head
          /\ c2 = Recurse(c, StoreAfter(c, p, 0, n, FALSE), n, p + 2)
      BY <1>1, <3>1, <3>3, <3>4, <3>5
    <3>8. Done(c2, i) \/ Further(c2, c, i)
      BY <3>6, <3>7, GoOnDone
    <3> QED BY <3>4, <3>8
  <2>3. CASE ~ (i < start)
    <3>1. InsertCall(c) = InsertWalk(c, 1)
      BY <1>1, <1>2, <1>3, <1>5, <2>1, <2>3 DEF InsertCall
    <3>2. c.sr.nodes # <<>> /\ c.sr.nodes[1].blockstart <= i
      BY <1>1, <1>5, <2>1, <2>3
    <3> QED BY <3>1, <3>2, WalkKeeps
  <2> QED BY <2>2, <2>3
<1> QED BY <1>4, <1>5

\* A byte that comes alone is stored, or was: each call that does not store it
\* begins two nodes further in a list that is longer by one.
LEMMA InsertKeeps ==
    ASSUME NEW L \in Nat, NEW r, GoodReassembler(r, L), r.remaincapacity > 0,
           NEW i \in Nat, NEW data, GoodData(data, i, FALSE, L, Edge(r.output, r.capacity)),
           Len(data) = 1
    PROVE  Holds(InsertToLinklist(r, data, i, FALSE).nodes, i)
<1> DEFINE c == [sr |-> r, data |-> data, index |-> i, head |-> 1, eof |-> FALSE]
           U == [sr : ReassemblerType, data : Seq(Nat), index : Nat, head : Nat, eof : BOOLEAN]
           S == {x \in U : GoodCall(x, r, L) /\ (Done(x, i) \/ Pending(x, i))}
<1>1. ASSUME NEW x, GoodCall(x, r, L), Done(x, i) \/ Pending(x, i) PROVE x \in S
  <2>1. x.sr \in ReassemblerType
    BY <1>1, GoodReassemblerType DEF GoodCall
  <2>2. x.data \in Seq(Nat) /\ x.index \in Nat /\ x.eof \in BOOLEAN /\ x.head \in Nat
    BY <1>1 DEF GoodCall, GoodData, Bytes
  <2>3. x \in U
    BY <1>1, <2>1, <2>2 DEF GoodCall
  <2> QED BY <1>1, <2>3
<1>2. PICK N \in Nat : N = Len(r.nodes)
  BY LenProperties DEF GoodReassembler, GoodList
<1>3. c.sr = r /\ c.data = data /\ c.index = i /\ c.head = 1 /\ c.eof = FALSE
  OBVIOUS
<1>4. c = [sr |-> c.sr, data |-> c.data, index |-> c.index, head |-> c.head, eof |-> c.eof]
  OBVIOUS
<1>5. PICK n \in Nat : n = N + 2
  OBVIOUS
<1>6. InsertToLinklist(r, data, i, FALSE) = Iterate(InsertCall, c, n).sr
  BY <1>2, <1>5 DEF InsertToLinklist
<1>7. \A x \in S : GoodCall(x, r, L) /\ (Done(x, i) \/ Pending(x, i))
  OBVIOUS
<1> HIDE DEF c, S
<1>8. GoodCall(c, r, L) /\ Pending(c, i)
  <2>1. r.nodes # <<>> => 1 <= Len(r.nodes)
    <3>1. r.nodes \in Seq(NodeType)
      BY DEF GoodReassembler, GoodList
    <3> QED BY <3>1, EmptySeq
  <2>2. GoodCall(c, r, L)
    <3>1. c.head \in Nat /\ c.head >= 1
      BY <1>3
    <3>2. GoodReassembler(c.sr, L) /\ c.sr.output = r.output /\ c.sr.capacity = r.capacity
          /\ GoodData(c.data, c.index, c.eof, L, Edge(r.output, r.capacity))
      BY <1>3
    <3>3. c.sr.nodes # <<>> => c.head <= Len(c.sr.nodes)
      BY <1>3, <2>1
    <3> QED BY <1>4, <3>1, <3>2, <3>3 DEF GoodCall
  <2>3. Pending(c, i)
    BY <1>3 DEF Pending
  <2> QED BY <2>2, <2>3
<1>9. \A x \in S : InsertCall(x) \in S
  <2> SUFFICES ASSUME NEW x \in S PROVE InsertCall(x) \in S
    OBVIOUS
  <2>1. GoodCall(InsertCall(x), r, L)
    BY <1>7, InsertCallGood
  <2>2. Done(InsertCall(x), i) \/ Pending(InsertCall(x), i)
    BY <1>7, DoneStays, CallKeeps DEF Further
  <2> QED BY <1>1, <2>1, <2>2
<1>10. PICK g \in [0 .. n -> S] : InsertCalls(g, c, n)
  BY <1>1, <1>8, <1>9, InsertIterated
<1>11. \A k \in 0 .. n : GoodCall(g[k], r, L) /\ (Done(g[k], i) \/ Pending(g[k], i))
  <2> SUFFICES ASSUME NEW k \in 0 .. n
               PROVE  GoodCall(g[k], r, L) /\ (Done(g[k], i) \/ Pending(g[k], i))
    OBVIOUS
  <2>1. g[k] \in S
    OBVIOUS
  <2> QED BY <1>7, <2>1
<1> DEFINE Far(k) == Len(g[k].sr.nodes) = N + k /\ g[k].head >= 2 * k + 1
           G == {k \in 0 .. n : Done(g[k], i) \/ Far(k)}
<1>12. \A k \in 0 .. n : k \in G
  <2>1. 0 \in G
    BY <1>2, <1>3, <1>10 DEF InsertCalls
  <2>2. ASSUME NEW k \in 0 .. n - 1, k \in G PROVE k + 1 \in G
    <3>1. k \in 0 .. n /\ k + 1 \in 0 .. n /\ g[k + 1] = InsertCall(g[k])
      BY <1>10 DEF InsertCalls
    <3>2. CASE Done(g[k], i)
      <4>1. Done(g[k + 1], i)
        BY <1>11, <3>1, <3>2, DoneStays
      <4> QED BY <3>1, <4>1
    <3>3. CASE ~ Done(g[k], i)
      <4>1. PICK a, b : a = g[k] /\ b = g[k + 1]
        OBVIOUS
      <4>2. GoodCall(a, r, L) /\ Pending(a, i) /\ b = InsertCall(a)
        BY <1>11, <3>1, <3>3, <4>1
      <4>3. Done(b, i) \/ Further(b, a, i)
        BY <4>2, CallKeeps
      <4>4. Far(k)
        BY <2>2, <3>3
      <4>5. CASE Done(b, i)
        BY <3>1, <4>1, <4>5
      <4>6. CASE Further(b, a, i)
        <5>1. Len(b.sr.nodes) = N + (k + 1)
          <6>1. Len(b.sr.nodes) = Len(a.sr.nodes) + 1
            BY <4>6 DEF Further
          <6>2. Len(a.sr.nodes) = N + k /\ (N + k) + 1 = N + (k + 1)
            BY <4>1, <4>4
          <6> QED BY <6>1, <6>2
        <5>2. b.head >= 2 * (k + 1) + 1
          <6>1. GoodCall(b, r, L)
            BY <1>11, <3>1, <4>1
          <6>2. a.head \in Nat /\ b.head \in Nat
            BY <4>2, <6>1 DEF GoodCall
          <6>3. a.head >= 2 * k + 1 /\ b.head >= a.head + 2
            BY <4>1, <4>4, <4>6 DEF Further
          <6> QED BY <6>2, <6>3
        <5> QED BY <3>1, <4>1, <5>1, <5>2
      <4> QED BY <4>3, <4>5, <4>6
    <3> QED BY <3>2, <3>3
  <2> HIDE DEF G
  <2> QED BY <2>1, <2>2, InductionUpTo
<1>13. Done(g[n], i)
  <2> SUFFICES ASSUME ~ Done(g[n], i) PROVE FALSE
    OBVIOUS
  <2>1. n \in 0 .. n
    OBVIOUS
  <2>2. PICK a : a = g[n]
    OBVIOUS
  <2>3. GoodCall(a, r, L) /\ Pending(a, i) /\ Len(a.sr.nodes) = N + n /\ a.head >= 2 * n + 1
    BY <1>11, <1>12, <2>1, <2>2
  <2>4. a.head \in Nat /\ Len(a.data) = 1 /\ a.sr.nodes \in Seq(NodeType)
    BY <2>3 DEF GoodCall, Pending, GoodReassembler, GoodList
  <2>5. a.sr.nodes # <<>>
    <3>1. N + n # 0
      BY <1>5
    <3> QED BY <2>3, <2>4, <3>1, EmptySeq
  <2>6. a.head <= N + n
    BY <2>3, <2>4, <2>5 DEF GoodCall
  <2> QED BY <1>5, <2>3, <2>4, <2>6
<1>14. InsertToLinklist(r, data, i, FALSE) = g[n].sr
  BY <1>6, <1>10 DEF InsertCalls
<1> QED BY <1>13, <1>14 DEF Done

\* push_substring() of one byte that the output has room for, or that lies in the
\* window while the list has room.
LEMMA PushKeeps ==
    ASSUME NEW L \in Nat, NEW r, GoodReassembler(r, L), r.remaincapacity > 0,
           NEW i \in Nat, r.output.writtensize <= i, i < r.output.readsize + r.capacity,
           i < L, NEW data, Bytes(data, i, 1)
    PROVE  Has(PushSubstring(r, data, i, FALSE), i)
<1>1. r.capacity \in Nat /\ GoodOutput(r.output, L, r.capacity)
  BY DEF GoodReassembler
<1>2. PICK W \in Nat, R \in Nat, C \in Nat :
          /\ W = r.output.writtensize /\ R = r.output.readsize /\ C = r.output.capacity
          /\ C = r.capacity - (W - R)
  <2>1. PICK o, c : o = r.output /\ c = r.capacity
    OBVIOUS
  <2>2. c \in Nat /\ GoodOutput(o, L, c)
    BY <1>1, <2>1
  <2>3. /\ o.writtensize \in Nat /\ o.readsize \in Nat /\ o.capacity \in Nat
        /\ o.capacity = c - (o.writtensize - o.readsize)
    BY <2>2, GoodOutputMembers
  <2> QED BY <2>1, <2>3
<1>3. Len(data) = 1
  BY DEF Bytes
<1>4. i + 1 <= L /\ i + 1 <= Edge(r.output, r.capacity)
  BY <1>1, <1>2 DEF Edge, MaxOf
<1>5. PICK z : /\ GoodReassembler(z, L) /\ Has(z, i)
               /\ PushSubstring(r, data, i, FALSE) = FetchValidData(z)
  <2>1. CASE i > W
    <3>1. PICK z : z = InsertToLinklist(r, data, i, FALSE)
      OBVIOUS
    <3>2. GoodData(data, i, FALSE, L, Edge(r.output, r.capacity))
      BY <1>3, <1>4 DEF GoodData
    <3>3. Relisted(z, r, L)
      BY <3>1, <3>2, InsertToLinklistGood
    <3>4. Holds(z.nodes, i)
      BY <1>3, <3>1, <3>2, InsertKeeps
    <3>5. PushSubstring(r, data, i, FALSE) = FetchValidData(z)
      <4>1. ~ (i <= r.output.writtensize) /\ i > r.output.writtensize
        BY <1>2, <2>1
      <4>2. PushSubstring(r, data, i, FALSE)
              = FetchValidData(InsertToLinklist(r, data, i, FALSE))
        BY <4>1 DEF PushSubstring, Then
      <4> QED BY <3>1, <4>2
    <3> QED BY <3>3, <3>4, <3>5 DEF Relisted, Has
  <2>2. CASE i = W
    <3>1. PICK rest : rest = Drop(data, W - i)
      OBVIOUS
    <3>2. Bytes(rest, W, 1)
      <4>1. W - i \in Nat /\ (W - i) + 1 = 1 /\ i + (W - i) = W
        BY <2>2
      <4>2. Bytes(rest, i + (W - i), 1)
        BY <3>1, <4>1, BytesDrop
      <4> QED BY <4>1, <4>2
    <3>3. PICK z : z = PushInOrder(r, rest, FALSE)
      OBVIOUS
    <3>4. PushSubstring(r, data, i, FALSE) = FetchValidData(z)
      <4>1. ~ (i > W) /\ i <= W /\ ReachesOutput(data, i, W)
        BY <1>3, <2>2 DEF ReachesOutput
      <4> QED BY <1>2, <3>1, <3>3, <4>1 DEF PushSubstring, Then
    <3>5. PICK m \in Nat, eof \in BOOLEAN : m = 1 /\ eof = FALSE
      OBVIOUS
    <3>6. /\ Bytes(rest, r.output.writtensize, m) /\ r.output.writtensize + m <= L
          /\ r.output.writtensize + m <= Edge(r.output, r.capacity)
          /\ z = PushInOrder(r, rest, eof)
      BY <1>2, <1>4, <2>2, <3>2, <3>3, <3>5
    <3>7. /\ GoodReassembler(z, L)
          /\ z.output.writtensize = r.output.writtensize + MinOf(m, r.output.capacity)
      BY <3>5, <3>6, PushInOrderGood
    <3>8. C >= 1
      BY <1>1, <1>2, <2>2
    <3>9. MinOf(1, C) = 1
      BY <3>8 DEF MinOf
    <3>10. i < z.output.writtensize
      <4>1. z.output.writtensize = W + 1
        BY <1>2, <3>5, <3>7, <3>9, Zenon
      <4> QED BY <2>2, <4>1
    <3> QED BY <3>4, <3>7, <3>10 DEF Has
  <2>3. i > W \/ i = W
    BY <1>2
  <2> QED BY <2>1, <2>2, <2>3
<1>6. Has(FetchValidData(z), i)
  BY <1>5, FetchKeeps
<1> QED BY <1>5, <1>6

\* Every byte inside the advertised window is written or stored when it arrives
\* alone, whatever the list looks like by then, empty nodes included, unless the
\* list has no room left: neither the test against the capacity nor the walk
\* along the list drops it.
THEOREM WindowIsKept ==
    ASSUME ~ Overrun PROVE Spec => []InWindowKept
<1>1. IndInv => InWindowKept
  <2> SUFFICES ASSUME IndInv, HasAckno(rcv),
                      NEW i \in out.writtensize .. out.readsize + Capacity - 1, i < StreamLen,
                      rcv.reassembler.remaincapacity # 0
               PROVE  Has(ReceiverSegmentReceived(
                            rcv, SegmentOf(i, i + 1, FALSE, FALSE)).reassembler, i)
    BY DEF InWindowKept, Has, Holds
  <2>1. PICK W \in Nat, R \in Nat : W = out.writtensize /\ R = out.readsize /\ R <= W
    BY Output
  <2>2. i \in Nat /\ W <= i /\ i < R + Capacity /\ i + 1 \in Nat /\ i <= i + 1
    BY <2>1, Widths
  <2>3. PICK seg : seg = SegmentOf(i, i + 1, FALSE, FALSE)
    OBVIOUS
  <2>4. seg.syn = FALSE /\ seg.fin = FALSE /\ seg.payload = Excerpt(i, i + 1)
    BY <2>3 DEF SegmentOf, NewSegment
  <2>5. rcv.set_isn = TRUE /\ rcv.isn = peerIsn
    BY DEF HasAckno, IndInv
  <2>6. unwrap(PayloadSeqno(seg), rcv.isn, out.writtensize) = i + 1
    <3>1. i + MaxLag >= out.writtensize
      BY <2>1, <2>2, Widths
    <3>2. i + 1 <= MaxOf(out.readsize + Capacity, out.writtensize + 1)
      BY <2>1, <2>2, Widths DEF MaxOf
    <3>3. PICK hi \in Nat, syn \in BOOLEAN, fin \in BOOLEAN :
              hi = i + 1 /\ syn = FALSE /\ fin = FALSE
      BY <2>2
    <3>4. unwrap(PayloadSeqno(seg), peerIsn, out.writtensize) = i + 1
      <4>1. i <= hi /\ (syn => i = 0) /\ seg = SegmentOf(i, hi, syn, fin)
            /\ hi <= MaxOf(out.readsize + Capacity, out.writtensize + 1)
        BY <2>2, <2>3, <3>2, <3>3
      <4> QED BY <2>2, <3>1, <4>1, IndexFound
    <3> QED BY <2>5, <3>4
  <2>7. ~ Refused(rcv, i + 1) /\ StreamIndex(i + 1) = i
    <3>1. rcv.capacity = Capacity
      BY DEF IndInv
    <3>2. StreamOut(rcv).writtensize = W
      BY <2>1 DEF out
    <3>3. i + 1 # 0 /\ ~ (i + 1 - W > Capacity)
      BY <2>1, <2>2, Widths
    <3> QED BY <2>2, <3>1, <3>2, <3>3 DEF Refused, StreamIndex
  <2>8. PICK isn, set, abs : /\ isn = rcv.isn /\ set = (rcv.set_isn \/ seg.syn) /\ set
                             /\ abs = i + 1
    BY <2>5
  <2>9. ReceiverSegmentReceived(rcv, seg) = Received(seg, isn, set, abs)
    <3>1. isn = IF seg.syn THEN seg.seqno ELSE rcv.isn
      BY <2>4, <2>8
    <3>2. abs = unwrap(PayloadSeqno(seg), isn, out.writtensize)
      BY <2>6, <2>8
    <3> QED BY <2>8, <3>1, <3>2, SegmentReceived
  <2>10. PICK r : r = rcv.reassembler
    OBVIOUS
  <2>11. ReceiverSegmentReceived(rcv, seg).reassembler
           = PushSubstring(r, Excerpt(i, i + 1), i, FALSE)
    <3>1. ~ (~ set \/ Refused(rcv, abs)) /\ StreamIndex(abs) = i
      BY <2>7, <2>8
    <3>2. Received(seg, isn, set, abs).reassembler
            = IF ~ set \/ Refused(rcv, abs)
                THEN r ELSE PushSubstring(r, seg.payload, StreamIndex(abs), seg.fin)
      BY <2>10 DEF Received
    <3>3. Received(seg, isn, set, abs).reassembler = PushSubstring(r, seg.payload, i, seg.fin)
      BY <3>1, <3>2
    <3> QED BY <2>4, <2>9, <3>3
  <2>12. PICK data : data = Excerpt(i, i + 1) /\ Bytes(data, i, 1)
    <3>1. PICK n \in Nat : n = 1
      OBVIOUS
    <3> QED BY <2>2, <3>1, BytesOfExcerpt
  <2>13. /\ GoodReassembler(r, StreamLen) /\ r.remaincapacity > 0
         /\ r.output.writtensize <= i /\ i < r.output.readsize + r.capacity
    <3>1. GoodReassembler(r, StreamLen) /\ r.capacity = Capacity /\ r.output = out
      BY <2>10 DEF IndInv, out, StreamOut
    <3>2. r.remaincapacity \in Nat
      BY <3>1 DEF GoodReassembler
    <3> QED BY <2>1, <2>2, <2>10, <3>1, <3>2
  <2>14. Has(PushSubstring(r, data, i, FALSE), i)
    BY <2>2, <2>12, <2>13, Widths, PushKeeps
  <2> QED BY <2>3, <2>11, <2>12, <2>14
<1>2. Spec => []IndInv
  BY Invariance
<1> QED BY <1>1, <1>2, PTL
=============================================================================
