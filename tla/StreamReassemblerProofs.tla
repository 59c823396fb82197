----------------------- MODULE StreamReassemblerProofs -----------------------
(***************************************************************************)
(* For every stream, capacity and bound on the list: whatever the order,   *)
(* overlap and repetition of the pushes, the output is the stream, the     *)
(* list stays sorted, disjoint and accounted for, and a push leaves no     *)
(* byte behind that could have been written.                               *)
(***************************************************************************)
EXTENDS StreamReassemblerSpec, StreamLemmas

\* The inductive invariant.  OutputIsStream and ListWellFormed alone are not
\* inductive: fetch_valid_data() writes a node as a whole only because no node
\* reaches beyond the right edge, and takes its eof to be the end of the stream.
IndInv == GoodReassembler(sr, StreamLen) /\ sr.capacity = Capacity

\* The constructor.
LEMMA InitInv == Init => IndInv
BY ReassemblerAssumption, NewReassemblerGood DEF Init, IndInv

\* push_substring().
LEMMA PushStep ==
    ASSUME IndInv, Push
    PROVE  Pushed(sr', sr, StreamLen)
<1> USE ReassemblerAssumption
<1>1. PICK lo \in 0 .. StreamLen, hi \in 0 .. StreamLen, eof \in BOOLEAN : DoPush(lo, hi, eof)
  BY DEF Push
<1>2. lo \in Nat /\ hi \in Nat /\ lo <= hi /\ hi <= StreamLen /\ (eof => hi = StreamLen)
      /\ hi <= RightEdge /\ sr' = PushSubstring(sr, Excerpt(lo, hi), lo, eof)
  BY <1>1 DEF DoPush
<1>3. PICK n \in Nat : hi = lo + n
  <2>1. hi - lo \in Nat /\ hi = lo + (hi - lo)
    BY <1>2
  <2> QED BY <2>1
<1>4. PICK data : data = Excerpt(lo, hi) /\ Bytes(data, lo, n)
  BY <1>2, <1>3, BytesOfExcerpt
<1>5. lo + n <= StreamLen /\ lo + n <= Edge(sr.output, sr.capacity) /\ (eof => lo + n = StreamLen)
  BY <1>2, <1>3 DEF RightEdge, Written, Edge, IndInv
<1>6. Pushed(PushSubstring(sr, data, lo, eof), sr, StreamLen)
  BY <1>2, <1>4, <1>5, PushSubstringGood DEF IndInv
<1> QED BY <1>2, <1>4, <1>6

\* The application reads.
LEMMA ReadStep ==
    ASSUME IndInv, ReadSome
    PROVE  /\ GoodReassembler(sr', StreamLen) /\ sr'.capacity = sr.capacity
           /\ sr'.output.writtensize = sr.output.writtensize
<1>1. PICK len \in Nat : sr' = ReadOutput(sr, len)
  BY ReassemblerAssumption DEF ReadSome, DoRead, ReadOutput
<1> QED BY <1>1, ReassemblerAssumption, ReassemblerRead DEF IndInv

\* Every step keeps the invariant.
LEMMA NextInv == IndInv /\ [Next]_vars => IndInv'
<1> SUFFICES ASSUME IndInv, [Next]_vars PROVE IndInv'
  OBVIOUS
<1>1. CASE Push
  <2>1. GoodReassembler(sr', StreamLen) /\ Advanced(sr', sr)
    BY <1>1, PushStep DEF Pushed
  <2> QED BY <2>1 DEF IndInv, Advanced
<1>2. CASE ReadSome
  BY <1>2, ReadStep DEF IndInv
<1>3. CASE UNCHANGED vars
  BY <1>3 DEF IndInv, vars
<1> QED BY <1>1, <1>2, <1>3 DEF Next

\* Always.
LEMMA Invariance == Spec => []IndInv
BY InitInv, NextInv, PTL DEF Spec

\* Every variable has its type.
THEOREM TypeCorrect == Spec => []TypeOK
<1>1. IndInv => TypeOK
  BY GoodReassemblerType DEF IndInv, TypeOK
<1> QED BY <1>1, Invariance, PTL

\* What the application finds in the output of the StreamReassembler is the
\* stream, byte for byte, and it ends only at the end of the stream.
THEOREM ReassemblerCorrect == Spec => []OutputIsStream
<1>1. IndInv => OutputIsStream
  <2> SUFFICES ASSUME IndInv PROVE OutputIsStream
    OBVIOUS
  <2> USE ReassemblerAssumption
  <2>1. GoodOutput(sr.output, StreamLen, Capacity)
    BY DEF IndInv, GoodReassembler
  <2>2. PICK R \in Nat, n \in Nat : R = sr.output.readsize /\ n = Len(sr.output.que)
    BY <2>1, GoodOutputMembers
  <2>3. Bytes(sr.output.que, R, n) /\ Written = R + n /\ (sr.output.end => Written = StreamLen)
    BY <2>1, <2>2 DEF GoodOutput, Written
  <2>4. sr.output.que = Excerpt(R, R + n)
    BY <2>3, ExcerptOfBytes
  <2> QED BY <2>2, <2>3, <2>4 DEF OutputIsStream
<1> QED BY <1>1, Invariance, PTL

\* The list of the StreamReassembler stays sorted and without overlap, its nodes
\* hold the bytes their bounds say, and _remaincapacity accounts for every one.
THEOREM ListCorrect == Spec => []ListWellFormed
<1>1. IndInv => ListWellFormed
  <2> SUFFICES ASSUME IndInv PROVE ListWellFormed
    OBVIOUS
  <2> DEFINE nodes == sr.nodes
             e == Edge(sr.output, sr.capacity)
  <2>1. GoodList(nodes, StreamLen, e) /\ sr.remaincapacity + Stored(nodes) = sr.capacity
    BY DEF IndInv, GoodReassembler
  <2> HIDE DEF nodes, e
  <2>2. DOMAIN nodes = 1 .. Len(nodes) /\ Len(nodes) \in Nat
    BY <2>1, LenProperties DEF GoodList
  <2>3. ASSUME NEW k \in DOMAIN nodes
        PROVE  nodes[k].data = Excerpt(nodes[k].blockstart, nodes[k].blockend + 1)
    <3>1. GoodNode(nodes[k], StreamLen, e)
      BY <2>1, <2>2 DEF GoodList
    <3>2. PICK b \in Nat, n \in Nat : b = nodes[k].blockstart /\ n = Len(nodes[k].data)
      BY <3>1, LenProperties DEF GoodNode, NodeType
    <3>3. Bytes(nodes[k].data, b, n) /\ nodes[k].blockend = b + n - 1
      BY <3>1, <3>2 DEF GoodNode
    <3>4. nodes[k].data = Excerpt(b, b + n)
      BY <3>3, ExcerptOfBytes
    <3>5. nodes[k].blockend + 1 = b + n
      BY <3>3
    <3> QED BY <3>2, <3>4, <3>5
  <2>4. ASSUME NEW k \in DOMAIN nodes \ {Len(nodes)}
        PROVE  nodes[k].blockend < nodes[k + 1].blockstart
    <3>1. k \in 1 .. Len(nodes) - 1
      BY <2>2
    <3> QED BY <2>1, <3>1 DEF GoodList
  <2> QED BY <2>1, <2>3, <2>4 DEF ListWellFormed, nodes
<1> QED BY <1>1, Invariance, PTL

\* After a push that wrote something, fetch_valid_data() has left no byte at the
\* front of the list that the output has room for.
THEOREM AssemblyComplete == Spec => AssembledAfterPush
<1> DEFINE A == sr'.output.writtensize > Written =>
                  \/ sr'.output.capacity = 0
                  \/ sr'.nodes = <<>>
                  \/ sr'.nodes[1].blockstart > sr'.output.writtensize
<1>1. IndInv /\ [Next]_vars => [A]_vars
  <2> SUFFICES ASSUME IndInv, Next PROVE A
    OBVIOUS
  <2>1. Written \in Nat
    <3>1. GoodOutput(sr.output, StreamLen, sr.capacity) /\ sr.capacity \in Nat
      BY DEF IndInv, GoodReassembler
    <3> QED BY <3>1, ReassemblerAssumption, GoodOutputMembers DEF Written
  <2>2. CASE Push
    <3>1. LoopEnds(sr') \/ sr' = sr
      BY <2>2, PushStep DEF Pushed
    <3>2. CASE LoopEnds(sr')
      BY <3>2 DEF LoopEnds
    <3>3. CASE sr' = sr
      BY <2>1, <3>3 DEF Written
    <3> QED BY <3>1, <3>2, <3>3
  <2>3. CASE ReadSome
    BY <2>1, <2>3, ReadStep DEF Written
  <2> QED BY <2>2, <2>3 DEF Next
<1> QED BY <1>1, Invariance, PTL DEF Spec, AssembledAfterPush
=============================================================================
