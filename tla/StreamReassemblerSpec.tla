------------------------ MODULE StreamReassemblerSpec ------------------------
(***************************************************************************)
(* A StreamReassembler that is given substrings of one stream in any order *)
(* and any overlap, duplicates included, and an application that reads the *)
(* output.  A caller that respects the window pushes no byte beyond the    *)
(* window the receiver advertises (bytes_read + capacity), or the single   *)
(* byte of a zero-window probe.                                            *)
(***************************************************************************)
EXTENDS StreamReassembler

CONSTANTS StreamLen,   \* the length of the stream
          Capacity,    \* the constructor's argument
          MaxNodes     \* bound on the length of the list

ASSUME ReassemblerAssumption ==
    /\ StreamLen \in Nat
    /\ Capacity \in Nat /\ Capacity > 0
    /\ MaxNodes \in Nat

VARIABLE sr

vars == sr

Written == sr.output.writtensize

\* One past the last byte the receiver has room for, as it tells its peer.
RightEdge == MaxOf(sr.output.readsize + Capacity, Written + 1)

Init == sr = NewReassembler(Capacity)

\* The substring [lo, hi) arrives; eof may be set on one that ends the stream.
DoPush(lo, hi, eof) ==
    /\ lo <= hi
    /\ eof => hi = StreamLen
    /\ hi <= RightEdge
    /\ sr' = PushSubstring(sr, Excerpt(lo, hi), lo, eof)
    /\ Len(sr'.nodes) <= MaxNodes

DoRead(len) == sr' = [sr EXCEPT !.output = Read(@, len)]

Push == \E lo, hi \in 0 .. StreamLen, eof \in BOOLEAN : DoPush(lo, hi, eof)

ReadSome == \E len \in 1 .. Capacity : DoRead(len)

Next == Push \/ ReadSome

Spec == Init /\ [][Next]_vars

\* The retransmission of the segment the receiver waits for: a sender repeats
\* it until it is acknowledged, and an application that is alive reads.
Retransmit ==
    \E hi \in Written .. StreamLen :
        /\ hi > Written \/ hi = StreamLen
        /\ DoPush(Written, hi, hi = StreamLen)

FairSpec == Spec /\ WF_vars(Retransmit) /\ WF_vars(ReadSome)

-----------------------------------------------------------------------------
TypeOK == sr \in ReassemblerType

\* What the application finds in the output is the stream: byte for byte, from
\* where it has read to, whatever the order, overlap and repetition of pushes; and
\* it ends only at the end of the stream, although the substring with eof may come
\* early, be cut at the window or be stored in part.
OutputIsStream ==
    /\ sr.output.que = Excerpt(sr.output.readsize, Written)
    /\ sr.output.end => Written = StreamLen

\* The list is sorted by index without overlap, every node holds the bytes its
\* bounds say, and the room that is left accounts for every stored byte.
ListWellFormed ==
    LET nodes == sr.nodes
    IN /\ \A k \in DOMAIN nodes :
             nodes[k].data = Excerpt(nodes[k].blockstart, nodes[k].blockend + 1)
       /\ \A k \in DOMAIN nodes \ {Len(nodes)} :
             nodes[k].blockend < nodes[k + 1].blockstart
       /\ sr.remaincapacity + Stored(nodes) = sr.capacity

\* "assembles any newly contiguous substrings" (stream_reassembler.cc:19): after
\* a push that writes something, no stored byte that could be written is left
\* behind; one with nothing new returns at line 41, before fetch_valid_data().
AssembledAfterPush ==
    [][ sr'.output.writtensize > Written =>
          \/ sr'.output.capacity = 0
          \/ sr'.nodes = <<>>
          \/ sr'.nodes[1].blockstart > sr'.output.writtensize ]_vars

\* With a peer that repeats what is not acknowledged and an application that
\* reads, the whole stream is delivered and ended, however the list was filled
\* before, and although an eof that falls on stored data is forgotten.
EventuallyEof == <>Eof(sr.output)

=============================================================================
