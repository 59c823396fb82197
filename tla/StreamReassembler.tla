-------------------------- MODULE StreamReassembler --------------------------
(***************************************************************************)
(* libsponge/stream_reassembler.{hh,cc}: puts the substrings of a stream,  *)
(* which arrive in any order and may overlap, back in order and writes     *)
(* them to a ByteStream.  Substrings that cannot be written yet wait in a  *)
(* list sorted by index.                                                   *)
(*                                                                         *)
(* The linked list is a sequence of nodes; `Node* &head' is a position in  *)
(* it.  A byte of the stream is modelled by its index in the stream, so    *)
(* that a byte in the wrong place shows.                                   *)
(***************************************************************************)
EXTENDS ByteStream, FiniteSetsExt

NodeType == [data : Seq(Nat), blockstart : Nat, blockend : Int, eof : BOOLEAN]

ReassemblerType ==
    [output : ByteStreamType(Nat), capacity : Nat, remaincapacity : Nat,
     nodes : Seq(NodeType)]

NewReassembler(cap) ==
    [output |-> NewByteStream(cap), capacity |-> cap, remaincapacity |-> cap,
     nodes |-> <<>>]

UnassembledBytes(sr) == sr.capacity - sr.remaincapacity

\* The bytes that the nodes hold, one by one and together.
Lengths(nodes) == [k \in DOMAIN nodes |-> Len(nodes[k].data)]
Stored(nodes) == SumTo(Lengths(nodes), Len(nodes))

Node(data, start, eof) ==
    [data |-> data, blockstart |-> start, blockend |-> start + Len(data) - 1,
     eof |-> eof]

Drop(s, n) == Substr(s, n, Len(s))

\* f applied n times to x: a loop or a tail recursion of at most n rounds.
Iterate(f(_), x, n) ==
    LET it[k \in 0 .. n] == IF k = 0 THEN x ELSE Then(it[k - 1], f)
    IN it[n]

-----------------------------------------------------------------------------
(* insert_to_linklist(data, index, head, eof).  A call is a record with its *)
(* arguments and the object; one call is InsertCall, which returns the      *)
(* arguments of the recursive call, or no data when there is none.          *)

\* Puts n bytes of the call's data, from offset on, after position p.
StoreAfter(c, p, offset, n, eof) ==
    [c.sr EXCEPT
        !.nodes = SubSeq(@, 1, p)
                    \o <<Node(Substr(c.data, offset, n), c.index + offset, eof)>>
                    \o SubSeq(@, p + 1, Len(@)),
        !.remaincapacity = @ - n]

Returned(c, sr) == [c EXCEPT !.sr = sr, !.data = <<>>]

Recurse(c, sr, used, head) ==
    [sr |-> sr, data |-> Drop(c.data, used), index |-> c.index + used, head |-> head,
     eof |-> c.eof]

\* Mutant: eof is kept although the data is not stored to its end.
KeptEofAlways(c, offset, n) == c.eof

\* eof stays with the node that holds the end of the data.
KeptEof(c, offset, n) == c.eof /\ n + offset = Len(c.data)

\* The empty list, and behind the last node: the only places that keep eof.
AppendLast(c, p, offset, n) ==
    Returned(c, StoreAfter(c, p, offset, n, KeptEof(c, offset, n)))

\* The position at which the walk of lines 149-169 stops.
WalkEnd(c, ws) ==
    LET nodes == c.sr.nodes
        Skips(k) == /\ c.index + ws - 1 > nodes[k].blockend
                    /\ k < Len(nodes)
                    /\ \/ nodes[k + 1].blockstart = nodes[k].blockend + 1
                       \/ c.index > nodes[k + 1].blockstart
    IN Min({k \in c.head .. Len(nodes) : ~ Skips(k)})

\* Mutant: the gap is measured from the end of the previous node even when the
\* data begins later (the error that the comment at line 184 reports).
GapFromPrevious(c, p) ==
    c.sr.nodes[p + 1].blockstart - c.sr.nodes[p].blockend - 1

\* The bytes missing between the data's place and the next node.
Gap(c, p) ==
    c.sr.nodes[p + 1].blockstart - MaxOf(c.index - 1, c.sr.nodes[p].blockend) - 1

\* Data that begins at or behind the head: skip what is stored, fill the gap
\* before the next node, and go on behind it.
InsertWalk(c, ws) ==
    LET p      == WalkEnd(c, ws)
        end    == c.sr.nodes[p].blockend
        offset == IF c.index > end THEN 0 ELSE end + 1 - c.index
        room   == MinOf(ws, Len(c.data) - offset)
        n      == MinOf(room, Gap(c, p))
    IN CASE c.index + ws - 1 <= end -> Returned(c, c.sr)
         [] c.index + ws - 1 > end /\ p = Len(c.sr.nodes) -> AppendLast(c, p, offset, room)
         [] OTHER -> Recurse(c, StoreAfter(c, p, offset, n, FALSE), offset + n, p + 2)

StoreSize(c) == MinOf(Len(c.data), c.sr.remaincapacity)

InsertCall(c) ==
    LET nodes == c.sr.nodes
        ws    == StoreSize(c)
    IN CASE ws = 0 -> Returned(c, c.sr)
         [] ws > 0 /\ nodes = <<>> -> AppendLast(c, 0, 0, ws)
         [] ws > 0 /\ nodes # <<>> /\ c.index < nodes[1].blockstart ->
              LET n == MinOf(ws, nodes[1].blockstart - c.index)
              IN Recurse(c, StoreAfter(c, 0, 0, n, FALSE), n, 2)
         [] OTHER -> InsertWalk(c, ws)

\* Every recursive call starts behind the node stored by the one before it.
InsertToLinklist(sr, data, index, eof) ==
    Iterate(InsertCall,
            [sr |-> sr, data |-> data, index |-> index, head |-> 1, eof |-> eof],
            Len(sr.nodes) + 2).sr

-----------------------------------------------------------------------------
(* fetch_valid_data(): one round of the loop; the object is left alone once *)
(* the loop has ended.  The early return of line 246 leaves no room in the  *)
(* output, which is what ends the loop.                                     *)

EndIf(out, eof) == IF eof THEN EndInput(out) ELSE out

PopHead(sr) ==
    [sr EXCEPT !.nodes = Tail(@), !.remaincapacity = @ + Len(sr.nodes[1].data)]

\* The bytes of the head that the output lacks.
Rest(head, W) == Drop(head.data, W - head.blockstart)

\* Lines 239-247: the rest does not fit.  Line 242 asks for the room again,
\* which is none after the write, so the node keeps the bytes just written.
FetchPart(sr, rest) ==
    LET n    == sr.output.capacity
        out  == Write(sr.output, Substr(rest, 0, n))
        used == sr.output.writtensize - sr.nodes[1].blockstart + n
    IN [sr EXCEPT !.output = out,
                  !.nodes[1].data = Drop(rest, out.capacity),
                  !.nodes[1].blockstart = @ + used,
                  !.remaincapacity = @ + used]

\* Lines 248-256: it does.
FetchWhole(sr, rest) ==
    [PopHead(sr) EXCEPT !.output = EndIf(Write(@, rest), sr.nodes[1].eof)]

LoopEnds(sr) ==
    \/ sr.nodes = <<>>
    \/ sr.output.capacity = 0
    \/ sr.nodes[1].blockstart > sr.output.writtensize

FetchRound(sr) ==
    LET W    == sr.output.writtensize
        head == sr.nodes[1]
        rest == Rest(head, W)
    IN CASE LoopEnds(sr) -> sr
         [] ~ LoopEnds(sr) /\ head.blockend < W -> PopHead(sr)
         [] OTHER -> IF Len(rest) > sr.output.capacity
                       THEN FetchPart(sr, rest)
                       ELSE FetchWhole(sr, rest)

\* Mutant: an `if' in place of the `while'.
FetchOnce(sr) == FetchRound(sr)

FetchValidData(sr) == Iterate(FetchRound, sr, Len(sr.nodes))

-----------------------------------------------------------------------------
(* push_substring(data, index, eof). *)

\* Lines 46-49: eof counts once the substring is written to its end.
EndsOutput(rest, ws, eof) == eof /\ ws >= Len(rest)

\* Lines 43-58: write what there is room for and store the rest.
PushInOrder(sr, rest, eof) ==
    LET W   == sr.output.writtensize
        ws  == MinOf(Len(rest), sr.output.capacity)
        out == EndIf(Write(sr.output, Substr(rest, 0, ws)), EndsOutput(rest, ws, eof))
    IN InsertToLinklist([sr EXCEPT !.output = out], Drop(rest, ws), W + ws, eof)

\* Mutant: `>' for `>=' in line 37.
ReachesOutputStrict(data, index, W) == index + Len(data) > W

ReachesOutput(data, index, W) == index + Len(data) >= W

PushSubstring(sr, data, index, eof) ==
    LET W == sr.output.writtensize
    IN CASE index > W -> Then(InsertToLinklist(sr, data, index, eof), FetchValidData)
         [] index <= W /\ ReachesOutput(data, index, W) ->
              Then(PushInOrder(sr, Drop(data, W - index), eof), FetchValidData)
         [] OTHER -> sr
=============================================================================
