----------------------------- MODULE ByteStream -----------------------------
(***************************************************************************)
(* libsponge/byte_stream.{hh,cc}: the flow-controlled in-memory byte       *)
(* stream.  A ByteStream object is a record with the members of the class; *)
(* a mutating method is an operator from the object before the call to the *)
(* object after it, a const method an operator that returns its value.     *)
(* size_t is modelled by Nat: the counters count bytes that exist in       *)
(* memory or have crossed the stream, far below 2^64.                      *)
(***************************************************************************)
EXTENDS Integers, Sequences

\* std::min and std::max on the values the code passes to them.
MinOf(a, b) == IF a <= b THEN a ELSE b
MaxOf(a, b) == IF a >= b THEN a ELSE b

\* f(x): a statement f executed in the state x.  The singleton set makes TLC
\* evaluate x once.
Then(x, f(_)) == CHOOSE y \in {f(z) : z \in {x}} : TRUE

\* f[1] + ... + f[n]: what a loop over n elements adds up.
SumTo(f, n) ==
    LET sum[k \in 0 .. n] == IF k = 0 THEN 0 ELSE sum[k - 1] + f[k]
    IN sum[n]

\* A byte of a numbered stream is its number.  The bytes from lo up to hi - 1.
Excerpt(lo, hi) == [k \in 1 .. hi - lo |-> lo + k - 1]

\* std::string::substr(pos, n) with 0 <= pos <= Len(s).
Substr(s, pos, n) == SubSeq(s, pos + 1, pos + MinOf(n, Len(s) - pos))

\* The object type; que is the deque, capacity the room that is left.
ByteStreamType(Byte) ==
    [que : Seq(Byte), capacity : Nat, maximumcapacity : Nat,
     writtensize : Nat, readsize : Nat, error : BOOLEAN, end : BOOLEAN]

NewByteStream(cap) ==
    [que |-> <<>>, capacity |-> cap, maximumcapacity |-> cap,
     writtensize |-> 0, readsize |-> 0, error |-> FALSE, end |-> FALSE]

-----------------------------------------------------------------------------
(* Const methods. *)

BufferSize(bs)   == Len(bs.que)
BufferEmpty(bs)  == bs.capacity = bs.maximumcapacity
\* Mutant: eof() forgets the unread bytes.
EofWhenEnded(bs) == bs.end
Eof(bs)          == bs.end /\ bs.readsize = bs.writtensize
PeekOutput(bs, len) == Substr(bs.que, 0, MinOf(len, Len(bs.que)))

-----------------------------------------------------------------------------
(* Mutating methods. *)

\* write(data): accepts the prefix of data that fits.
WriteSize(bs, data) == MinOf(bs.capacity, Len(data))

\* Mutant: the size is not clamped to the room.
WriteUnclamped(bs, data) ==
    [bs EXCEPT !.que = @ \o data,
               !.capacity = @ - Len(data),
               !.writtensize = @ + Len(data)]

Write(bs, data) ==
    LET n == WriteSize(bs, data)
    IN [bs EXCEPT !.que = @ \o Substr(data, 0, n),
                  !.capacity = @ - n,
                  !.writtensize = @ + n]

\* Mutant: the requested length, not the popped one, is credited as read.
PopOutputOvercredit(bs, len) ==
    LET n == MinOf(len, Len(bs.que))
    IN [bs EXCEPT !.que = Substr(@, n, Len(@) - n),
                  !.capacity = @ + len,
                  !.readsize = @ + len]

\* Mutant: the bytes are popped at the end they were pushed.
PopOutputBack(bs, len) ==
    LET n == MinOf(len, Len(bs.que))
    IN [bs EXCEPT !.que = Substr(@, 0, Len(@) - n),
                  !.capacity = @ + n,
                  !.readsize = @ + n]

PopOutput(bs, len) ==
    LET n == MinOf(len, Len(bs.que))
    IN [bs EXCEPT !.que = Substr(@, n, Len(@) - n),
                  !.capacity = @ + n,
                  !.readsize = @ + n]

\* read(len): peek_output then pop_output; the operator is the object after
\* the call, PeekOutput of the object before it the returned string.
Read(bs, len) == PopOutput(bs, len)

EndInput(bs) == [bs EXCEPT !.end = TRUE]

SetError(bs) == [bs EXCEPT !.error = TRUE]
=============================================================================
