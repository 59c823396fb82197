-------------------------- MODULE ByteStreamProofs --------------------------
(***************************************************************************)
(* For every capacity, alphabet, set of strings and set of read lengths,   *)
(* the stream's accounting is consistent and the reader gets the accepted  *)
(* bytes in order.                                                         *)
(***************************************************************************)
EXTENDS ByteStreamSpec, StreamLemmas

\* Concatenation of byte strings is associative.
LEMMA ConcatAssoc ==
    \A a, b, c \in Seq(Byte) : (a \o b) \o c = a \o (b \o c)
BY ConcatAssociative

\* The inductive invariant.  InOrderDelivery and EofMeansAllRead alone are not
\* inductive: a read needs the deque's length to agree with the counters.
IndInv == TypeOK /\ Accounting /\ InOrderDelivery

LEMMA InitInv == Init => IndInv
<1> SUFFICES ASSUME Init PROVE IndInv
  OBVIOUS
<1>1. TypeOK
  BY CapacityAssumption, EmptySeq DEF Init, TypeOK, ByteStreamType, NewByteStream
<1>2. Accounting
  BY CapacityAssumption DEF Init, Accounting, NewByteStream, BufferEmpty, BufferSize
<1>3. InOrderDelivery
  BY ConcatEmptySeq, EmptySeq DEF Init, InOrderDelivery, NewByteStream
<1> QED BY <1>1, <1>2, <1>3 DEF IndInv

\* write() keeps the invariant.
LEMMA WriteInv ==
    ASSUME IndInv, NEW data \in Strings, DoWrite(data) PROVE IndInv'
<1>1. data \in Seq(Byte) /\ bs \in ByteStreamType(Byte)
  BY StringsAssumption DEF IndInv, TypeOK
<1>2. bs.que \in Seq(Byte) /\ log \in Seq(Byte) /\ got \in Seq(Byte)
  BY <1>1 DEF IndInv, TypeOK, ByteStreamType
<1>3. PICK n \in Nat : n = WriteSize(bs, data)
  BY <1>1 DEF ByteStreamType, WriteSize, MinOf
<1>0. n <= bs.capacity /\ n <= Len(data)
  BY <1>1, <1>3 DEF ByteStreamType, WriteSize, MinOf
<1>4. PICK s \in Seq(Byte) : s = Substr(data, 0, n) /\ Len(s) = n
  <2>1. 0 \in 0 .. Len(data)
    BY <1>1
  <2>2. /\ Substr(data, 0, n) \in Seq(Byte)
        /\ Len(Substr(data, 0, n)) = MinOf(n, Len(data) - 0)
    BY <1>1, <2>1, SubstrType
  <2>3. MinOf(n, Len(data) - 0) = n
    BY <1>1, <1>0 DEF MinOf
  <2> QED BY <2>2, <2>3
<1>5. /\ bs' = [bs EXCEPT !.que = bs.que \o s, !.capacity = bs.capacity - n,
                          !.writtensize = bs.writtensize + n]
      /\ log' = log \o s
      /\ got' = got
  BY <1>3, <1>4 DEF DoWrite, Write
<1>6. /\ bs.que \o s \in Seq(Byte)
      /\ Len(bs.que \o s) = Len(bs.que) + n
      /\ log \o s \in Seq(Byte)
  <2>1. /\ bs.que \o s \in Seq(Byte)
        /\ Len(bs.que \o s) = Len(bs.que) + Len(s)
        /\ log \o s \in Seq(Byte)
    BY <1>2, ConcatProperties
  <2> QED BY <1>4, <2>1
<1>7. /\ bs'.que = bs.que \o s
      /\ bs'.capacity = bs.capacity - n
      /\ bs'.maximumcapacity = bs.maximumcapacity
      /\ bs'.writtensize = bs.writtensize + n
      /\ bs'.readsize = bs.readsize
  BY <1>1, <1>5 DEF ByteStreamType
<1>8. TypeOK'
  <2>1. bs' \in ByteStreamType(Byte)
    <3>1. bs.capacity - n \in Nat /\ bs.writtensize + n \in Nat
      BY <1>1, <1>0 DEF ByteStreamType
    <3> QED BY <1>1, <1>5, <1>6, <3>1, Zenon DEF ByteStreamType
  <2> QED BY <1>2, <1>5, <1>6, <2>1 DEF TypeOK
<1>9. Accounting'
  <2>1. /\ bs.capacity \in Nat /\ bs.readsize \in Nat /\ bs.writtensize \in Nat
        /\ Len(bs.que) \in Nat
    BY <1>1, <1>2 DEF ByteStreamType
  <2>2. /\ bs.maximumcapacity = Capacity
        /\ bs.capacity + Len(bs.que) = Capacity
        /\ bs.writtensize = bs.readsize + Len(bs.que)
    BY DEF IndInv, Accounting
  <2>3. /\ bs'.maximumcapacity = Capacity
        /\ bs'.capacity + Len(bs'.que) = Capacity
        /\ bs'.writtensize = bs'.readsize + Len(bs'.que)
        /\ bs'.capacity = bs'.maximumcapacity <=> Len(bs'.que) = 0
    <3>1. Len(bs'.que) = Len(bs.que) + n
      BY <1>6, <1>7
    <3>2. /\ bs'.capacity = bs.capacity - n
          /\ bs'.maximumcapacity = bs.maximumcapacity
          /\ bs'.writtensize = bs.writtensize + n
          /\ bs'.readsize = bs.readsize
      BY <1>7
    <3>3. bs'.maximumcapacity = Capacity
      BY <3>2, <2>2
    <3>4. bs'.capacity + Len(bs'.que) = Capacity
      BY <1>0, <3>1, <3>2, <2>1, <2>2
    <3>5. bs'.writtensize = bs'.readsize + Len(bs'.que)
      BY <3>1, <3>2, <2>1, <2>2
    <3>6. bs'.capacity \in Nat /\ Len(bs'.que) \in Nat
      BY <1>0, <3>1, <3>2, <2>1, SMTT(20)
    <3> QED BY <3>3, <3>4, <3>5, <3>6, CapacityAssumption
  <2> QED BY <2>3 DEF Accounting, BufferEmpty, BufferSize
<1>10. InOrderDelivery'
  <2>1. (got \o bs.que) \o s = got \o (bs.que \o s)
    BY <1>2, ConcatAssoc
  <2> QED BY <1>5, <1>7, <2>1 DEF IndInv, InOrderDelivery
<1> QED BY <1>8, <1>9, <1>10 DEF IndInv

\* read(), that is peek_output() followed by pop_output(), keeps the invariant.
LEMMA ReadInv ==
    ASSUME IndInv, NEW len \in Lens, DoRead(len) PROVE IndInv'
<1>1. len \in Nat /\ bs \in ByteStreamType(Byte)
  BY LensAssumption DEF IndInv, TypeOK
<1>2. bs.que \in Seq(Byte) /\ log \in Seq(Byte) /\ got \in Seq(Byte)
  BY <1>1 DEF IndInv, TypeOK, ByteStreamType
<1>3. PICK n \in 0 .. Len(bs.que) : n = MinOf(len, Len(bs.que))
  BY <1>1, <1>2 DEF MinOf
<1>4. PICK front \in Seq(Byte) : front = Substr(bs.que, 0, n)
  <2>1. 0 \in 0 .. Len(bs.que) /\ n \in Nat
    BY <1>2
  <2> QED BY <1>2, <2>1, SubstrType
<1>5. PICK rest \in Seq(Byte) :
          rest = Substr(bs.que, n, Len(bs.que) - n) /\ Len(rest) = Len(bs.que) - n
  <2>1. Len(bs.que) - n \in Nat
    BY <1>2
  <2>2. /\ Substr(bs.que, n, Len(bs.que) - n) \in Seq(Byte)
        /\ Len(Substr(bs.que, n, Len(bs.que) - n)) = MinOf(Len(bs.que) - n, Len(bs.que) - n)
    BY <1>2, <2>1, SubstrType
  <2>3. MinOf(Len(bs.que) - n, Len(bs.que) - n) = Len(bs.que) - n
    BY DEF MinOf
  <2> QED BY <2>2, <2>3
<1>6. front \o rest = bs.que
  BY <1>2, <1>4, <1>5, SubstrSplit
<1>7. /\ bs' = [bs EXCEPT !.que = rest, !.capacity = bs.capacity + n,
                          !.readsize = bs.readsize + n]
      /\ got' = got \o front
      /\ log' = log
  <2>1. PeekOutput(bs, len) = front
    BY <1>3, <1>4 DEF PeekOutput
  <2> QED BY <1>3, <1>5, <2>1 DEF DoRead, Read, PopOutput
<1>8. /\ bs'.que = rest
      /\ bs'.capacity = bs.capacity + n
      /\ bs'.maximumcapacity = bs.maximumcapacity
      /\ bs'.writtensize = bs.writtensize
      /\ bs'.readsize = bs.readsize + n
  BY <1>1, <1>7 DEF ByteStreamType
<1>9. TypeOK'
  <2>1. bs' \in ByteStreamType(Byte)
    <3>1. bs.capacity + n \in Nat /\ bs.readsize + n \in Nat
      BY <1>1, <1>2 DEF ByteStreamType
    <3> QED BY <1>1, <1>7, <3>1, Zenon DEF ByteStreamType
  <2>2. got \o front \in Seq(Byte)
    BY <1>2, ConcatProperties
  <2> QED BY <1>2, <1>7, <2>1, <2>2 DEF TypeOK
<1>10. Accounting'
  <2>1. /\ bs.capacity \in Nat /\ bs.readsize \in Nat /\ bs.writtensize \in Nat
        /\ Len(bs.que) \in Nat
    BY <1>1, <1>2 DEF ByteStreamType
  <2>2. /\ bs.maximumcapacity = Capacity
        /\ bs.capacity + Len(bs.que) = Capacity
        /\ bs.writtensize = bs.readsize + Len(bs.que)
    BY DEF IndInv, Accounting
  <2>3. /\ bs'.maximumcapacity = Capacity
        /\ bs'.capacity + Len(bs'.que) = Capacity
        /\ bs'.writtensize = bs'.readsize + Len(bs'.que)
        /\ bs'.capacity = bs'.maximumcapacity <=> Len(bs'.que) = 0
    <3>1. Len(bs'.que) = Len(bs.que) - n
      BY <1>5, <1>8
    <3>2. bs'.maximumcapacity = Capacity
      BY <1>8, <2>2
    <3>3. bs'.capacity + Len(bs'.que) = Capacity
      BY <1>8, <2>1, <2>2, <3>1
    <3>4. bs'.writtensize = bs'.readsize + Len(bs'.que)
      BY <1>8, <2>1, <2>2, <3>1
    <3>5. bs'.capacity \in Nat /\ Len(bs'.que) \in Nat
      BY <1>8, <2>1, <3>1
    <3> QED BY <3>2, <3>3, <3>4, <3>5, CapacityAssumption
  <2> QED BY <2>3 DEF Accounting, BufferEmpty, BufferSize
<1>11. InOrderDelivery'
  <2>1. (got \o front) \o rest = got \o (front \o rest)
    BY <1>2, ConcatAssoc
  <2> QED BY <1>6, <1>7, <1>8, <2>1 DEF IndInv, InOrderDelivery
<1> QED BY <1>9, <1>10, <1>11 DEF IndInv

\* end_input() and set_error() touch neither the deque nor the counters.
LEMMA FlagInv ==
    ASSUME IndInv, DoEndInput \/ DoSetError PROVE IndInv'
<1> USE DEF IndInv
<1>1. bs \in ByteStreamType(Byte)
  BY DEF TypeOK
<1>2. /\ bs' \in ByteStreamType(Byte)
      /\ bs'.que = bs.que /\ bs'.capacity = bs.capacity
      /\ bs'.maximumcapacity = bs.maximumcapacity
      /\ bs'.writtensize = bs.writtensize /\ bs'.readsize = bs.readsize
      /\ log' = log /\ got' = got
  BY <1>1 DEF DoEndInput, DoSetError, EndInput, SetError, ByteStreamType
<1> QED BY <1>2 DEF TypeOK, Accounting, InOrderDelivery, BufferEmpty, BufferSize

\* The invariant holds in every reachable state of a ByteStream.
THEOREM IndInvHolds == Spec => []IndInv
<1>1. IndInv /\ [Next]_vars => IndInv'
  <2> SUFFICES ASSUME IndInv, [Next]_vars PROVE IndInv'
    OBVIOUS
  <2>1. CASE \E data \in Strings : DoWrite(data)
    BY <2>1, WriteInv
  <2>2. CASE \E len \in Lens : DoRead(len)
    BY <2>2, ReadInv
  <2>3. CASE DoEndInput \/ DoSetError
    BY <2>3, FlagInv
  <2>4. CASE UNCHANGED vars
    BY <2>4 DEF vars, IndInv, TypeOK, Accounting, InOrderDelivery, BufferEmpty, BufferSize
  <2> QED BY <2>1, <2>2, <2>3, <2>4 DEF Next
<1> QED BY InitInv, <1>1, PTL DEF Spec

\* The members of a ByteStream keep their types; in particular the unsigned
\* subtraction `_capacity -= _writesize' never wraps.
THEOREM TypeCorrect == Spec => []TypeOK
<1>1. IndInv => TypeOK
  BY DEF IndInv
<1> QED BY <1>1, IndInvHolds, PTL

\* remaining_capacity(), buffer_size(), bytes_written(), bytes_read() and
\* buffer_empty() always agree with one another.
THEOREM AccountingHolds == Spec => []Accounting
<1>1. IndInv => Accounting
  BY DEF IndInv
<1> QED BY <1>1, IndInvHolds, PTL

\* What read() has returned, followed by what is buffered, is what write() has
\* accepted: no byte is lost, duplicated or reordered.
THEOREM Delivery == Spec => []InOrderDelivery
<1>1. IndInv => InOrderDelivery
  BY DEF IndInv
<1> QED BY <1>1, IndInvHolds, PTL

\* eof() implies that the reader has got every accepted byte.
THEOREM EofSound == Spec => []EofMeansAllRead
<1>1. IndInv => EofMeansAllRead
  <2> SUFFICES ASSUME IndInv, Eof(bs) PROVE got = log
    BY DEF EofMeansAllRead
  <2>1. bs.que \in Seq(Byte) /\ got \in Seq(Byte) /\ Len(bs.que) = 0
    BY DEF IndInv, TypeOK, ByteStreamType, Accounting, Eof
  <2>2. bs.que = << >>
    BY <2>1, EmptySeq
  <2> QED BY <2>1, <2>2, ConcatEmptySeq DEF IndInv, InOrderDelivery
<1> QED BY <1>1, IndInvHolds, PTL
=============================================================================
