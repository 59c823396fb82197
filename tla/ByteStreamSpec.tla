--------------------------- MODULE ByteStreamSpec ---------------------------
(***************************************************************************)
(* One ByteStream with a writer on its input side and a reader on its      *)
(* output side, called in any order, as the callers in TCPConnection and   *)
(* TCPSpongeSocket do.  `log' and `got' are history variables: every byte  *)
(* write() accepted, and every byte read() or pop_output() took out.       *)
(***************************************************************************)
EXTENDS ByteStream

CONSTANTS Byte,       \* the bytes of the stream
          Strings,    \* the strings a caller may offer to write()
          Lens,       \* the lengths a caller may ask read() for
          Capacity,   \* the constructor's argument
          MaxWritten  \* bound: bytes written before the writer stops

ASSUME CapacityAssumption == Capacity \in Nat
ASSUME StringsAssumption == Strings \subseteq Seq(Byte)
ASSUME LensAssumption == Lens \subseteq Nat
ASSUME MaxWrittenAssumption == MaxWritten \in Nat

VARIABLES bs, log, got

vars == <<bs, log, got>>

Init == /\ bs = NewByteStream(Capacity)
        /\ log = <<>>
        /\ got = <<>>

\* A caller writes a string; strings longer than the room are offered too.
DoWrite(data) ==
    /\ bs.writtensize + Len(data) <= MaxWritten
    /\ bs' = Write(bs, data)
    /\ log' = log \o Substr(data, 0, WriteSize(bs, data))
    /\ UNCHANGED got

DoRead(len) ==
    /\ bs' = Read(bs, len)
    /\ got' = got \o PeekOutput(bs, len)
    /\ UNCHANGED log

DoEndInput == bs' = EndInput(bs) /\ UNCHANGED <<log, got>>

DoSetError == bs' = SetError(bs) /\ UNCHANGED <<log, got>>

Next == \/ \E data \in Strings : DoWrite(data)
        \/ \E len \in Lens : DoRead(len)
        \/ DoEndInput
        \/ DoSetError

Spec == Init /\ [][Next]_vars

-----------------------------------------------------------------------------
TypeOK == /\ bs \in ByteStreamType(Byte)
          /\ log \in Seq(Byte)
          /\ got \in Seq(Byte)

\* The room that write() sees, the deque and the two counters agree: the
\* stream never holds more than it was built for, buffer_size() is the
\* difference of bytes_written() and bytes_read(), and buffer_empty(), which
\* looks at the room, says what buffer_size(), which looks at the deque, says.
Accounting ==
    /\ bs.maximumcapacity = Capacity
    /\ bs.capacity + Len(bs.que) = Capacity
    /\ bs.writtensize = bs.readsize + Len(bs.que)
    /\ BufferEmpty(bs) <=> BufferSize(bs) = 0

\* The reader gets exactly the accepted bytes in the order they were written,
\* none lost, duplicated or reordered, whatever the interleaving and the sizes
\* of writes and reads.
InOrderDelivery == got \o bs.que = log

\* eof() is reported only when every accepted byte has been taken out.
EofMeansAllRead == Eof(bs) => got = log
=============================================================================
