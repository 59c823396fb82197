------------------------------- MODULE Parser -------------------------------
(***************************************************************************)
(* libsponge/util/parser.{hh,cc} and the InternetChecksum of util.cc: what *)
(* the packet formats are read and written with.  A byte is a number below *)
(* 256; a 32-bit number is the pair of its 16-bit halves, since TLC counts *)
(* with 31 bits.                                                           *)
(***************************************************************************)
EXTENDS Buffers

Byte == 0 .. 255
Uint16 == 0 .. 65535
Halves == Uint16 \X Uint16

\* A NetParser: the bytes that are left, and the first error or "NoError".
NetParser(bytes) == [buffer |-> bytes, error |-> "NoError"]

Failed(p) == p.error # "NoError"

CheckSize(p, n) == IF n > Len(p.buffer) THEN [p EXCEPT !.error = "PacketTooShort"] ELSE p

\* NetParser::remove_prefix: nothing is removed once there is an error.
RemovePrefix(p, n) ==
    LET q == CheckSize(p, n)
    IN IF Failed(q) THEN q ELSE [q EXCEPT !.buffer = Discard(@, n)]

Zero(width) == IF width = 4 THEN <<0, 0>> ELSE 0

\* Mutant: the low byte first.
NumberReversed(bytes) ==
    CASE Len(bytes) = 1 -> bytes[1]
      [] Len(bytes) = 2 -> 256 * bytes[2] + bytes[1]
      [] OTHER -> <<256 * bytes[4] + bytes[3], 256 * bytes[2] + bytes[1]>>

\* A number of one, two or four bytes in network order.
Number(bytes) ==
    CASE Len(bytes) = 1 -> bytes[1]
      [] Len(bytes) = 2 -> 256 * bytes[1] + bytes[2]
      [] OTHER -> <<256 * bytes[1] + bytes[2], 256 * bytes[3] + bytes[4]>>

\* u8(), u16() and u32(), called one after the other for the given widths.  Each
\* returns 0 if the bytes do not suffice, and so do all that follow.
ParseInts(p, widths) ==
    LET ParseInt(acc, width) ==
            LET q == RemovePrefix(acc.parser, width)
                value == IF Failed(q) THEN Zero(width)
                                      ELSE Number(SubSeq(acc.parser.buffer, 1, width))
            IN [parser |-> q, values |-> Append(acc.values, value)]
    IN FoldLeft(ParseInt, [parser |-> p, values |-> <<>>], widths)

U8(n) == <<n % 256>>
U16(n) == <<(n \div 256) % 256, n % 256>>
U32(n) == U16(n[1]) \o U16(n[2])

\* The i-th bit, and the flags of a set of bits.
Bit(n, i) == (n \div 2 ^ i) % 2 = 1
Flag(b, i) == IF b THEN 2 ^ i ELSE 0

-----------------------------------------------------------------------------
(* InternetChecksum.  The 32-bit sum does not overflow below 65537 words.   *)

\* Bytes are the high and the low half of a word in turn.
WordPart(bytes, i) == IF i % 2 = 1 THEN 256 * bytes[i] ELSE bytes[i]

ChecksumAdd(sum, bytes) ==
    sum + MapThenSumSet(LAMBDA i : WordPart(bytes, i), DOMAIN bytes)

\* The carries are added in until the sum has 16 bits.
CarriesIn[sum \in Nat] ==
    IF sum > 65535 THEN CarriesIn[(sum \div 65536) + (sum % 65536)] ELSE sum

ChecksumValue(sum) == 65535 - CarriesIn[sum]
=============================================================================
