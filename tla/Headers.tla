------------------------------ MODULE Headers ------------------------------
(***************************************************************************)
(* The packet formats of libsponge/tcp_helpers: TCPHeader and TCPSegment,  *)
(* IPv4Header and IPv4Datagram.  A parser of a header gives the result,    *)
(* the header and the NetParser it leaves behind; the parsers of a segment *)
(* and of a datagram look at that NetParser only, never at the result.     *)
(* The payload of a segment is a Buffer, that of a datagram a BufferList.  *)
(* serialize() throws for a header of less than 5 words and for a datagram *)
(* whose length is not that of its header, which no adapter asks for.      *)
(***************************************************************************)
EXTENDS Parser

TCPHeaderLength == 20

TCPHeader(v) ==
    LET fl == v[6]
    IN [sport |-> v[1], dport |-> v[2], seqno |-> v[3], ackno |-> v[4],
        doff |-> v[5] \div 16, urg |-> Bit(fl, 5), ack |-> Bit(fl, 4), psh |-> Bit(fl, 3),
        rst |-> Bit(fl, 2), syn |-> Bit(fl, 1), fin |-> Bit(fl, 0),
        win |-> v[7], cksum |-> v[8], uptr |-> v[9]]

\* After the fields: the length is looked at and the options are skipped.
SkipTCPOptions(header, p) ==
    LET rest == RemovePrefix(p, 4 * header.doff - TCPHeaderLength)
    IN IF header.doff < 5
         THEN [result |-> "HeaderTooShort", header |-> header, parser |-> p]
         ELSE [result |-> rest.error, header |-> header, parser |-> rest]

ParseTCPHeader(p) ==
    LET in == ParseInts(p, <<2, 2, 4, 4, 1, 1, 2, 2, 2>>)
    IN SkipTCPOptions(TCPHeader(in.values), in.parser)

\* A header of doff words; what is beyond the fields is 0.
SerializeTCPHeader(h) ==
    LET fl == Flag(h.urg, 5) + Flag(h.ack, 4) + Flag(h.psh, 3)
              + Flag(h.rst, 2) + Flag(h.syn, 1) + Flag(h.fin, 0)
        fields == U16(h.sport) \o U16(h.dport) \o U32(h.seqno) \o U32(h.ackno)
                  \o U8(16 * h.doff) \o U8(fl) \o U16(h.win) \o U16(h.cksum) \o U16(h.uptr)
    IN fields \o [i \in 1 .. 4 * h.doff - TCPHeaderLength |-> 0]

\* Mutant: the checksum is not looked at.
ChecksumFailsNever(sum, bytes) == FALSE

ChecksumFails(sum, bytes) == ChecksumValue(ChecksumAdd(sum, bytes)) # 0

\* TCPSegment::parse; `pseudo' is the lower layer's part of the checksum.
ParseTCPSegment(bytes, pseudo) ==
    LET h == ParseTCPHeader(NetParser(bytes))
    IN IF ChecksumFails(pseudo, bytes)
         THEN [result |-> "BadChecksum"]
         ELSE [result |-> h.parser.error, header |-> h.header, payload |-> h.parser.buffer]

SerializeTCPSegment(header, payload, pseudo) ==
    LET blank == SerializeTCPHeader([header EXCEPT !.cksum = 0])
        cksum == ChecksumValue(ChecksumAdd(ChecksumAdd(pseudo, blank), payload))
    IN AppendBuffers(<<SerializeTCPHeader([header EXCEPT !.cksum = cksum])>>, <<payload>>)

-----------------------------------------------------------------------------
ProtoTCP == 6
IPv4HeaderLength == 20

NewIPv4Header ==
    [ver |-> 4, hlen |-> 5, tos |-> 0, len |-> 0, id |-> 0, df |-> TRUE, mf |-> FALSE,
     offset |-> 0, ttl |-> 128, proto |-> ProtoTCP, cksum |-> 0,
     src |-> <<0, 0>>, dst |-> <<0, 0>>]

IPv4Header(v) ==
    [ver |-> v[1] \div 16, hlen |-> v[1] % 16, tos |-> v[2], len |-> v[3],
     id |-> v[4], df |-> Bit(v[5], 14), mf |-> Bit(v[5], 13),
     offset |-> v[5] % 8192, ttl |-> v[6], proto |-> v[7], cksum |-> v[8],
     src |-> v[9], dst |-> v[10]]

\* What makes the parser of a header of a datagram of `size' bytes return early.
IPv4Refusal(h, size) ==
    IF size < 4 * h.hlen THEN "PacketTooShort"
    ELSE IF h.ver # 4 THEN "WrongIPVersion"
    ELSE IF h.hlen < 5 THEN "HeaderTooShort"
    ELSE IF size # h.len THEN "TruncatedPacket"
    ELSE "NoError"

\* After the fields, of which p is what they leave of the bytes.
FinishIPv4Header(h, p, bytes) ==
    LET refusal == IPv4Refusal(h, Len(bytes))
        bad == ChecksumFails(0, SubSeq(bytes, 1, 4 * h.hlen))
    IN IF refusal # "NoError"
         THEN [result |-> refusal, header |-> h, parser |-> p]
         ELSE [result |-> IF bad THEN "BadChecksum" ELSE "NoError",
               header |-> h, parser |-> RemovePrefix(p, 4 * h.hlen - IPv4HeaderLength)]

ParseIPv4Header(p) ==
    LET in == ParseInts(p, <<1, 1, 2, 2, 2, 1, 1, 2, 4, 4>>)
    IN IF Len(p.buffer) < IPv4HeaderLength
         THEN [result |-> "PacketTooShort", header |-> NewIPv4Header, parser |-> p]
         ELSE FinishIPv4Header(IPv4Header(in.values), in.parser, p.buffer)

SerializeIPv4Header(h) ==
    LET fo == Flag(h.df, 14) + Flag(h.mf, 13) + h.offset
        fields == U8(16 * h.ver + h.hlen) \o U8(h.tos) \o U16(h.len) \o U16(h.id) \o U16(fo)
                  \o U8(h.ttl) \o U8(h.proto) \o U16(h.cksum) \o U32(h.src) \o U32(h.dst)
    IN fields \o [i \in 1 .. 4 * h.hlen - IPv4HeaderLength |-> 0]

\* uint16_t: a length below that of the header wraps.
PayloadLength(h) == (h.len - 4 * h.hlen) % 65536

PseudoCksum(h) ==
    h.src[1] + h.src[2] + h.dst[1] + h.dst[2] + h.proto + PayloadLength(h)

ParseIPv4Datagram(bytes) ==
    LET h == ParseIPv4Header(NetParser(bytes))
        payload == <<h.parser.buffer>>
    IN IF BuffersSize(payload) # PayloadLength(h.header)
         THEN [result |-> "PacketTooShort"]
         ELSE [result |-> h.parser.error, header |-> h.header, payload |-> payload]

SerializeIPv4Datagram(header, payload) ==
    LET blank == SerializeIPv4Header([header EXCEPT !.cksum = 0])
        cksum == ChecksumValue(ChecksumAdd(0, blank))
    IN AppendBuffers(<<SerializeIPv4Header([header EXCEPT !.cksum = cksum])>>, payload)
=============================================================================
