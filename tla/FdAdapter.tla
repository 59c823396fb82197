----------------------------- MODULE FdAdapter -----------------------------
(***************************************************************************)
(* libsponge/tcp_helpers: the adapters between a TCPConnection and what    *)
(* carries its segments, a UDP socket (fd_adapter.{hh,cc}) or a TUN device *)
(* (tcp_over_ip.{hh,cc}, tuntap_adapter.hh).  The adapter of a TAP device  *)
(* is left out: its NetworkInterface is a skeleton that sends nothing.     *)
(***************************************************************************)
EXTENDS Headers

\* An Address, the number in network order as in Address::ipv4_numeric.
At(ip, port) == [ip |-> ip, port |-> port]

AnyAddress == At(<<0, 0>>, 0)

\* An FdAdapterBase is [source, destination, listening]: FdAdapterConfig and _listen.

\* The fields of a segment that the TCPConnection sees.
Segment(header, payload) ==
    [seqno |-> header.seqno, ackno |-> header.ackno, win |-> header.win, ack |-> header.ack,
     rst |-> header.rst, syn |-> header.syn, fin |-> header.fin, payload |-> payload]

\* What a read() returns, a segment or none, and the adapter it leaves behind.
Accept(a, parsed) ==
    [adapter |-> a, segment |-> {Segment(parsed.header, parsed.payload)}]
Refuse(a) == [adapter |-> a, segment |-> {}]

\* write() sets the ports; the other fields are those of a new TCPHeader.
HeaderOut(a, seg) ==
    [sport |-> a.source.port, dport |-> a.destination.port, seqno |-> seg.seqno,
     ackno |-> seg.ackno, doff |-> 5, urg |-> FALSE, ack |-> seg.ack, psh |-> FALSE,
     rst |-> seg.rst, syn |-> seg.syn, fin |-> seg.fin, win |-> seg.win, cksum |-> 0,
     uptr |-> 0]

\* A listening adapter takes the sender of the first such segment for its peer.
Opens(h) == h.syn /\ ~ h.rst

-----------------------------------------------------------------------------
\* TCPOverUDPSocketAdapter; `from' is the address recv() reports.
ReadUDP(a, from, bytes) ==
    LET in == ParseTCPSegment(bytes, 0)
    IN IF (~ a.listening /\ from # a.destination) \/ in.result # "NoError"
         THEN Refuse(a)
       ELSE IF ~ a.listening
         THEN Accept(a, in)
       ELSE IF Opens(in.header)
         THEN Accept([a EXCEPT !.destination = from, !.listening = FALSE], in)
       ELSE Refuse(a)

WriteUDP(a, seg) == Gathered(SerializeTCPSegment(HeaderOut(a, seg), seg.payload, 0))

-----------------------------------------------------------------------------
\* Mutant: the addresses of a datagram are not compared with the connection's.
OfConnectionNever(a, h) == TRUE

\* The datagram goes to this adapter's address and comes from its peer's.
OfConnection(a, h) == h.dst = a.source.ip /\ h.src = a.destination.ip

\* TCPOverIPv4Adapter::unwrap_tcp_in_ip.
UnwrapTcpInIp(a, dgram) ==
    LET ip == dgram.header
        in == ParseTCPSegment(AsBuffer(dgram.payload), PseudoCksum(ip))
        bound == [source |-> At(ip.dst, a.source.port),
                  destination |-> At(ip.src, in.header.sport),
                  listening |-> FALSE]
    IN IF \/ ~ a.listening /\ ~ OfConnection(a, ip)
          \/ ip.proto # ProtoTCP
          \/ in.result # "NoError"
          \/ in.header.dport # a.source.port
         THEN Refuse(a)
       ELSE IF a.listening
         THEN IF Opens(in.header) THEN Accept(bound, in) ELSE Refuse(a)
       ELSE IF in.header.sport # a.destination.port
         THEN Refuse(a)
       ELSE Accept(a, in)

WrapTcpInIp(a, seg) ==
    LET ip == [NewIPv4Header EXCEPT
                 !.src = a.source.ip, !.dst = a.destination.ip,
                 !.len = (IPv4HeaderLength + TCPHeaderLength + Len(seg.payload)) % 65536]
    IN [header |-> ip,
        payload |-> SerializeTCPSegment(HeaderOut(a, seg), seg.payload, PseudoCksum(ip))]

\* TCPOverIPv4OverTunFdAdapter.
ReadTUN(a, bytes) ==
    LET in == ParseIPv4Datagram(bytes)
    IN IF in.result # "NoError" THEN Refuse(a) ELSE UnwrapTcpInIp(a, in)

WriteTUN(a, seg) ==
    LET out == WrapTcpInIp(a, seg) IN Gathered(SerializeIPv4Datagram(out.header, out.payload))
=============================================================================
