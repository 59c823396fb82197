--------------------------- MODULE FdAdapterSpec ---------------------------
(***************************************************************************)
(* Three adapters on one network: a server that listens, a client that     *)
(* connects to it, and a stranger that connects to either, perhaps from    *)
(* the client's or the server's own machine.  Their segments travel as     *)
(* bytes, in UDP datagrams or, through TUN devices, in IPv4 datagrams, and *)
(* on the way a byte may be damaged or, outside UDP, the end be cut off.   *)
(* LossyFdAdapter drops what it likes on both sides.                       *)
(***************************************************************************)
EXTENDS FdAdapter

CONSTANTS Segments,   \* the segments that connections hand to write()
          Deltas,     \* what a damage may add to a byte, modulo 256
          MaxNet,     \* bound on the datagrams under way
          MaxDamage   \* bound on the damages

ASSUME AdapterAssumption ==
    /\ \A seg \in Segments : seg.seqno \in Halves /\ seg.ackno \in Halves
    /\ Deltas \subseteq 1 .. 255
    /\ MaxNet \in Nat /\ MaxDamage \in Nat

Host == {"server", "client", "stranger"}

\* Addresses in network order; the server's machine has two.
ServerIp == <<10, 1>>
OtherServerIp == <<10, 2>>
ClientIp == <<65535, 3>>
StrangerIp == <<10, 4>>

VARIABLES link,     \* "udp" or "tun", never changed
          place,    \* [Host -> [ips, port]], never changed
          adapter,  \* [Host -> AdapterType]
          net,      \* the datagrams under way
          damages,  \* how many damages there have been
          heard,    \* [Host -> set of hosts whose segments were handed over]
          outcome   \* what the read() of this step did, {} if it was none

vars == <<link, place, adapter, net, damages, heard, outcome>>

Port(h) == place[h].port
Ip(h) == CHOOSE ip \in place[h].ips : TRUE

\* The address of a UDP socket, which the kernel reports to the receiver.
Socket(h) == At(Ip(h), Port(h))

\* Where the programs run: no two with the same port on one machine.
Places ==
    {[server |-> [ips |-> serverIps, port |-> 80],
      client |-> [ips |-> {ClientIp}, port |-> 4001],
      stranger |-> [ips |-> {s.ip}, port |-> s.port]] :
        serverIps \in IF link = "udp" THEN {{ServerIp}} ELSE {{ServerIp, OtherServerIp}},
        s \in {At(ClientIp, 80), At(ServerIp, 4001), At(StrangerIp, 80), At(StrangerIp, 4001)}}

\* tcp_udp and tcp_ipv4 -l: any address and the port given.
Listener == [source |-> At(<<0, 0>>, Port("server")), destination |-> AnyAddress,
             listening |-> TRUE]

\* The clients; that of a UDP socket leaves its own address to the kernel.
Connector(h, to) ==
    [source |-> IF link = "udp" THEN AnyAddress ELSE Socket(h),
     destination |-> to, listening |-> FALSE]

Init ==
    /\ link \in {"udp", "tun"}
    /\ place \in Places
    /\ \E contacted \in place["server"].ips, victim \in {"server", "client"} :
         adapter = [server |-> Listener,
                    client |-> Connector("client", At(contacted, Port("server"))),
                    stranger |-> Connector("stranger", Socket(victim))]
    /\ net = {}
    /\ damages = 0
    /\ heard = [h \in Host |-> {}]
    /\ outcome = {}

\* Who may be given a datagram for this address: the UDP socket that has it, or
\* with TUN devices whoever reads one on that machine.
Reaches(h, address) ==
    IF link = "udp" THEN address = Socket(h) ELSE address.ip \in place[h].ips

\* LossyFdAdapter::write, unless it drops the segment, which changes nothing.
Write(h, seg) ==
    /\ ~ adapter[h].listening
    /\ Cardinality(net) < MaxNet
    /\ \E to \in Host \ {h} :
         /\ Reaches(to, adapter[h].destination)
         /\ net' = net \cup
              {[from |-> h, to |-> to, seg |-> seg, intact |-> TRUE,
                bytes |-> IF link = "udp" THEN WriteUDP(adapter[h], seg)
                                          ELSE WriteTUN(adapter[h], seg)]}
    /\ outcome' = {}
    /\ UNCHANGED <<link, place, adapter, damages, heard>>

Spoil(d, bytes) ==
    /\ damages < MaxDamage
    /\ damages' = damages + 1
    /\ net' = (net \ {d}) \cup {[d EXCEPT !.bytes = bytes, !.intact = FALSE]}
    /\ outcome' = {}
    /\ UNCHANGED <<link, place, adapter, heard>>

Damage(d, i, delta) == Spoil(d, [d.bytes EXCEPT ![i] = (@ + delta) % 256])

Cut(d, n) == link = "tun" /\ Spoil(d, SubSeq(d.bytes, 1, n))

\* LossyFdAdapter::read: a drop comes after the adapter's read(), which may have
\* found its peer.
Read(h, d, dropped) ==
    /\ d.to = h
    /\ \E r \in {IF link = "udp" THEN ReadUDP(adapter[h], Socket(d.from), d.bytes)
                                 ELSE ReadTUN(adapter[h], d.bytes)} :
         LET result == IF dropped THEN {} ELSE r.segment
         IN /\ adapter' = [adapter EXCEPT ![h] = r.adapter]
            /\ heard' = [heard EXCEPT ![h] = @ \cup IF result = {} THEN {} ELSE {d.from}]
            /\ outcome' = {[host |-> h, from |-> d.from, seg |-> d.seg, intact |-> d.intact,
                            dropped |-> dropped, listened |-> adapter[h].listening,
                            result |-> result]}
    /\ net' = net \ {d}
    /\ UNCHANGED <<link, place, damages>>

Next == \/ \E h \in Host, seg \in Segments : Write(h, seg)
        \/ \E d \in net :
             \/ \E i \in DOMAIN d.bytes, delta \in Deltas : Damage(d, i, delta)
             \/ \E n \in 0 .. Len(d.bytes) - 1 : Cut(d, n)
             \/ \E dropped \in BOOLEAN : Read(d.to, d, dropped)

Spec == Init /\ [][Next]_vars

-----------------------------------------------------------------------------
\* g's segments go to h, and h's adapter looks for them.
Aims(g, h) ==
    /\ Reaches(h, adapter[g].destination)
    /\ adapter[g].destination.port = Port(h)

Paired(g, h) ==
    /\ Aims(g, h) /\ Aims(h, g)
    /\ link = "tun" => adapter[h].source = adapter[g].destination

\* A segment that is handed to the connection is one that another connection
\* wrote, field for field, whatever byte was damaged on the way and although
\* IPv4Datagram::parse and TCPSegment::parse ignore what the parsers of the
\* headers return: the TCP checksum alone stands for them.
DamageDetected == \A o \in outcome : o.result \subseteq {o.seg}

\* What a connection writes reaches its peer's connection unchanged if nothing
\* happens to it, and so does a SYN that finds the peer listening: neither the
\* formats nor the filters of the adapters lose it.
Transparent ==
    \A o \in outcome :
        /\ o.intact /\ ~ o.dropped
        /\ IF o.listened THEN Aims(o.from, o.host) /\ o.seg.syn /\ ~ o.seg.rst
                         ELSE Paired(o.from, o.host)
        => o.result = {o.seg}

\* All segments that a connection is given come from one peer, the one its own
\* segments go to, even if others write to the same address, before it or after.
OnePeer ==
    \A h \in Host : \A g \in heard[h] : Aims(h, g)
=============================================================================
