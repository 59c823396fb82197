---------------------------- MODULE MCFdAdapter ----------------------------
EXTENDS FdAdapterSpec

MCSegment(flags, seqno, ackno, win, payload) ==
    [seqno |-> seqno, ackno |-> ackno, win |-> win, ack |-> "ack" \in flags,
     rst |-> "rst" \in flags, syn |-> "syn" \in flags, fin |-> "fin" \in flags,
     payload |-> payload]

\* A SYN, one with ack and data, data of odd length with FIN, and a reset.
MCSegments ==
    {MCSegment({"syn"}, <<0, 65535>>, <<0, 0>>, 0, <<>>),
     MCSegment({"ack", "fin"}, <<65535, 65535>>, <<4660, 22136>>, 64000, <<255, 0, 7>>),
     MCSegment({"syn", "ack"}, <<32768, 0>>, <<0, 1>>, 255, <<0, 128>>),
     MCSegment({"syn", "rst"}, <<1, 0>>, <<0, 0>>, 65535, <<>>)}
=============================================================================
