-------------------------- MODULE MCTCPConnection --------------------------
EXTENDS TCPConnectionSpec

MCIsn == [A |-> 14, B |-> 3]

\* A opens and sends two bytes.
MCTransfer ==
    [streamLen |-> [A |-> 2, B |-> 0], openers |-> {"A"}, earlyEnd |-> {},
     destructors |-> {}, recvCapacity |-> 2, benchmark |-> "no"]

\* A opens and sends a byte; either side may be destructed.
MCDestructed ==
    [streamLen |-> [A |-> 1, B |-> 0], openers |-> {"A"}, earlyEnd |-> {},
     destructors |-> Endpoint, recvCapacity |-> 1, benchmark |-> "no"]

\* Both may open, B sends a byte.
MCSimultaneous ==
    [streamLen |-> [A |-> 0, B |-> 1], openers |-> Endpoint, earlyEnd |-> {},
     destructors |-> {}, recvCapacity |-> 1, benchmark |-> "no"]

\* A opens and sends a byte, B has nothing to send and says so at once.
MCEarlyEnd ==
    [streamLen |-> [A |-> 1, B |-> 0], openers |-> {"A"}, earlyEnd |-> {"B"},
     destructors |-> {}, recvCapacity |-> 1, benchmark |-> "no"]

\* A opens and sends a byte.
MCOneByte ==
    [streamLen |-> [A |-> 1, B |-> 0], openers |-> {"A"}, earlyEnd |-> {},
     destructors |-> {}, recvCapacity |-> 1, benchmark |-> "no"]

\* tcp_benchmark with streams and windows of several sizes.
MCBenchmark ==
    [streamLen : [A : 1 .. 4, B : {0}], openers : {{"A"}}, earlyEnd : {{"B"}},
     destructors : {{}}, recvCapacity : 1 .. 3, benchmark : {"in order", "reversed"}]

MCSafety == {MCTransfer, MCDestructed, MCSimultaneous, MCEarlyEnd} \cup MCBenchmark
MCClosing == {MCOneByte} \cup MCBenchmark
=============================================================================
