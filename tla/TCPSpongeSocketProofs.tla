----------------------- MODULE TCPSpongeSocketProofs -----------------------
(***************************************************************************)
(* For all lengths of the streams, capacities and interleavings of the     *)
(* thread, its owner and the network: what TCPSpongeSocket says of the     *)
(* bytes, the faults, the end that the owner reads and the end of the      *)
(* thread's loop.                                                          *)
(***************************************************************************)
EXTENDS TCPSpongeSocket, StreamLemmas

\* A connection between two calls of its methods.
GoodTcp(c) ==
    /\ c = [active |-> c.active, opening |-> c.opening, out |-> c.out, inb |-> c.inb,
            segs |-> c.segs]
    /\ c.active \in BOOLEAN /\ c.opening \in BOOLEAN /\ c.segs \in 0 .. MaxSegs
    /\ Buffered(c.out, OutCap)
    /\ Buffered(c.inb, InCap) /\ c.inb.maximumcapacity = InCap /\ c.inb.writtensize <= InLen
    /\ ~ c.active => c.inb.error \/ c.inb.end

\* Where the loop is, who runs it, and what the owner may be doing then.
Machine ==
    /\ loop \in LoopType(Rules) /\ loop.ready \cup loop.hung \subseteq loop.rules
    /\ DatagramIn \in loop.rules /\ DatagramOut \in loop.rules
    /\ loop.hung \subseteq {PipeOut} /\ loop.error = {}
    /\ pc \in {"setup", "poll", "dispatch", "main", "done", "dead"}
    /\ pc \in {"setup", "poll"} => loop.ready = {} /\ loop.hung = {}
    /\ pc = "poll" => loop.events \subseteq loop.rules
    /\ phase \in {"handshake", "thread"}
    /\ shut \in [inbound : BOOLEAN, outbound : BOOLEAN]
    /\ abort \in BOOLEAN /\ wire \in BOOLEAN
    /\ owner \in {"blocked", "using", "eof", "closed", "joining", "gone"}
    /\ phase = "handshake" => owner = "blocked"
    /\ abort => owner \in {"joining", "gone"}
    /\ why \in {"running", "exit", "abort", "signal"}
    /\ why = "abort" => abort
    /\ pc \in {"setup", "poll", "dispatch"} => why = "running"
    /\ pc \in {"main", "done"} => why # "running"
    /\ fault \in {"none", "busy wait", "short write", "broken pipe", "bad descriptor"}

\* Every byte is in one place.
Crossing ==
    /\ pipe \in PipeType /\ put \in 0 .. OutLen /\ got \in Nat
    /\ Bytes(pipe.down, tcp.out.writtensize, Len(pipe.down))
    /\ tcp.out.writtensize + Len(pipe.down) = put
    /\ Bytes(pipe.up, got, Len(pipe.up)) /\ got + Len(pipe.up) = tcp.inb.readsize
    /\ Len(pipe.up) <= PipeCap

\* The pipe is shut down towards the owner only by rule 3, or by the end of the
\* thread, and the owner shuts it down only when it has read that.
Told ==
    /\ PipeOut \in loop.hung \/ PipeOut \notin loop.rules => pipe.upShut
    /\ shut.inbound => pipe.upShut
    /\ pipe.upShut => \/ tcp.inb.error \/ Eof(tcp.inb)
                      \/ pc = "done" /\ why \in {"signal", "abort"}
    /\ owner = "eof" => pipe.upShut

\* The inductive invariant.
IndInv ==
    /\ Machine
    /\ GoodTcp(tcp)
    /\ Crossing
    /\ Told
    /\ NoFault
    /\ EofHonest
    /\ CleanExit

-----------------------------------------------------------------------------
(* The connection. *)

\* The inbound stream of a connection d that was c: only its writer has acted on it,
\* and not after the end.
MovedIn(d, c) ==
    /\ d.inb.readsize = c.inb.readsize
    /\ c.inb.error => d.inb.error
    /\ c.inb.end => d.inb.end /\ d.inb.writtensize = c.inb.writtensize

\* The same, and nothing has been written to the outbound stream.
Moved(d, c) == MovedIn(d, c) /\ d.out.writtensize = c.out.writtensize

\* The members of a connection, one by one.
LEMMA TcpMembers ==
    ASSUME NEW c, GoodTcp(c)
    PROVE  /\ c.active \in BOOLEAN /\ c.opening \in BOOLEAN /\ c.segs \in 0 .. MaxSegs
           /\ Buffered(c.out, OutCap) /\ Buffered(c.inb, InCap)
           /\ c.inb.maximumcapacity = InCap /\ c.inb.writtensize <= InLen
           /\ ~ c.active => c.inb.error \/ c.inb.end
           /\ Moved(c, c) /\ MovedIn(c, c)
BY DEF GoodTcp, Moved, MovedIn

\* Calls follow each other.
LEMMA MovedTrans ==
    ASSUME NEW c, NEW d, NEW e, MovedIn(d, c), MovedIn(e, d)
    PROVE  MovedIn(e, c) /\ (Moved(d, c) /\ Moved(e, d) => Moved(e, c))
BY DEF MovedIn, Moved

\* A segment is queued.
LEMMA QueuedGood ==
    ASSUME NEW c, GoodTcp(c), NEW d, d = Queued(c)
    PROVE  GoodTcp(d) /\ Moved(d, c)
<1>1. PICK s \in 0 .. MaxSegs : s = MinOf(c.segs + 1, MaxSegs)
  BY TcpMembers, SocketAssumption DEF MinOf
<1>2. d = [active |-> c.active, opening |-> c.opening, out |-> c.out, inb |-> c.inb, segs |-> s]
  BY <1>1 DEF Queued, GoodTcp
<1>3. d.active = c.active /\ d.opening = c.opening /\ d.out = c.out /\ d.inb = c.inb /\ d.segs = s
  BY <1>2
<1>4. GoodTcp(d)
  BY <1>2, <1>3 DEF GoodTcp
<1> QED BY <1>3, <1>4 DEF Moved, MovedIn

\* The outbound stream is changed.
LEMMA OutChanged ==
    ASSUME NEW c, GoodTcp(c), NEW o, Buffered(o, OutCap), NEW d, d = [c EXCEPT !.out = o]
    PROVE  GoodTcp(d) /\ MovedIn(d, c) /\ d.out = o /\ d.inb = c.inb
<1>1. d = [active |-> c.active, opening |-> c.opening, out |-> o, inb |-> c.inb, segs |-> c.segs]
  BY DEF GoodTcp
<1>2. d.active = c.active /\ d.opening = c.opening /\ d.out = o /\ d.inb = c.inb /\ d.segs = c.segs
  BY <1>1
<1>3. GoodTcp(d)
  BY <1>1, <1>2 DEF GoodTcp
<1> QED BY <1>2, <1>3 DEF MovedIn

\* The inbound stream is changed.
LEMMA InChanged ==
    ASSUME NEW c, GoodTcp(c),
           NEW b, Buffered(b, InCap), b.maximumcapacity = InCap, b.writtensize <= InLen,
           c.inb.error => b.error, c.inb.end => b.end,
           NEW d, d = [c EXCEPT !.inb = b]
    PROVE  GoodTcp(d) /\ d.inb = b /\ d.out = c.out
<1>1. d = [active |-> c.active, opening |-> c.opening, out |-> c.out, inb |-> b, segs |-> c.segs]
  BY DEF GoodTcp
<1>2. d.active = c.active /\ d.opening = c.opening /\ d.out = c.out /\ d.inb = b /\ d.segs = c.segs
  BY <1>1
<1>3. GoodTcp(d)
  BY <1>1, <1>2 DEF GoodTcp
<1> QED BY <1>2, <1>3

\* fill_window() and send_segments().
LEMMA SentGood ==
    ASSUME NEW c, GoodTcp(c), NEW d \in Sent(c)
    PROVE  GoodTcp(d) /\ Moved(d, c)
<1>0. OutCap \in Nat
  BY SocketAssumption
<1>1. Buffered(c.out, OutCap) /\ Len(c.out.que) \in Nat
  BY <1>0, TcpMembers, BufferedMembers
<1>2. PICK n \in 0 .. Len(c.out.que) :
          \/ d = [c EXCEPT !.out = Read(@, n)]
          \/ d = Queued([c EXCEPT !.out = Read(@, n)])
  BY DEF Sent
<1>3. PICK o : o = Read(c.out, n)
  OBVIOUS
<1>4. n \in Nat /\ HasRead(o, c.out, MinOf(n, Len(c.out.que)), OutCap)
  <2>1. n \in Nat
    BY <1>1
  <2> QED BY <1>0, <1>1, <1>3, <2>1, ReadBuffered
<1>5. Buffered(o, OutCap) /\ o.writtensize = c.out.writtensize
  BY <1>4 DEF HasRead
<1>6. PICK t : t = [c EXCEPT !.out = o]
  OBVIOUS
<1>7. GoodTcp(t) /\ Moved(t, c)
  BY <1>5, <1>6, OutChanged DEF Moved
<1>8. d = t \/ d = Queued(t)
  BY <1>2, <1>3, <1>6
<1>9. CASE d = Queued(t)
  <2>1. GoodTcp(d) /\ Moved(d, t)
    BY <1>7, <1>9, QueuedGood
  <2> QED BY <1>7, <2>1, MovedTrans DEF Moved
<1> QED BY <1>7, <1>8, <1>9

\* try_clean_close().
LEMMA ClosedGood ==
    ASSUME NEW c, GoodTcp(c), NEW d \in Closed(c)
    PROVE  GoodTcp(d) /\ Moved(d, c)
<1>1. CASE d = c
  BY <1>1, TcpMembers
<1>2. CASE c.inb.end /\ d = [c EXCEPT !.active = FALSE]
  <2>1. d = [active |-> FALSE, opening |-> c.opening, out |-> c.out, inb |-> c.inb, segs |-> c.segs]
    BY <1>2 DEF GoodTcp
  <2>2. d.active = FALSE /\ d.opening = c.opening /\ d.out = c.out /\ d.inb = c.inb /\ d.segs = c.segs
    BY <2>1
  <2>3. GoodTcp(d)
    BY <1>2, <2>1, <2>2 DEF GoodTcp
  <2> QED BY <2>2, <2>3 DEF Moved, MovedIn
<1> QED BY <1>1, <1>2 DEF Closed

\* The connection is aborted.
LEMMA AbortGood ==
    ASSUME NEW c, GoodTcp(c), NEW d, d = AbortTcp(c)
    PROVE  GoodTcp(d) /\ Moved(d, c)
<1>0. OutCap \in Nat /\ InCap \in Nat
  BY SocketAssumption
<1>1. PICK o, b : o = SetError(c.out) /\ b = SetError(c.inb)
  OBVIOUS
<1>2. Buffered(o, OutCap) /\ o.writtensize = c.out.writtensize
  BY <1>0, <1>1, TcpMembers, ErrorBuffered
<1>3. /\ Buffered(b, InCap) /\ b.error /\ b.end = c.inb.end
      /\ b.maximumcapacity = c.inb.maximumcapacity
      /\ b.writtensize = c.inb.writtensize /\ b.readsize = c.inb.readsize
  BY <1>0, <1>1, TcpMembers, ErrorBuffered
<1>4. d = [active |-> FALSE, opening |-> c.opening, out |-> o, inb |-> b, segs |-> c.segs]
  BY <1>1 DEF AbortTcp, GoodTcp
<1>5. d.active = FALSE /\ d.opening = c.opening /\ d.out = o /\ d.inb = b /\ d.segs = c.segs
  BY <1>4
<1>6. GoodTcp(d)
  BY <1>2, <1>3, <1>4, <1>5 DEF GoodTcp
<1> QED BY <1>2, <1>3, <1>5, <1>6 DEF Moved, MovedIn

\* What the receiver may assemble is the next bytes of the stream, and the end.
LEMMA AssembledGood ==
    ASSUME NEW c, GoodTcp(c), NEW b \in Assembled(c.inb)
    PROVE  /\ Buffered(b, InCap) /\ b.maximumcapacity = InCap /\ b.writtensize <= InLen
           /\ b.readsize = c.inb.readsize /\ b.error = c.inb.error
           /\ c.inb.end => b = c.inb
<1>0. InCap \in Nat /\ InLen \in Nat
  BY SocketAssumption
<1>1. CASE c.inb.end
  <2>1. b = c.inb
    BY <1>1 DEF Assembled
  <2> QED BY <2>1, TcpMembers
<1>2. CASE ~ c.inb.end
  <2>1. PICK w \in Nat, room \in Nat :
            w = c.inb.writtensize /\ room = c.inb.capacity /\ w <= InLen
    BY <1>0, TcpMembers, BufferedMembers
  <2>2. PICK n \in 0 .. MinOf(room, InLen - w) :
            \/ b = Write(c.inb, Excerpt(w, w + n))
            \/ b = EndInput(Write(c.inb, Excerpt(w, w + n)))
    <3> DEFINE News == {Write(c.inb, Excerpt(w, w + n)) : n \in 0 .. MinOf(room, InLen - w)}
               Ends == {EndInput(x) : x \in {y \in News : y.writtensize = InLen}}
    <3>1. b \in News \cup Ends
      BY <1>2, <2>1 DEF Assembled
    <3>2. CASE b \in News
      BY <3>2
    <3>3. CASE b \in Ends
      BY <3>3
    <3> QED BY <3>1, <3>2, <3>3
  <2>3. n \in Nat /\ n <= room /\ w + n <= InLen
    BY <1>0, <2>1 DEF MinOf
  <2>4. PICK v : v = Write(c.inb, Excerpt(w, w + n))
    OBVIOUS
  <2>5. Bytes(Excerpt(w, w + n), w, n)
    BY <2>3, BytesOfExcerpt
  <2>6. /\ Buffered(v, InCap) /\ SameFlags(v, c.inb)
        /\ v.writtensize = w + n /\ v.readsize = c.inb.readsize
    BY <1>0, <2>1, <2>3, <2>4, <2>5, TcpMembers, WriteBuffered
  <2>7. /\ Buffered(b, InCap) /\ b.writtensize = w + n /\ b.readsize = c.inb.readsize
        /\ b.error = c.inb.error /\ b.maximumcapacity = c.inb.maximumcapacity
    <3>1. CASE b = v
      BY <2>6, <3>1 DEF SameFlags
    <3>2. CASE b = EndInput(v)
      <4>1. /\ Buffered(b, InCap) /\ b.writtensize = v.writtensize
            /\ b.readsize = v.readsize /\ b.error = v.error
            /\ b.maximumcapacity = v.maximumcapacity
        BY <1>0, <2>6, <3>2, EndBuffered
      <4> QED BY <2>6, <4>1 DEF SameFlags
    <3> QED BY <2>2, <2>4, <3>1, <3>2
  <2>8. b.maximumcapacity = InCap /\ b.writtensize <= InLen
    BY <2>3, <2>7, TcpMembers
  <2> QED BY <1>2, <2>7, <2>8
<1> QED BY <1>1, <1>2

\* The receiver's part of segment_received().
LEMMA ReceivedGood ==
    ASSUME NEW c, GoodTcp(c), NEW d \in Received(c)
    PROVE  GoodTcp(d) /\ Moved(d, c)
<1>1. PICK b \in Assembled(c.inb), goesOn \in BOOLEAN : d = TakenIn(c, b, goesOn)
  BY DEF Received
<1>2. /\ Buffered(b, InCap) /\ b.maximumcapacity = InCap /\ b.writtensize <= InLen
      /\ b.readsize = c.inb.readsize /\ b.error = c.inb.error
      /\ (c.inb.end => b = c.inb)
  BY <1>1, AssembledGood
<1>3. PICK o \in BOOLEAN : o = (c.opening /\ goesOn /\ ~ b.end)
  BY TcpMembers
<1>4. d = [active |-> c.active, opening |-> o, out |-> c.out, inb |-> b, segs |-> c.segs]
  BY <1>1, <1>3 DEF TakenIn, GoodTcp
<1>5. d.active = c.active /\ d.opening = o /\ d.out = c.out /\ d.inb = b /\ d.segs = c.segs
  BY <1>4
<1>6. GoodTcp(d)
  BY <1>2, <1>3, <1>4, <1>5 DEF GoodTcp
<1> QED BY <1>2, <1>5, <1>6 DEF Moved, MovedIn

\* segment_received().
LEMMA AfterSegmentGood ==
    ASSUME NEW c, GoodTcp(c), NEW d \in {c} \cup AfterSegment(c)
    PROVE  GoodTcp(d) /\ Moved(d, c)
<1>1. CASE d = c
  BY <1>1, TcpMembers
<1>2. CASE d = AbortTcp(c)
  BY <1>2, AbortGood
<1>3. CASE \E r \in Received(c) : \E e \in Sent(r) : d \in Closed(e)
  <2>1. PICK r \in Received(c) : \E e \in Sent(r) : d \in Closed(e)
    BY <1>3
  <2>2. PICK e \in Sent(r) : d \in Closed(e)
    BY <2>1
  <2>3. GoodTcp(r) /\ Moved(r, c)
    BY ReceivedGood
  <2>4. GoodTcp(e) /\ Moved(e, r)
    BY <2>3, SentGood
  <2>5. GoodTcp(d) /\ Moved(d, e)
    BY <2>2, <2>4, ClosedGood
  <2> QED BY <2>3, <2>4, <2>5, MovedTrans DEF Moved
<1> QED BY <1>1, <1>2, <1>3 DEF AfterSegment

\* tick().
LEMMA AfterTickGood ==
    ASSUME NEW c, GoodTcp(c), NEW d \in {c} \cup AfterTick(c)
    PROVE  GoodTcp(d) /\ Moved(d, c)
<1>1. PICK q : q = Queued(c) /\ GoodTcp(q) /\ Moved(q, c)
  BY QueuedGood
<1>2. CASE d = c \/ d \in Closed(c)
  BY <1>2, TcpMembers, ClosedGood
<1>3. CASE d = AbortTcp(q) \/ d \in Closed(q)
  <2>1. GoodTcp(d) /\ Moved(d, q)
    BY <1>1, <1>3, AbortGood, ClosedGood
  <2> QED BY <1>1, <2>1, MovedTrans DEF Moved
<1> QED BY <1>1, <1>2, <1>3 DEF AfterTick

\* write() of bytes for which there is room.
LEMMA AfterWriteGood ==
    ASSUME NEW c, GoodTcp(c), NEW n \in Nat, n <= c.out.capacity,
           NEW data, Bytes(data, c.out.writtensize, n), NEW d \in AfterWrite(c, data)
    PROVE  GoodTcp(d) /\ MovedIn(d, c) /\ d.out.writtensize = c.out.writtensize + n
<1>0. OutCap \in Nat
  BY SocketAssumption
<1>1. PICK o : o = Write(c.out, data)
  OBVIOUS
<1>2. Buffered(o, OutCap) /\ o.writtensize = c.out.writtensize + n
  BY <1>0, <1>1, TcpMembers, WriteBuffered
<1>3. PICK w : w = [c EXCEPT !.out = o]
  OBVIOUS
<1>4. GoodTcp(w) /\ MovedIn(w, c) /\ w.out = o
  BY <1>2, <1>3, OutChanged
<1>5. d \in UNION {Closed(e) : e \in Sent(w)}
  BY <1>1, <1>3 DEF AfterWrite
<1>6. PICK e \in Sent(w) : d \in Closed(e)
  BY <1>5
<1>7. GoodTcp(e) /\ Moved(e, w)
  BY <1>4, SentGood
<1>8. GoodTcp(d) /\ Moved(d, e)
  BY <1>6, <1>7, ClosedGood
<1>9. GoodTcp(d) /\ MovedIn(d, c) /\ d.out.writtensize = w.out.writtensize
  BY <1>4, <1>7, <1>8, MovedTrans DEF Moved
<1> QED BY <1>2, <1>4, <1>9

\* end_input_stream().
LEMMA AfterEndInputGood ==
    ASSUME NEW c, GoodTcp(c), NEW d \in AfterEndInput(c)
    PROVE  GoodTcp(d) /\ Moved(d, c)
<1>0. OutCap \in Nat
  BY SocketAssumption
<1>1. PICK o : o = EndInput(c.out)
  OBVIOUS
<1>2. Buffered(o, OutCap) /\ o.writtensize = c.out.writtensize
  BY <1>0, <1>1, TcpMembers, EndBuffered
<1>3. PICK w : w = [c EXCEPT !.out = o]
  OBVIOUS
<1>4. GoodTcp(w) /\ MovedIn(w, c) /\ w.out = o
  BY <1>2, <1>3, OutChanged
<1>5. d \in Sent(w)
  BY <1>1, <1>3 DEF AfterEndInput
<1>6. GoodTcp(d) /\ Moved(d, w)
  BY <1>4, <1>5, SentGood
<1> QED BY <1>2, <1>4, <1>6, MovedTrans DEF Moved

\* An end that has been reached, and an error, remain.
LEMMA OverStays ==
    ASSUME NEW c, NEW d, MovedIn(d, c)
    PROVE  (c.inb.error => d.inb.error) /\ (Eof(c.inb) => Eof(d.inb))
BY DEF MovedIn, Eof

-----------------------------------------------------------------------------
(* The steps. *)

\* connect() or listen_and_accept() before its loop.
LEMMA InitInv == Init => IndInv
<1> SUFFICES ASSUME Init PROVE IndInv
  OBVIOUS
<1>0. OutCap \in Nat /\ InCap \in Nat /\ InLen \in Nat /\ OutLen \in Nat /\ MaxSegs \in Nat
      /\ MaxSegs > 0
  BY SocketAssumption
<1>1. PICK o, b, s : /\ o = NewByteStream(OutCap) /\ b = NewByteStream(InCap) /\ s \in {0, 1}
                     /\ tcp = [active |-> TRUE, opening |-> TRUE, out |-> o, inb |-> b, segs |-> s]
  BY DEF Init, NewTcp
<1>2. Buffered(o, OutCap) /\ o.writtensize = 0
  BY <1>0, <1>1, NewBuffered
<1>3. /\ Buffered(b, InCap) /\ b.maximumcapacity = InCap /\ b.writtensize = 0
      /\ b.readsize = 0 /\ ~ b.end /\ ~ b.error
  BY <1>0, <1>1, NewBuffered
<1>4. /\ tcp.active = TRUE /\ tcp.opening = TRUE /\ tcp.out = o /\ tcp.inb = b
      /\ tcp.segs \in 0 .. MaxSegs
  BY <1>0, <1>1
<1>5. GoodTcp(tcp)
  BY <1>0, <1>1, <1>2, <1>3, <1>4 DEF GoodTcp
<1>6. Bytes(<<>>, 0, 0) /\ Len(<<>>) = 0
  BY DEF Bytes
<1>7. pipe = NewPipe /\ pipe \in PipeType /\ pipe.down = <<>> /\ pipe.up = <<>> /\ ~ pipe.upShut
  BY DEF Init, NewPipe, PipeType
<1>8. put = 0 /\ got = 0 /\ put \in 0 .. OutLen
  BY <1>0 DEF Init
<1>9. Crossing
  BY <1>2, <1>3, <1>4, <1>6, <1>7, <1>8, SocketAssumption DEF Crossing
<1>10. /\ loop \in LoopType(Rules) /\ loop.rules = Rules
       /\ loop.ready = {} /\ loop.hung = {} /\ loop.error = {}
  BY DEF Init, NewLoop, LoopType
<1>11. DatagramIn \in Rules /\ DatagramOut \in Rules /\ PipeOut \in Rules
  BY DEF Rules, DatagramIn, DatagramOut, PipeOut
<1>12. Machine
  BY <1>10, <1>11 DEF Init, Machine
<1>13. Told
  BY <1>7, <1>10, <1>11 DEF Init, Told
<1>14. NoFault /\ EofHonest /\ CleanExit
  BY DEF Init, NoFault, EofHonest, CleanExit
<1> QED BY <1>5, <1>9, <1>12, <1>13, <1>14 DEF IndInv

\* Most steps of the thread leave the pipe alone.
LEMMA PipeLeftAlone ==
    ASSUME IndInv, pc \in {"setup", "poll", "dispatch"},
           GoodTcp(tcp'), Moved(tcp', tcp), UNCHANGED <<pipe, put, got, fault>>,
           owner' = "eof" => owner = "eof", shut'.inbound = shut.inbound,
           PipeOut \in loop'.hung => PipeOut \in loop.hung \/ pipe.upShut,
           PipeOut \notin loop'.rules => PipeOut \notin loop.rules \/ PipeOut \in loop.hung
    PROVE  Crossing' /\ Told' /\ NoFault' /\ EofHonest'
<1> USE DEF IndInv
<1>1. /\ tcp'.inb.readsize = tcp.inb.readsize /\ tcp'.out.writtensize = tcp.out.writtensize
      /\ (tcp.inb.error => tcp'.inb.error) /\ (Eof(tcp.inb) => Eof(tcp'.inb))
      /\ (tcp.inb.end => tcp'.inb.end /\ tcp'.inb.writtensize = tcp.inb.writtensize)
  BY OverStays DEF Moved, MovedIn
<1>2. Crossing'
  BY <1>1 DEF Crossing
<1>3. Told'
  BY <1>1 DEF Told
<1>4. NoFault'
  BY <1>1 DEF NoFault
<1>5. EofHonest'
  BY <1>1 DEF EofHonest, Machine
<1> QED BY <1>2, <1>3, <1>4, <1>5

\* The loop of the handshake, or the thread's, is left.
LEMMA LeaveStep ==
    ASSUME IndInv, pc \in {"setup", "poll", "dispatch"},
           loop.ready = {}, loop.hung = {}, loop' \in LoopType(Rules),
           loop'.rules \subseteq loop.rules, loop.rules \ {PipeIn} \subseteq loop'.rules,
           loop'.ready = {}, loop'.hung = {}, loop'.error = {},
           NEW reason, phase = "thread" => reason \in {"exit", "abort", "signal"}, Leave(reason),
           reason = "abort" => abort,
           shut' \in [inbound : BOOLEAN, outbound : BOOLEAN], UNCHANGED <<abort, wire, fault>>
    PROVE  Machine' /\ (owner' = "eof" => owner = "eof") /\ (why' = why \/ why' = reason)
<1> USE DEF IndInv
<1>0. DatagramIn # PipeIn /\ DatagramOut # PipeIn
  BY DEF DatagramIn, DatagramOut, PipeIn
<1>1. /\ phase = "handshake" \/ phase = "thread"
      /\ DatagramIn \in loop'.rules /\ DatagramOut \in loop'.rules
      /\ why = "running"
  BY <1>0 DEF Machine
<1>2. CASE phase = "handshake"
  <2>1. pc' = "setup" /\ phase' = "thread" /\ owner' = "using" /\ why' = why /\ ~ abort
    BY <1>2 DEF Leave, Machine
  <2> QED BY <1>1, <2>1 DEF Machine
<1>3. CASE phase = "thread"
  <2>1. pc' = "main" /\ why' = reason /\ phase' = phase /\ owner' = owner
    BY <1>3 DEF Leave
  <2> QED BY <1>1, <1>3, <2>1 DEF Machine
<1> QED BY <1>1, <1>2, <1>3

\* The handshake is over, or poll(2) is interrupted.
LEMMA BreakStep ==
    ASSUME IndInv, Opened \/ Interrupted
    PROVE  IndInv'
<1> USE DEF IndInv
<1>1. /\ UNCHANGED <<tcp, loop, pipe, shut, abort, wire, put, got, fault>>
      /\ pc \in {"setup", "poll"} /\ why = "running"
      /\ loop.ready = {} /\ loop.hung = {} /\ loop.error = {}
      /\ loop \in LoopType(Rules) /\ shut \in [inbound : BOOLEAN, outbound : BOOLEAN]
  BY DEF Opened, Interrupted, Machine
<1>2. PICK reason : /\ Leave(reason) /\ reason \notin {"exit", "abort"}
                    /\ (phase = "thread" => reason = "signal")
  BY DEF Opened, Interrupted
<1>3. Machine' /\ (owner' = "eof" => owner = "eof") /\ (why' = why \/ why' = reason)
  BY <1>1, <1>2, LeaveStep
<1>4. GoodTcp(tcp') /\ Moved(tcp', tcp)
  BY <1>1, TcpMembers
<1>5. Crossing' /\ Told' /\ NoFault' /\ EofHonest'
  BY <1>1, <1>3, <1>4, PipeLeftAlone
<1>6. CleanExit'
  BY <1>1, <1>2, <1>3 DEF CleanExit
<1> QED BY <1>3, <1>4, <1>5, <1>6

\* What an answer to "interested?" means.
LEMMA InterestedRules ==
    ASSUME NEW c, GoodTcp(c), NEW s, NEW I, I = {r \in Rules : Interested(r, c, s)}
    PROVE  /\ DatagramIn \in I <=> c.active
           /\ PipeOut \in I <=> PipeOutInterested(c, s)
           /\ DatagramOut \in I <=> c.segs > 0
<1>1. /\ DatagramIn \in Rules /\ PipeOut \in Rules /\ DatagramOut \in Rules
      /\ PipeIn # DatagramIn /\ PipeOut # DatagramIn /\ PipeOut # PipeIn
      /\ DatagramOut # DatagramIn /\ DatagramOut # PipeIn /\ DatagramOut # PipeOut
  BY DEF Rules, DatagramIn, PipeIn, PipeOut, DatagramOut
<1>2. c.active \in BOOLEAN
  BY TcpMembers
<1>3. DatagramIn \in I <=> c.active
  BY <1>1, <1>2 DEF Interested, DatagramInInterested
<1>4. PipeOut \in I <=> PipeOutInterested(c, s)
  BY <1>1 DEF Interested
<1>5. DatagramOut \in I <=> c.segs > 0
  BY <1>1 DEF Interested
<1> QED BY <1>3, <1>4, <1>5

\* A connection that no rule is interested in is over, and its owner told.
LEMMA NothingLeft ==
    ASSUME NEW c, GoodTcp(c), NEW s, ~ PipeOutInterested(c, s), ~ c.active
    PROVE  s.inbound
<1>0. InCap \in Nat
  BY SocketAssumption
<1>1. PICK R \in Nat, w \in Nat, l \in Nat, C \in Nat :
          /\ R = c.inb.readsize /\ w = c.inb.writtensize /\ C = c.inb.capacity
          /\ l = Len(c.inb.que) /\ C + l = InCap /\ w = R + l
  <2>1. PICK b : b = c.inb /\ Buffered(b, InCap)
    BY TcpMembers
  <2>2. /\ b.readsize \in Nat /\ b.writtensize \in Nat /\ b.capacity \in Nat
        /\ Len(b.que) \in Nat /\ b.capacity + Len(b.que) = InCap
        /\ b.writtensize = b.readsize + Len(b.que)
    BY <1>0, <2>1, BufferedMembers
  <2> QED BY <2>1, <2>2
<1>2. BufferEmpty(c.inb) <=> C = InCap
  BY <1>1, TcpMembers DEF BufferEmpty
<1>3. C = InCap => R = w
  BY <1>0, <1>1
<1>4. BufferEmpty(c.inb) /\ (Eof(c.inb) \/ c.inb.error => s.inbound)
  BY DEF PipeOutInterested
<1>5. c.inb.error \/ c.inb.end
  BY TcpMembers
<1> QED BY <1>1, <1>2, <1>3, <1>4, <1>5 DEF Eof

\* wait_next_event() before poll(2).
LEMMA PrepareStep ==
    ASSUME IndInv, Prepare
    PROVE  IndInv'
<1> USE DEF IndInv
<1>1. /\ pc = "setup" /\ UNCHANGED <<pipe, abort, wire, put, got, fault>>
      /\ tcp' \in IF PipeEnded THEN AfterEndInput(tcp) ELSE {tcp}
      /\ shut' = [shut EXCEPT !.outbound = @ \/ PipeEnded]
  BY DEF Prepare
<1>2. PICK rest, I : /\ rest = IF PipeEnded THEN Erase(loop, PipeIn) ELSE loop
                     /\ I = {r \in Rules : Interested(r, tcp', shut')}
                     /\ loop' = SetUp(rest, I)
  BY DEF Prepare
<1>3. \/ loop'.events = {} /\ Leave("exit")
      \/ loop'.events # {} /\ pc' = "poll" /\ UNCHANGED <<phase, owner, why>>
  BY DEF Prepare, NothingToPoll
<1>4. /\ loop \in LoopType(Rules) /\ loop.ready = {} /\ loop.hung = {} /\ loop.error = {}
      /\ why = "running"
      /\ DatagramIn \in loop.rules /\ DatagramOut \in loop.rules
      /\ shut \in [inbound : BOOLEAN, outbound : BOOLEAN]
  BY <1>1 DEF Machine
<1>5. /\ rest \in LoopType(Rules) /\ rest.ready = {} /\ rest.hung = {} /\ rest.error = {}
      /\ rest.rules \subseteq loop.rules /\ loop.rules \ {PipeIn} \subseteq rest.rules
  BY <1>2, <1>4 DEF LoopType, Erase
<1>6. /\ loop' \in LoopType(Rules) /\ loop'.ready = {} /\ loop'.hung = {} /\ loop'.error = {}
      /\ loop'.rules = rest.rules /\ loop'.events = rest.rules \cap I
  <2>1. PICK h : h = loop' /\ h = SetUp(rest, I)
    BY <1>2
  <2>2. /\ h \in LoopType(Rules) /\ h.rules = rest.rules /\ h.events = rest.rules \cap I
        /\ h.ready = rest.ready /\ h.hung = rest.hung /\ h.error = rest.error
    BY <1>5, <2>1, SetUpMembers
  <2> QED BY <1>5, <2>1, <2>2
<1>7. GoodTcp(tcp') /\ Moved(tcp', tcp)
  <2>1. CASE PipeEnded
    BY <1>1, <2>1, AfterEndInputGood
  <2>2. CASE ~ PipeEnded
    BY <1>1, <2>2, TcpMembers
  <2> QED BY <2>1, <2>2
<1>8. shut' \in [inbound : BOOLEAN, outbound : BOOLEAN] /\ shut'.inbound = shut.inbound
  <2>1. PipeEnded \in BOOLEAN
    BY DEF PipeEnded, PipeType, Crossing
  <2> QED BY <1>1, <1>4, <2>1
<1>9. /\ DatagramIn \in rest.rules /\ DatagramOut \in rest.rules
      /\ PipeOut \in loop.rules => PipeOut \in rest.rules
  BY <1>4, <1>5 DEF DatagramIn, DatagramOut, PipeOut, PipeIn
<1>10. Machine' /\ (owner' = "eof" => owner = "eof") /\ (why' = why \/ why' = "exit")
       /\ (why' = "exit" => loop'.events = {})
  <2>1. CASE loop'.events = {} /\ Leave("exit")
    BY <1>1, <1>4, <1>5, <1>6, <1>8, <2>1, LeaveStep
  <2>2. CASE loop'.events # {} /\ pc' = "poll" /\ UNCHANGED <<phase, owner, why>>
    BY <1>1, <1>4, <1>6, <1>8, <1>9, <2>2 DEF Machine
  <2> QED BY <1>3, <2>1, <2>2
<1>11. Crossing' /\ Told' /\ NoFault' /\ EofHonest'
  <2>1. PipeOut \notin loop'.hung /\ (PipeOut \notin loop'.rules => PipeOut \notin loop.rules)
    BY <1>6, <1>9
  <2> QED BY <1>1, <1>7, <1>8, <1>10, <2>1, PipeLeftAlone
<1>12. CleanExit'
  <2> SUFFICES ASSUME why' = "exit" PROVE ~ tcp'.active /\ tcp'.segs = 0 /\ pipe'.upShut
    BY DEF CleanExit
  <2>1. DatagramIn \notin I /\ DatagramOut \notin I /\ (PipeOut \notin I \/ PipeOut \notin loop'.rules)
    BY <1>6, <1>9, <1>10
  <2>2. /\ ~ tcp'.active /\ ~ (tcp'.segs > 0)
        /\ (PipeOut \notin I => ~ PipeOutInterested(tcp', shut'))
    BY <1>2, <1>7, <2>1, InterestedRules
  <2>3. tcp'.segs = 0
    BY <1>7, <2>2, TcpMembers, SocketAssumption
  <2>4. pipe'.upShut
    <3>1. CASE PipeOut \notin loop'.rules
      BY <1>11, <3>1 DEF Told
    <3>2. CASE PipeOut \notin I
      BY <1>7, <1>11, <2>2, <3>2, NothingLeft DEF Told
    <3> QED BY <2>1, <3>1, <3>2
  <2> QED BY <2>2, <2>3, <2>4
<1> QED BY <1>7, <1>10, <1>11, <1>12

\* poll(2) answers.  A hangup of the pipe comes with its end, which is readable.
LEMMA PollStep ==
    ASSUME IndInv, Poll
    PROVE  IndInv'
<1> USE DEF IndInv
<1>1. /\ pc = "poll" /\ pc' = "dispatch"
      /\ UNCHANGED <<tcp, phase, pipe, shut, wire, abort, owner, put, got, why, fault>>
  BY DEF Poll, ownerVars
<1>2. PICK A, H : /\ A = {r \in Rules : Ready(r)} /\ H = {r \in Rules : Hangup(r)}
                  /\ loop' = Polled(loop, A, H, {})
  BY DEF Poll
<1>3. loop \in LoopType(Rules) /\ loop.events \subseteq loop.rules /\ loop.hung = {}
  BY <1>1 DEF Machine
<1>4. /\ loop' \in LoopType(Rules) /\ loop'.rules = loop.rules
      /\ loop'.ready = loop.events \cap A /\ loop'.hung = loop.events \cap (H \ A)
      /\ loop'.error = {}
  <2>1. PICK h : h = loop' /\ h = Polled(loop, A, H, {})
    BY <1>2
  <2>2. /\ h \in LoopType(Rules) /\ h.rules = loop.rules
        /\ h.ready = loop.events \cap A /\ h.hung = loop.events \cap (H \ A)
        /\ h.error = loop.rules \cap {}
    BY <1>3, <2>1, PolledMembers
  <2> QED BY <2>1, <2>2
<1>5. H \ A \subseteq {PipeOut} /\ (PipeOut \in H => pipe.upShut)
  <2>1. PipeIn \in Rules /\ PipeIn # DatagramIn /\ PipeIn # PipeOut
    BY DEF Rules, PipeIn, DatagramIn, PipeOut
  <2>2. H \subseteq {PipeIn, PipeOut} /\ (H # {} => pipe.downShut /\ pipe.upShut)
    BY <1>2 DEF Hangup
  <2>3. pipe.downShut => PipeIn \in A
    BY <1>2, <2>1 DEF Ready
  <2> QED BY <2>2, <2>3
<1>6. Machine'
  BY <1>1, <1>3, <1>4, <1>5 DEF Machine
<1>7. GoodTcp(tcp') /\ Moved(tcp', tcp)
  BY <1>1, TcpMembers
<1>8. Crossing' /\ Told' /\ NoFault' /\ EofHonest'
  BY <1>1, <1>4, <1>5, <1>7, PipeLeftAlone
<1>9. CleanExit'
  BY <1>1 DEF CleanExit
<1> QED BY <1>6, <1>7, <1>8, <1>9

\* The pipe hangs up on rule 3, which is cancelled.
LEMMA CancelStep ==
    ASSUME IndInv, pc = "dispatch", NEW r \in loop.hung, Cancel(r)
    PROVE  IndInv'
<1> USE DEF IndInv
<1>1. r = PipeOut /\ r # PipeIn /\ r # DatagramIn /\ r # DatagramOut /\ r \in Rules
      /\ loop \in LoopType(Rules)
  <2>1. /\ PipeOut # PipeIn /\ PipeOut # DatagramIn /\ PipeOut # DatagramOut
        /\ PipeOut \in Rules
    BY DEF PipeOut, PipeIn, DatagramIn, DatagramOut, Rules
  <2> QED BY <2>1 DEF Machine
<1>2. /\ UNCHANGED <<tcp, pc, phase, pipe, wire, abort, owner, put, got, why, fault>>
      /\ shut' = [shut EXCEPT !.outbound = @ \/ r = PipeIn]
      /\ loop' = Handled(Erase(loop, r), r)
  BY <1>1 DEF Cancel, ownerVars
<1>3. shut' = shut
  BY <1>1, <1>2 DEF Machine
<1>4. /\ loop' \in LoopType(Rules) /\ loop'.rules = loop.rules \ {r}
      /\ loop'.ready = loop.ready \ {r} /\ loop'.hung = loop.hung \ {r}
      /\ loop'.error = loop.error
  BY <1>1, <1>2, ErasedMembers
<1>5. Machine'
  BY <1>1, <1>2, <1>3, <1>4 DEF Machine
<1>6. GoodTcp(tcp') /\ Moved(tcp', tcp)
  BY <1>2, TcpMembers
<1>7. Crossing' /\ Told' /\ NoFault' /\ EofHonest'
  BY <1>1, <1>2, <1>3, <1>4, <1>6, PipeLeftAlone
<1>8. CleanExit'
  BY <1>2 DEF CleanExit
<1> QED BY <1>5, <1>6, <1>7, <1>8

\* A callback returns: the busy wait is excluded if it was serviced or if the rule is
\* not interested any more.
LEMMA ReturnStep ==
    ASSUME IndInv, pc = "dispatch", NEW r \in Rules, NEW serviced \in BOOLEAN,
           Return(r, serviced), serviced \/ ~ Interested(r, tcp', shut'),
           shut' \in [inbound : BOOLEAN, outbound : BOOLEAN], wire' \in BOOLEAN
    PROVE  /\ UNCHANGED <<fault, pc, phase, why, abort, owner, put, got>>
           /\ loop'.rules = loop.rules /\ loop'.hung = loop.hung \ {r}
           /\ Machine' /\ CleanExit'
<1> USE DEF IndInv
<1>1. UNCHANGED <<fault, pc, phase, why, abort, owner, put, got>> /\ loop' = Handled(loop, r)
  BY DEF Return, BusyWait, ownerVars
<1>2. loop \in LoopType(Rules)
  BY DEF Machine
<1>3. /\ loop' \in LoopType(Rules) /\ loop'.rules = loop.rules
      /\ loop'.ready = loop.ready \ {r} /\ loop'.hung = loop.hung \ {r}
      /\ loop'.error = loop.error
  BY <1>1, <1>2, HandledMembers
<1>4. Machine'
  BY <1>1, <1>3 DEF Machine
<1>5. CleanExit'
  BY <1>1 DEF CleanExit, Machine
<1> QED BY <1>1, <1>3, <1>4, <1>5

\* Rules 1 and 4: the connection receives or sends, the pipe is left alone.
LEMMA DatagramStep ==
    ASSUME IndInv, pc = "dispatch", ReadDatagram \/ WriteDatagrams
    PROVE  IndInv'
<1> USE DEF IndInv
<1>0. DatagramIn \in Rules /\ DatagramOut \in Rules
  BY DEF Rules, DatagramIn, DatagramOut
<1>1. shut \in [inbound : BOOLEAN, outbound : BOOLEAN] /\ wire \in BOOLEAN
  BY DEF Machine
<1>2. /\ GoodTcp(tcp') /\ Moved(tcp', tcp) /\ UNCHANGED <<pipe, shut>> /\ wire' \in BOOLEAN
      /\ \E r \in Rules, serviced \in BOOLEAN :
             Return(r, serviced) /\ (serviced \/ ~ Interested(r, tcp', shut'))
  <2>1. CASE ReadDatagram
    <3>1. /\ tcp' \in {tcp} \cup AfterSegment(tcp) /\ UNCHANGED <<pipe, shut>> /\ wire' = FALSE
          /\ Return(DatagramIn, TRUE)
      BY <2>1 DEF ReadDatagram
    <3>2. GoodTcp(tcp') /\ Moved(tcp', tcp)
      BY <3>1, AfterSegmentGood
    <3> QED BY <1>0, <3>1, <3>2
  <2>2. CASE WriteDatagrams
    <3>1. /\ tcp' = [tcp EXCEPT !.segs = 0] /\ UNCHANGED <<pipe, shut, wire>>
          /\ \E serviced \in BOOLEAN : Return(DatagramOut, serviced)
      BY <2>2 DEF WriteDatagrams, LeftAfterSend
    <3>2. tcp' = [active |-> tcp.active, opening |-> tcp.opening, out |-> tcp.out,
                  inb |-> tcp.inb, segs |-> 0]
      BY <3>1 DEF GoodTcp
    <3>3. /\ tcp'.active = tcp.active /\ tcp'.opening = tcp.opening /\ tcp'.out = tcp.out
          /\ tcp'.inb = tcp.inb /\ tcp'.segs = 0 /\ 0 \in 0 .. MaxSegs
      BY <3>2, SocketAssumption
    <3>4. GoodTcp(tcp') /\ Moved(tcp', tcp)
      BY <3>2, <3>3 DEF GoodTcp, Moved, MovedIn
    <3>5. ~ Interested(DatagramOut, tcp', shut')
      <4>1. DatagramOut # DatagramIn /\ DatagramOut # PipeIn /\ DatagramOut # PipeOut
        BY DEF DatagramOut, DatagramIn, PipeIn, PipeOut
      <4> QED BY <3>3, <4>1 DEF Interested
    <3> QED BY <1>0, <1>1, <3>1, <3>4, <3>5
  <2> QED BY <2>1, <2>2
<1>3. PICK r \in Rules, serviced \in BOOLEAN :
          Return(r, serviced) /\ (serviced \/ ~ Interested(r, tcp', shut'))
  BY <1>2
<1>4. /\ UNCHANGED <<fault, pc, phase, why, abort, owner, put, got>>
      /\ loop'.rules = loop.rules /\ loop'.hung = loop.hung \ {r}
      /\ Machine' /\ CleanExit'
  BY <1>1, <1>2, <1>3, ReturnStep
<1>5. Crossing' /\ Told' /\ NoFault' /\ EofHonest'
  BY <1>2, <1>4, PipeLeftAlone
<1> QED BY <1>2, <1>4, <1>5

\* Rule 2: bytes go from the pipe into the outbound stream; at the end of the pipe the
\* stream ends.
LEMMA ReadPipeStep ==
    ASSUME IndInv, pc = "dispatch", ReadPipe
    PROVE  IndInv'
<1> USE DEF IndInv
<1>0. OutCap \in Nat
  BY SocketAssumption
<1>1. PICK room \in Nat, w \in Nat, len \in Nat :
          /\ room = tcp.out.capacity /\ w = tcp.out.writtensize /\ len = Len(pipe.down)
          /\ Bytes(pipe.down, w, len) /\ w + len = put
  <2>1. PICK o : o = tcp.out /\ Buffered(o, OutCap)
    BY TcpMembers
  <2>2. o.capacity \in Nat /\ o.writtensize \in Nat
    BY <1>0, <2>1, BufferedMembers
  <2>3. Len(pipe.down) \in Nat
    BY DEF Crossing, Bytes
  <2> QED BY <2>1, <2>2, <2>3 DEF Crossing
<1>2. PICK n \in Nat : n = MinOf(len, room) /\ n <= len /\ n <= room
  BY <1>1 DEF MinOf
<1>3. PICK data : data = SubSeq(pipe.down, 1, n) /\ Bytes(data, w, n)
  <2>1. Bytes(SubSeq(pipe.down, 0 + 1, 0 + n), w + 0, n)
    <3>1. 0 \in Nat /\ 0 + n <= len
      BY <1>2
    <3> QED BY <1>1, <1>2, <3>1, BytesSubSeq
  <2>2. 0 + 1 = 1 /\ 0 + n = n /\ w + 0 = w
    BY <1>2
  <2> QED BY <2>1, <2>2
<1>4. PICK eof \in BOOLEAN : eof <=> n = 0 /\ tcp.out.capacity > 0
  OBVIOUS
<1>5. /\ pipe' = [pipe EXCEPT !.down = SubSeq(@, n + 1, Len(@)), !.eof = @ \/ eof]
      /\ shut' = [shut EXCEPT !.outbound = @ \/ eof]
      /\ \E c \in AfterWrite(tcp, data) : tcp' \in IF eof THEN AfterEndInput(c) ELSE {c}
      /\ UNCHANGED wire
      /\ WriteSize(tcp.out, data) = n => Return(PipeIn, TRUE)
  <2>1. n = MinOf(Len(pipe.down), tcp.out.capacity) /\ data = SubSeq(pipe.down, 1, n)
    BY <1>1, <1>2, <1>3
  <2>2. eof = (n = 0 /\ tcp.out.capacity > 0)
    BY <1>4
  <2> QED BY <2>1, <2>2 DEF ReadPipe
<1>6. WriteSize(tcp.out, data) = n
  <2>1. Len(data) = n
    BY <1>3 DEF Bytes
  <2> QED BY <1>1, <1>2, <2>1 DEF WriteSize, MinOf
<1>7. PICK c \in AfterWrite(tcp, data) : tcp' \in IF eof THEN AfterEndInput(c) ELSE {c}
  BY <1>5
<1>8. GoodTcp(c) /\ MovedIn(c, tcp) /\ c.out.writtensize = w + n
  BY <1>1, <1>2, <1>3, AfterWriteGood
<1>9. GoodTcp(tcp') /\ MovedIn(tcp', tcp) /\ tcp'.out.writtensize = w + n
  <2>1. GoodTcp(tcp') /\ Moved(tcp', c)
    <3>1. CASE eof
      BY <1>7, <1>8, <3>1, AfterEndInputGood
    <3>2. CASE ~ eof
      BY <1>7, <1>8, <3>2, TcpMembers
    <3> QED BY <3>1, <3>2
  <2> QED BY <1>8, <2>1, MovedTrans DEF Moved
<1>10. /\ shut' \in [inbound : BOOLEAN, outbound : BOOLEAN] /\ shut'.inbound = shut.inbound
       /\ wire' \in BOOLEAN
  BY <1>5 DEF Machine
<1>11. /\ UNCHANGED <<fault, pc, phase, why, abort, owner, put, got>>
       /\ loop'.rules = loop.rules /\ loop'.hung = loop.hung \ {PipeIn}
       /\ Machine' /\ CleanExit'
  <2>1. PipeIn \in Rules
    BY DEF PipeIn, Rules
  <2>2. Return(PipeIn, TRUE)
    BY <1>5, <1>6
  <2> QED BY <1>10, <2>1, <2>2, ReturnStep
<1>12. PICK rest : rest = SubSeq(pipe.down, n + 1, Len(pipe.down)) /\ Bytes(rest, w + n, len - n)
  <2>1. len - n \in Nat /\ n + (len - n) = len
    BY <1>1, <1>2
  <2>2. Bytes(SubSeq(pipe.down, n + 1, n + (len - n)), w + n, len - n)
    BY <1>1, <1>2, <2>1, BytesSubSeq
  <2> QED BY <1>1, <2>1, <2>2
<1>13. /\ pipe' \in PipeType /\ pipe'.down = rest /\ pipe'.up = pipe.up
       /\ pipe'.upShut = pipe.upShut /\ pipe'.closed = pipe.closed
  <2>1. rest \in Seq(Nat) /\ pipe \in PipeType
    BY <1>12 DEF Bytes, Crossing
  <2> QED BY <1>5, <1>12, <2>1 DEF PipeType
<1>14. Crossing'
  <2>1. Len(rest) = len - n
    BY <1>12 DEF Bytes
  <2>2. (w + n) + (len - n) = put
    BY <1>1, <1>2, SMTT(20)
  <2>3. tcp'.inb.readsize = tcp.inb.readsize
    BY <1>9 DEF MovedIn
  <2> QED BY <1>9, <1>11, <1>12, <1>13, <2>1, <2>2, <2>3 DEF Crossing
<1>15. /\ (tcp.inb.error => tcp'.inb.error) /\ (Eof(tcp.inb) => Eof(tcp'.inb))
       /\ (tcp.inb.end => tcp'.inb.end /\ tcp'.inb.writtensize = tcp.inb.writtensize)
  BY <1>9, OverStays DEF MovedIn
<1>16. Told'
  BY <1>10, <1>11, <1>13, <1>15 DEF Told
<1>17. NoFault' /\ EofHonest'
  BY <1>11, <1>13, <1>15 DEF NoFault, EofHonest, Machine
<1> QED BY <1>9, <1>11, <1>14, <1>16, <1>17

\* Rule 3: bytes go from the inbound stream into the pipe, and the pipe is shut down
\* behind the last one.
LEMMA WritePipeStep ==
    ASSUME IndInv, pc = "dispatch", WritePipe
    PROVE  IndInv'
<1> USE DEF IndInv
<1>0. InCap \in Nat /\ PipeCap \in Nat
  BY SocketAssumption
<1>1. PICK b : b = tcp.inb /\ Buffered(b, InCap)
  BY TcpMembers
<1>2. /\ b.que \in Seq(Nat) /\ Len(b.que) \in Nat /\ b.readsize \in Nat /\ b.writtensize \in Nat
      /\ b.writtensize = b.readsize + Len(b.que) /\ b.error \in BOOLEAN /\ b.end \in BOOLEAN
  BY <1>0, <1>1, BufferedMembers
<1>3. CASE pipe.upShut /\ Len(b.que) > 0
  <2>1. /\ fault' = "broken pipe" /\ pc' = "dead"
        /\ UNCHANGED <<tcp, loop, phase, pipe, shut, wire, why, abort, owner, put, got>>
    BY <1>1, <1>3 DEF WritePipe, BufferSize, Fail, ownerVars
  <2>2. tcp.inb.error
    <3>1. ~ Eof(b)
      BY <1>2, <1>3 DEF Eof
    <3> QED BY <1>1, <1>3, <3>1 DEF Told
  <2>3. Machine'
    BY <2>1 DEF Machine
  <2>4. Crossing' /\ GoodTcp(tcp)'
    BY <2>1 DEF Crossing
  <2>5. Told' /\ NoFault' /\ EofHonest' /\ CleanExit'
    BY <2>1, <2>2 DEF Told, NoFault, EofHonest, CleanExit, Eof
  <2> QED BY <2>3, <2>4, <2>5
<1>4. CASE ~ (pipe.upShut /\ Len(b.que) > 0)
  <2>1. PICK u \in Nat : u = PipeCap - Len(pipe.up) /\ Len(pipe.up) \in Nat
    <3>1. Len(pipe.up) \in Nat /\ Len(pipe.up) <= PipeCap
      BY DEF Crossing, PipeType
    <3>2. PipeCap - Len(pipe.up) \in Nat
      BY <1>0, <3>1
    <3> QED BY <3>1, <3>2
  <2>2. PICK w, v : w = MinOf(Len(b.que), u) /\ v = PopOutput(b, w)
    OBVIOUS
  <2>3. PICK over \in BOOLEAN : over <=> InboundOver(v)
    OBVIOUS
  <2>4. /\ tcp' = [tcp EXCEPT !.inb = v]
        /\ pipe' = [pipe EXCEPT !.up = @ \o SubSeq(b.que, 1, w), !.upShut = @ \/ over]
        /\ shut' = [shut EXCEPT !.inbound = @ \/ over]
        /\ UNCHANGED wire /\ Return(PipeOut, TRUE)
    <3>1. /\ Len(b.que) = BufferSize(tcp.inb) /\ w = MinOf(BufferSize(tcp.inb), PipeCap - Len(pipe.up))
          /\ v = PopOutput(tcp.inb, Popped(BufferSize(tcp.inb), w))
      BY <1>1, <2>1, <2>2 DEF BufferSize, Popped
    <3>2. ~ (pipe.upShut /\ BufferSize(tcp.inb) > 0)
      BY <1>4, <3>1
    <3>3. /\ tcp' = [tcp EXCEPT !.inb = v]
          /\ pipe' = [pipe EXCEPT !.up = @ \o SubSeq(tcp.inb.que, 1, w), !.upShut = @ \/ InboundOver(v)]
          /\ shut' = [shut EXCEPT !.inbound = @ \/ InboundOver(v)]
          /\ UNCHANGED wire /\ Return(PipeOut, TRUE)
      BY <3>1, <3>2 DEF WritePipe
    <3>4. InboundOver(v) \in BOOLEAN
      BY DEF InboundOver
    <3> QED BY <1>1, <2>3, <3>3, <3>4
  <2>5. w \in Nat /\ w <= Len(b.que) /\ Len(pipe.up) + w <= PipeCap
    <3>1. w \in Nat /\ w <= Len(b.que) /\ w <= u
      BY <1>2, <2>2 DEF MinOf
    <3>2. Len(pipe.up) + u = PipeCap
      BY <1>0, <2>1
    <3> QED BY <1>0, <2>1, <3>1, <3>2
  <2>6. /\ Buffered(v, InCap) /\ SameFlags(v, b)
        /\ v.writtensize = b.writtensize /\ v.readsize = b.readsize + w
    <3>1. v = Read(b, w)
      BY <2>2 DEF Read
    <3>2. HasRead(v, b, MinOf(w, Len(b.que)), InCap)
      BY <1>0, <1>1, <2>5, <3>1, ReadBuffered
    <3>3. MinOf(w, Len(b.que)) = w
      BY <1>2, <2>5 DEF MinOf
    <3> QED BY <3>2, <3>3 DEF HasRead
  <2>7. Eof(b) => Eof(v)
    BY <1>2, <2>5, <2>6 DEF Eof, SameFlags
  <2>8. GoodTcp(tcp') /\ tcp'.inb = v /\ tcp'.out = tcp.out
    <3>1. b.maximumcapacity = InCap /\ b.writtensize <= InLen
      BY <1>1, TcpMembers
    <3>2. v.maximumcapacity = InCap /\ v.writtensize <= InLen /\ v.error = b.error /\ v.end = b.end
      BY <2>6, <3>1 DEF SameFlags
    <3> QED BY <1>1, <2>4, <2>6, <3>2, InChanged
  <2>9. /\ shut' \in [inbound : BOOLEAN, outbound : BOOLEAN] /\ wire' \in BOOLEAN
        /\ (shut'.inbound <=> shut.inbound \/ over)
    BY <2>4 DEF Machine
  <2>10. /\ UNCHANGED <<fault, pc, phase, why, abort, owner, put, got>>
         /\ loop'.rules = loop.rules /\ loop'.hung = loop.hung \ {PipeOut}
         /\ Machine' /\ CleanExit'
    <3>1. PipeOut \in Rules
      BY DEF PipeOut, Rules
    <3> QED BY <2>4, <2>9, <3>1, ReturnStep
  <2>11. PICK part : part = SubSeq(b.que, 1, w) /\ Bytes(part, b.readsize, w)
    <3>1. PICK R, l : R = b.readsize /\ l = Len(b.que) /\ R \in Nat /\ l \in Nat
                      /\ Bytes(b.que, R, l)
      BY <1>1, <1>2 DEF Buffered
    <3>2. 0 \in Nat /\ 0 + w <= l
      BY <2>5, <3>1
    <3>3. Bytes(SubSeq(b.que, 0 + 1, 0 + w), R + 0, w)
      BY <2>5, <3>1, <3>2, BytesSubSeq
    <3>4. 0 + 1 = 1 /\ 0 + w = w /\ R + 0 = R
      BY <2>5, <3>1
    <3> QED BY <3>1, <3>3, <3>4
  <2>12. Bytes(pipe.up \o part, got, Len(pipe.up) + w)
    <3>1. Bytes(pipe.up, got, Len(pipe.up)) /\ got + Len(pipe.up) = b.readsize /\ got \in Nat
      BY <1>1 DEF Crossing
    <3>2. Bytes(part, got + Len(pipe.up), w)
      BY <2>11, <3>1
    <3> QED BY <2>1, <2>5, <3>1, <3>2, BytesConcat
  <2>13. /\ pipe' \in PipeType /\ pipe'.up = pipe.up \o part /\ pipe'.down = pipe.down
         /\ pipe'.closed = pipe.closed /\ (pipe'.upShut <=> pipe.upShut \/ over)
    <3>1. pipe.up \o part \in Seq(Nat) /\ pipe \in PipeType
      BY <2>12 DEF Bytes, Crossing
    <3> QED BY <2>4, <2>11, <3>1 DEF PipeType
  <2>14. Crossing'
    <3>1. Len(pipe'.up) = Len(pipe.up) + w
      BY <2>12, <2>13 DEF Bytes
    <3>2. got + (Len(pipe.up) + w) = b.readsize + w
      <4>1. got + Len(pipe.up) = b.readsize /\ got \in Nat
        BY <1>1 DEF Crossing
      <4> QED BY <2>1, <2>5, <4>1
    <3> QED BY <2>5, <2>6, <2>8, <2>10, <2>12, <2>13, <3>1, <3>2 DEF Crossing
  <2>15. Told'
    <3>1. pipe'.upShut => v.error \/ Eof(v)
      <4>1. pipe.upShut => b.error \/ Eof(b)
        BY <1>1 DEF Told
      <4> QED BY <2>3, <2>6, <2>7, <2>13, <4>1 DEF InboundOver, SameFlags
    <3> QED BY <2>8, <2>9, <2>10, <2>13, <3>1 DEF Told
  <2>16. NoFault' /\ EofHonest'
    BY <1>1, <2>6, <2>8, <2>10, <2>13 DEF NoFault, EofHonest, Machine, SameFlags
  <2> QED BY <2>8, <2>10, <2>14, <2>15, <2>16
<1> QED BY <1>3, <1>4

\* One answer of poll(2) is gone through.
LEMMA DispatchStep ==
    ASSUME IndInv, Dispatch
    PROVE  IndInv'
<1>1. pc = "dispatch" /\ ~ AllHandled(loop) /\ loop \in LoopType(Rules) /\ loop.error = {}
  BY DEF Dispatch, IndInv, Machine
<1>2. PICK r \in loop.ready \cup loop.hung : r = Current(loop)
  <2>1. Rules \subseteq Nat
    BY DEF Rules
  <2> QED BY <1>1, <2>1, CurrentAnswer
<1>3. IF r \in loop.hung THEN Cancel(r) ELSE Callback(r)
  BY <1>2 DEF Dispatch
<1>4. CASE r \in loop.hung
  BY <1>1, <1>3, <1>4, CancelStep
<1>5. CASE r \notin loop.hung
  BY <1>1, <1>3, <1>5, DatagramStep, ReadPipeStep, WritePipeStep DEF Callback
<1> QED BY <1>4, <1>5

\* All answers have been gone through: tick(), or the end that the destructor wants.
LEMMA AfterEventsStep ==
    ASSUME IndInv, AfterEvents
    PROVE  IndInv'
<1> USE DEF IndInv
<1>1. /\ pc = "dispatch" /\ UNCHANGED <<loop, pipe, shut, abort, wire, put, got, fault>>
      /\ loop.ready = {} /\ loop.hung = {} /\ loop.error = {} /\ why = "running"
      /\ loop \in LoopType(Rules) /\ shut \in [inbound : BOOLEAN, outbound : BOOLEAN]
  BY DEF AfterEvents, AllHandled, Machine
<1>2. /\ GoodTcp(tcp') /\ Moved(tcp', tcp)
      /\ Machine' /\ (owner' = "eof" => owner = "eof") /\ why' # "exit"
  <2>1. CASE abort
    <3>1. tcp' = tcp /\ Leave("abort")
      BY <2>1 DEF AfterEvents
    <3>2. Machine' /\ (owner' = "eof" => owner = "eof") /\ (why' = why \/ why' = "abort")
      BY <1>1, <2>1, <3>1, LeaveStep
    <3> QED BY <1>1, <3>1, <3>2, TcpMembers
  <2>2. CASE ~ abort
    <3>1. /\ tcp' \in {tcp} \cup AfterTick(tcp)
          /\ pc' = "setup" /\ UNCHANGED <<phase, owner, why>>
      BY <2>2 DEF AfterEvents
    <3>2. GoodTcp(tcp') /\ Moved(tcp', tcp)
      BY <3>1, AfterTickGood
    <3>3. Machine'
      BY <1>1, <3>1 DEF Machine
    <3> QED BY <1>1, <3>1, <3>2, <3>3
  <2> QED BY <2>1, <2>2
<1>3. Crossing' /\ Told' /\ NoFault' /\ EofHonest'
  BY <1>1, <1>2, PipeLeftAlone
<1>4. CleanExit'
  BY <1>2 DEF CleanExit
<1> QED BY <1>2, <1>3, <1>4

\* The end of _tcp_main().
LEMMA FinishStep ==
    ASSUME IndInv, Finish
    PROVE  IndInv'
<1> USE DEF IndInv
<1>1. /\ pc = "main" /\ why # "running"
      /\ UNCHANGED <<tcp, loop, phase, shut, wire, abort, owner, put, got, why>>
  BY DEF Finish, ownerVars, Machine
<1>2. \/ pipe.closed /\ fault' = "bad descriptor" /\ pc' = "dead" /\ pipe' = pipe
      \/ pc' = "done" /\ pipe' = ShutBoth(pipe) /\ fault' = fault
  BY DEF Finish, Fail
<1>3. /\ pipe' \in PipeType /\ pipe'.up = pipe.up /\ pipe'.down = pipe.down
      /\ pipe'.closed = pipe.closed
      /\ pipe'.upShut = pipe.upShut \/ (pipe'.upShut = TRUE /\ pc' = "done")
  <2>1. pipe \in PipeType
    BY DEF Crossing
  <2> QED BY <1>2, <2>1 DEF ShutBoth, PipeType
<1>4. Machine'
  BY <1>1, <1>2, ZenonT(40) DEF Machine
<1>5. GoodTcp(tcp)'
  BY <1>1
<1>6. Crossing'
  BY <1>1, <1>3 DEF Crossing
<1>7. Told'
  <2>1. pipe.upShut => tcp.inb.error \/ Eof(tcp.inb)
    BY <1>1 DEF Told
  <2>2. why = "exit" => pipe.upShut
    BY DEF CleanExit
  <2>3. why \in {"exit", "abort", "signal"}
    BY <1>1 DEF Machine
  <2>4. Eof(tcp.inb)' = Eof(tcp.inb)
    BY <1>1
  <2> QED BY <1>1, <1>3, <2>1, <2>2, <2>3, <2>4 DEF Told
<1>8. NoFault'
  BY <1>1, <1>2, <1>3 DEF NoFault
<1>9. EofHonest' /\ CleanExit'
  BY <1>1, <1>2, <1>3 DEF EofHonest, CleanExit
<1> QED BY <1>4, <1>5, <1>6, <1>7, <1>8, <1>9

\* What the loop sees of a step of the owner.
LEMMA MachineKept ==
    ASSUME Machine, UNCHANGED <<loop, pc, phase, shut, why, fault>>,
           owner' \in {"blocked", "using", "eof", "closed", "joining", "gone"},
           abort' \in BOOLEAN, wire' \in BOOLEAN, abort => abort',
           phase = "handshake" => owner' = "blocked",
           abort' => owner' \in {"joining", "gone"}
    PROVE  Machine'
BY ZenonT(40) DEF Machine

\* The owner writes.
LEMMA OwnerWriteStep ==
    ASSUME IndInv, OwnerWrite
    PROVE  IndInv'
<1> USE DEF IndInv
<1>1. /\ UNCHANGED <<tcp, loop, pc, phase, shut, wire, why, fault, abort, owner, got>>
      /\ pipe' = [pipe EXCEPT !.down = Append(@, put)] /\ put' = put + 1 /\ put < OutLen
  BY DEF OwnerWrite, loopVars
<1>2. PICK w \in Nat, len \in Nat :
          /\ w = tcp.out.writtensize /\ len = Len(pipe.down)
          /\ Bytes(pipe.down, w, len) /\ w + len = put
  <2>0. OutCap \in Nat
    BY SocketAssumption
  <2>1. PICK o : o = tcp.out /\ Buffered(o, OutCap)
    BY TcpMembers
  <2>2. o.writtensize \in Nat
    BY <2>0, <2>1, BufferedMembers
  <2>3. Len(pipe.down) \in Nat
    BY DEF Crossing, Bytes
  <2> QED BY <2>1, <2>2, <2>3 DEF Crossing
<1>3. Bytes(Append(pipe.down, put), w, len + 1)
  <2>1. PICK q, k : q = pipe.down /\ k = put
    OBVIOUS
  <2>2. q \in Seq(Nat) /\ Len(q) = len /\ k = w + len /\ \A i \in 1 .. len : q[i] = w + i - 1
    BY <1>2, <2>1 DEF Bytes
  <2>3. /\ Append(q, k) \in Seq(Nat) /\ Len(Append(q, k)) = len + 1
        /\ Append(q, k)[len + 1] = k /\ \A i \in 1 .. len : Append(q, k)[i] = q[i]
    BY <2>2
  <2>4. \A i \in 1 .. len + 1 : Append(q, k)[i] = w + i - 1
    BY <2>2, <2>3
  <2> QED BY <2>1, <2>3, <2>4 DEF Bytes
<1>4. /\ pipe' \in PipeType /\ pipe'.down = Append(pipe.down, put) /\ pipe'.up = pipe.up
      /\ pipe'.upShut = pipe.upShut /\ pipe'.closed = pipe.closed
  <2>1. Append(pipe.down, put) \in Seq(Nat) /\ pipe \in PipeType
    BY <1>3 DEF Bytes, Crossing
  <2> QED BY <1>1, <2>1 DEF PipeType
<1>5. Crossing'
  <2>1. Len(pipe'.down) = len + 1
    BY <1>3, <1>4 DEF Bytes
  <2>2. w + (len + 1) = put + 1 /\ put + 1 \in 0 .. OutLen
    <3>1. w \in Nat /\ len \in Nat /\ w + len = put /\ put < OutLen /\ OutLen \in Nat
      BY <1>1, <1>2, SocketAssumption
    <3> QED BY <3>1
  <2> QED BY <1>1, <1>2, <1>3, <1>4, <2>1, <2>2 DEF Crossing
<1>6. Machine' /\ GoodTcp(tcp)'
  <2>1. UNCHANGED <<tcp, loop, pc, phase, shut, wire, why, fault, abort, owner>>
    BY <1>1
  <2>2. /\ owner \in {"blocked", "using", "eof", "closed", "joining", "gone"}
        /\ abort \in BOOLEAN /\ wire \in BOOLEAN
        /\ (phase = "handshake" => owner = "blocked")
        /\ (abort => owner \in {"joining", "gone"})
    BY DEF Machine
  <2>3. /\ owner' \in {"blocked", "using", "eof", "closed", "joining", "gone"}
        /\ abort' \in BOOLEAN /\ wire' \in BOOLEAN /\ (abort => abort')
        /\ (phase = "handshake" => owner' = "blocked")
        /\ (abort' => owner' \in {"joining", "gone"})
    BY <2>1, <2>2, Zenon
  <2>4. Machine'
    BY <2>1, <2>3, MachineKept
  <2> QED BY <2>1, <2>4
<1>7. Told' /\ NoFault' /\ EofHonest' /\ CleanExit'
  BY <1>1, <1>4 DEF Told, NoFault, EofHonest, CleanExit, Eof
<1> QED BY <1>5, <1>6, <1>7

\* The owner reads bytes, or the end behind the last of them.
LEMMA OwnerReadStep ==
    ASSUME IndInv, OwnerRead
    PROVE  IndInv'
<1> USE DEF IndInv
<1>1. /\ UNCHANGED <<tcp, loop, pc, phase, shut, wire, why, fault, abort, put>>
      /\ owner = "using" /\ fault = "none"
  BY DEF OwnerRead, loopVars
<1>2. CASE /\ pipe.up # <<>> /\ pipe' = [pipe EXCEPT !.up = Tail(@)] /\ got' = got + 1
           /\ UNCHANGED owner
  <2>1. PICK len \in Nat : /\ len = Len(pipe.up) /\ Bytes(pipe.up, got, len) /\ len > 0
                           /\ got + len = tcp.inb.readsize /\ got \in Nat /\ len <= PipeCap
    <3>1. PICK len : len = Len(pipe.up)
      OBVIOUS
    <3>2. pipe.up \in Seq(Nat) /\ pipe.up # <<>>
      BY <1>2 DEF Crossing, Bytes
    <3>3. len \in Nat /\ len > 0
      BY <3>1, <3>2
    <3> QED BY <3>1, <3>3 DEF Crossing
  <2>2. Bytes(Tail(pipe.up), got + 1, len - 1)
    BY <2>1 DEF Bytes
  <2>3. /\ pipe' \in PipeType /\ pipe'.up = Tail(pipe.up) /\ pipe'.down = pipe.down
        /\ pipe'.upShut = pipe.upShut /\ pipe'.closed = pipe.closed
    <3>1. Tail(pipe.up) \in Seq(Nat) /\ pipe \in PipeType
      BY <2>2 DEF Bytes, Crossing
    <3> QED BY <1>2, <3>1 DEF PipeType
  <2>4. Crossing'
    <3>1. Len(pipe'.up) = len - 1
      BY <2>2, <2>3 DEF Bytes
    <3>2. (got + 1) + (len - 1) = got + len /\ got + 1 \in Nat /\ len - 1 <= PipeCap
      <4>1. got \in Nat /\ len \in Nat /\ len > 0 /\ len <= PipeCap /\ PipeCap \in Nat
        BY <2>1, SocketAssumption
      <4> QED BY <4>1
    <3> QED BY <1>1, <1>2, <2>1, <2>2, <2>3, <3>1, <3>2 DEF Crossing
  <2>5. Machine' /\ GoodTcp(tcp)'
    BY <1>1, <1>2 DEF Machine
  <2>6. Told' /\ NoFault' /\ EofHonest' /\ CleanExit'
    BY <1>1, <1>2, <2>3 DEF Told, NoFault, EofHonest, CleanExit, Eof
  <2> QED BY <2>4, <2>5, <2>6
<1>3. CASE pipe.up = <<>> /\ pipe.upShut /\ owner' = "eof" /\ UNCHANGED <<pipe, got>>
  <2>1. got = tcp.inb.readsize
    <3>1. Len(pipe.up) = 0 /\ got \in Nat
      BY <1>3 DEF Crossing
    <3> QED BY <3>1 DEF Crossing
  <2>2. ~ abort
    BY <1>1 DEF Machine
  <2>3. tcp.inb.error \/ Eof(tcp.inb) \/ why = "signal"
    BY <1>3, <2>2 DEF Told, Machine
  <2>4. Machine' /\ GoodTcp(tcp)' /\ Crossing'
    <3>1. phase # "handshake"
      BY <1>1 DEF Machine
    <3> QED BY <1>1, <1>3, <2>2, <3>1 DEF Machine, Crossing
  <2>5. EofHonest'
    BY <1>1, <1>3, <2>1, <2>3 DEF EofHonest, Eof
  <2>6. Told' /\ NoFault' /\ CleanExit'
    BY <1>1, <1>3 DEF Told, NoFault, CleanExit, Eof
  <2> QED BY <2>4, <2>5, <2>6
<1> QED BY <1>2, <1>3 DEF OwnerRead

\* The owner shuts its end down or closes it, leaves or returns; a datagram arrives.
LEMMA OtherStep ==
    ASSUME IndInv,
           \/ OwnerShutWrite \/ OwnerWait \/ OwnerClose \/ OwnerDestroy \/ OwnerJoin
           \/ Arrival \/ UNCHANGED vars
    PROVE  IndInv'
<1> USE DEF IndInv
<1>1. /\ UNCHANGED <<tcp, loop, pc, phase, shut, why, fault, put, got>>
      /\ wire' = wire \/ wire' = TRUE
      /\ \/ owner' = owner /\ abort' = abort
         \/ owner' = "joining" /\ phase # "handshake" /\ (abort' = abort \/ abort' = TRUE)
         \/ owner' = "closed" /\ phase # "handshake" /\ ~ abort /\ abort' = abort
         \/ owner' = "gone" /\ owner = "joining" /\ abort' = abort
      /\ \/ pipe' = pipe
         \/ pipe' = [pipe EXCEPT !.downShut = TRUE]
         \/ owner = "eof" /\ pipe' = ShutBoth(pipe)
         \/ owner = "eof" /\ pipe' = [ShutBoth(pipe) EXCEPT !.closed = TRUE]
  BY DEF OwnerShutWrite, OwnerWait, OwnerClose, OwnerDestroy, OwnerJoin, Arrival, vars,
         loopVars, ownerVars, Machine
<1>2. /\ pipe' \in PipeType /\ pipe'.up = pipe.up /\ pipe'.down = pipe.down
      /\ pipe'.upShut = pipe.upShut /\ (pipe.closed => pipe'.closed)
  <2>1. pipe \in PipeType /\ (owner = "eof" => pipe.upShut)
    BY DEF Crossing, Told
  <2> QED BY <1>1, <2>1 DEF ShutBoth, PipeType
<1>3. Machine'
  <2>1. /\ owner' \in {"blocked", "using", "eof", "closed", "joining", "gone"}
        /\ abort' \in BOOLEAN /\ wire' \in BOOLEAN
        /\ (phase = "handshake" => owner' = "blocked")
        /\ (abort' => owner' \in {"joining", "gone"})
        /\ (abort => abort')
    <3>0. wire' = wire \/ wire' = TRUE
      BY <1>1
    <3>1. /\ owner \in {"blocked", "using", "eof", "closed", "joining", "gone"}
          /\ abort \in BOOLEAN /\ wire \in BOOLEAN
          /\ (phase = "handshake" => owner = "blocked")
          /\ (abort => owner \in {"joining", "gone"})
      BY DEF Machine
    <3>2. CASE owner' = owner /\ abort' = abort
      BY <3>0, <3>1, <3>2, Zenon
    <3>3. CASE owner' = "joining" /\ phase # "handshake" /\ (abort' = abort \/ abort' = TRUE)
      <4>1. wire' \in BOOLEAN
        BY <3>0, <3>1, Zenon
      <4>2. CASE abort' = abort
        BY <3>1, <3>3, <4>1, <4>2, Zenon
      <4>3. CASE abort' = TRUE
        BY <3>3, <4>1, <4>3
      <4> QED BY <3>3, <4>2, <4>3
    <3>4. CASE owner' = "closed" /\ phase # "handshake" /\ ~ abort /\ abort' = abort
      BY <3>0, <3>1, <3>4, Zenon
    <3>5. CASE owner' = "gone" /\ owner = "joining" /\ abort' = abort
      <4>1. phase # "handshake"
        BY <3>1, <3>5
      <4> QED BY <3>0, <3>1, <3>5, <4>1, Zenon
    <3> QED BY <1>1, <3>2, <3>3, <3>4, <3>5, Zenon
  <2>2. UNCHANGED <<loop, pc, phase, shut, why, fault>>
    BY <1>1
  <2> QED BY <2>1, <2>2, MachineKept
<1>4. Crossing' /\ GoodTcp(tcp)'
  BY <1>1, <1>2 DEF Crossing
<1>5. Told' /\ NoFault' /\ EofHonest' /\ CleanExit'
  BY <1>1, <1>2 DEF Told, NoFault, EofHonest, CleanExit, Eof
<1> QED BY <1>3, <1>4, <1>5

\* Every step keeps the invariant.
LEMMA NextInv == IndInv /\ [Next]_vars => IndInv'
BY BreakStep, PrepareStep, PollStep, DispatchStep, AfterEventsStep, FinishStep,
   OwnerWriteStep, OwnerReadStep, OtherStep DEF Next, Thread

LEMMA Invariance == Spec => []IndInv
BY InitInv, NextInv, PTL DEF Spec

-----------------------------------------------------------------------------
(* The theorems. *)

\* The type invariant, which says too that the owner never reads more bytes than the
\* peer has sent.
THEOREM TypeCorrect == Spec => []TypeOK
<1>1. IndInv => TypeOK
  <2> SUFFICES ASSUME IndInv PROVE TypeOK
    OBVIOUS
  <2> USE DEF IndInv
  <2>1. tcp \in TcpType
    BY DEF GoodTcp, TcpType, Buffered
  <2>2. got \in 0 .. InLen
    <3>0. InCap \in Nat /\ InLen \in Nat
      BY SocketAssumption
    <3>1. PICK b : b = tcp.inb /\ Buffered(b, InCap) /\ b.writtensize <= InLen
      BY TcpMembers
    <3>2. /\ b.readsize \in Nat /\ b.writtensize \in Nat /\ Len(b.que) \in Nat
          /\ b.writtensize = b.readsize + Len(b.que)
      BY <3>0, <3>1, BufferedMembers
    <3>3. got \in Nat /\ Len(pipe.up) \in Nat /\ got + Len(pipe.up) = b.readsize
      BY <3>1 DEF Crossing, PipeType
    <3> QED BY <3>0, <3>1, <3>2, <3>3
  <2>3. pipe \in PipeType /\ put \in 0 .. OutLen
    BY DEF Crossing
  <2> QED BY <2>1, <2>2, <2>3 DEF TypeOK, Machine
<1> QED BY <1>1, Invariance, PTL

\* Every byte is in exactly one place on its way through the thread, and in order.
THEOREM BytesCrossHolds == Spec => []BytesCross
<1>1. IndInv => BytesCross
  <2> SUFFICES ASSUME IndInv PROVE BytesCross
    OBVIOUS
  <2> USE DEF IndInv
  <2>0. InCap \in Nat /\ OutCap \in Nat
    BY SocketAssumption
  <2>1. tcp.out.que \o pipe.down = Excerpt(tcp.out.readsize, put)
    <3>1. PICK o : o = tcp.out /\ Buffered(o, OutCap)
      BY TcpMembers
    <3>2. PICK R \in Nat, l \in Nat, k \in Nat :
              /\ R = o.readsize /\ l = Len(o.que) /\ o.writtensize = R + l
              /\ k = Len(pipe.down)
      <4>1. Len(pipe.down) \in Nat
        BY DEF Crossing, PipeType
      <4> QED BY <2>0, <3>1, <4>1, BufferedMembers
    <3>3. Bytes(o.que, R, l)
      BY <3>1, <3>2 DEF Buffered
    <3>4. Bytes(pipe.down, R + l, k) /\ put = R + l + k
      BY <3>1, <3>2 DEF Crossing
    <3>5. o.que \o pipe.down = Excerpt(R, put)
      <4>1. PICK n \in Nat : n = l + k
        OBVIOUS
      <4>2. PICK s : s = o.que \o pipe.down /\ Bytes(s, R, n)
        BY <3>2, <3>3, <3>4, <4>1, BytesConcat
      <4>3. s = Excerpt(R, R + n)
        BY <4>2, ExcerptOfBytes
      <4>4. R + n = put
        BY <3>4, <4>1
      <4> QED BY <4>2, <4>3, <4>4
    <3> QED BY <3>1, <3>2, <3>5
  <2>2. pipe.up \o tcp.inb.que = Excerpt(got, tcp.inb.writtensize)
    <3>1. PICK b : b = tcp.inb /\ Buffered(b, InCap)
      BY TcpMembers
    <3>2. PICK R \in Nat, l \in Nat, k \in Nat :
              /\ R = b.readsize /\ l = Len(b.que) /\ b.writtensize = R + l
              /\ k = Len(pipe.up)
      <4>1. Len(pipe.up) \in Nat
        BY DEF Crossing, PipeType
      <4> QED BY <2>0, <3>1, <4>1, BufferedMembers
    <3>3. Bytes(b.que, R, l)
      BY <3>1, <3>2 DEF Buffered
    <3>4. got \in Nat /\ Bytes(pipe.up, got, k) /\ got + k = R
      BY <3>1, <3>2 DEF Crossing
    <3>5. pipe.up \o b.que = Excerpt(got, b.writtensize)
      <4>1. PICK n \in Nat : n = k + l
        OBVIOUS
      <4>2. PICK s : s = pipe.up \o b.que /\ Bytes(s, got, n)
        BY <3>2, <3>3, <3>4, <4>1, BytesConcat
      <4>3. s = Excerpt(got, got + n)
        BY <3>4, <4>2, ExcerptOfBytes
      <4>4. got + n = R + l
        BY <3>4, <4>1
      <4> QED BY <3>2, <4>2, <4>3, <4>4
    <3> QED BY <3>1, <3>5
  <2> QED BY <2>1, <2>2 DEF BytesCross
<1> QED BY <1>1, Invariance, PTL

\* No exception leaves the loop, but for the two that NoFault names.
THEOREM NoFaultHolds == Spec => []NoFault
BY Invariance, PTL DEF IndInv

\* The owner reads an end only at the end of the peer's stream, or of the connection or
\* the thread before it.
THEOREM EofHonestHolds == Spec => []EofHonest
BY Invariance, PTL DEF IndInv

\* A loop that ends for want of anything to poll leaves a connection that is over,
\* nothing to send and an owner who has been told.
THEOREM CleanExitHolds == Spec => []CleanExit
BY Invariance, PTL DEF IndInv
=============================================================================
