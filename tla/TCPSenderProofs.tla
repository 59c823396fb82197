-------------------------- MODULE TCPSenderProofs --------------------------
(***************************************************************************)
(* For every window, payload size, timeout, order of acknowledgments and   *)
(* stream shorter than half a lap of sequence numbers (SenderAssumption;   *)
(* 2 GiB in the code): the timer of a TCPSender runs exactly while         *)
(* something is outstanding and backs off as it counts, the sequence       *)
(* numbers it has used are SYN, the bytes read from the stream and FIN,    *)
(* what it keeps is the stretch of them that is not acknowledged, and it   *)
(* stays within the window.                                                *)
(*                                                                         *)
(* The inductive invariant Inv has three parts: SenderInv, what the        *)
(* members say of the timer and the counters; Layout, where the segments   *)
(* of _wait_ack lie in the sequence space; and Answered, how the sender    *)
(* stands to the peer and to the answers under way.                        *)
(***************************************************************************)
EXTENDS TCPSenderSpec, StreamLemmas

Seg == SegmentType(Nat, Uint32)

\* The members of a sender, without their types.
Shape(s) ==
    s = [isn |-> s.isn, segments_out |-> s.segments_out, stream |-> s.stream,
         next_seqno |-> s.next_seqno, window_sz |-> s.window_sz, ackno |-> s.ackno,
         flight_bytes |-> s.flight_bytes, set_fin |-> s.set_fin,
         wait_ack |-> s.wait_ack, timer |-> s.timer,
         consecutive_transmit_num |-> s.consecutive_transmit_num]

\* The types that the handlers rely on.
Typed(s) ==
    /\ s.isn \in Uint32
    /\ s.stream \in ByteStreamType(Nat)
    /\ s.next_seqno \in Nat /\ s.window_sz \in Nat /\ s.ackno \in Nat
    /\ s.set_fin \in BOOLEAN
    /\ s.segments_out \in Seq(Seg) /\ s.wait_ack \in Seq(Seg)
    /\ s.timer \in TimerType
    /\ s.consecutive_transmit_num \in Nat

\* RetransmissionArmed, SequenceAccounting and BackoffLaw, of any sender.
Armed(s) == /\ s.timer.active <=> s.wait_ack # <<>>
            /\ ~ s.timer.expired

Counted(s) ==
    /\ s.next_seqno = BoolToNat(s.next_seqno > 0) + s.stream.readsize + BoolToNat(s.set_fin)
    /\ s.set_fin => Eof(s.stream)

BackedOff(s) ==
    /\ s.timer.init_timeout = Rto
    /\ s.timer.timeout = Backoff[s.consecutive_transmit_num]

SenderInv(s) == Shape(s) /\ Typed(s) /\ Armed(s) /\ Counted(s) /\ BackedOff(s)

\* What the handlers that only look at the timer and the queue leave alone.
SameSpace(r, s) ==
    /\ r.isn = s.isn /\ r.stream = s.stream /\ r.next_seqno = s.next_seqno
    /\ r.flight_bytes = s.flight_bytes /\ r.set_fin = s.set_fin
    /\ r.wait_ack = s.wait_ack
    /\ r.window_sz = s.window_sz /\ r.ackno = s.ackno

\* wrap() gives a 32-bit number, unwrap() a natural one.
LEMMA WrapTypes ==
    ASSUME NEW n \in Nat, NEW i \in Nat, NEW c \in Nat
    PROVE  /\ wrap(n, i) \in Uint32
           /\ unwrap(n, i, c) \in Nat
<1>1. /\ Wrap32 \in Nat /\ Wrap32 > 0 /\ Wrap64 \in Nat /\ Wrap64 > 0
  BY WrapAssumption
<1>2. \A x \in Int : (x % Wrap32) \in 0 .. Wrap32 - 1 /\ (x % Wrap64) \in Nat
  BY <1>1
<1>3. \A m \in Nat : wrap(m, i) \in Uint32
  BY <1>1, <1>2 DEF wrap, Plus, Uint32
<1>4. PICK d \in Int : d = Minus(n, wrap(c, i))
  BY <1>1, <1>2, <1>3 DEF Minus, Uint32
<1>5. /\ ((c + d) % Wrap64) \in Nat
      /\ ((c - (Wrap32 - d)) % Wrap64) \in Nat
  <2>1. c + d \in Int /\ c - (Wrap32 - d) \in Int
    BY <1>1
  <2> QED BY <1>2, <2>1
<1> QED BY <1>3, <1>4, <1>5 DEF unwrap

\* The timeouts: Rto, and twice as much after every doubling.
LEMMA BackoffSteps ==
    /\ Backoff[0] = Rto
    /\ \A n \in Nat : Backoff[n] \in Nat /\ Backoff[n + 1] = 2 * Backoff[n]
<1> DEFINE F == [x \in Nat |-> 2 * x]
           H(n) == CHOOSE g \in [0 .. n -> Nat] : Iterates(g, F, Rto, n)
           b == [n \in Nat |-> H(n)[n]]
           B == CHOOSE f : f = [n \in Nat |-> IF n = 0 THEN Rto ELSE 2 * f[n - 1]]
<1>1. F \in [Nat -> Nat] /\ Rto \in Nat
  BY SenderAssumption
<1>2. ASSUME NEW n \in Nat
      PROVE  H(n) \in [0 .. n -> Nat] /\ Iterates(H(n), F, Rto, n)
  <2>1. \E g \in [0 .. n -> Nat] : Iterates(g, F, Rto, n)
    <3> HIDE DEF F
    <3> QED BY <1>1, Iteration
  <2> HIDE DEF F
  <2> QED BY <2>1
<1>3. b[0] = Rto
  <2>1. 0 \in Nat
    OBVIOUS
  <2>2. H(0)[0] = Rto
    BY <1>2, <2>1 DEF Iterates
  <2> HIDE DEF H
  <2> QED BY <2>1, <2>2
<1>4. ASSUME NEW n \in Nat PROVE b[n] \in Nat /\ b[n + 1] = 2 * b[n]
  <2>1. PICK g \in [0 .. n -> Nat], h \in [0 .. n + 1 -> Nat] :
            /\ g = H(n) /\ h = H(n + 1)
            /\ Iterates(g, F, Rto, n) /\ Iterates(h, F, Rto, n + 1)
    <3> HIDE DEF H, F
    <3>1. n + 1 \in Nat
      OBVIOUS
    <3>2. H(n) \in [0 .. n -> Nat] /\ Iterates(H(n), F, Rto, n)
      BY <1>2
    <3>3. H(n + 1) \in [0 .. n + 1 -> Nat] /\ Iterates(H(n + 1), F, Rto, n + 1)
      BY <1>2, <3>1
    <3> QED BY <3>2, <3>3
  <2>2. g[0] = h[0] /\ \A k \in 0 .. n - 1 : g[k] = h[k] => g[k + 1] = h[k + 1]
    <3>1. \A k \in 0 .. n - 1 : k \in 0 .. (n + 1) - 1
      OBVIOUS
    <3> HIDE DEF F, H
    <3> QED BY <2>1, <3>1 DEF Iterates
  <2>3. \A k \in 0 .. n : g[k] = h[k]
    BY <2>2, SameIteration, Zenon
  <2>4. h[n + 1] = F[h[n]] /\ n \in 0 .. n
    <3>1. n \in 0 .. (n + 1) - 1 /\ n \in 0 .. n
      OBVIOUS
    <3> HIDE DEF F, H
    <3> QED BY <2>1, <3>1 DEF Iterates
  <2>5. g[n] = h[n] /\ g[n] \in Nat
    BY <2>3, <2>4
  <2>6. b[n] = g[n] /\ b[n + 1] = h[n + 1]
    <3> HIDE DEF H
    <3> QED BY <2>1
  <2> HIDE DEF b
  <2> QED BY <2>4, <2>5, <2>6
<1>5. b = [n \in Nat |-> IF n = 0 THEN Rto ELSE 2 * b[n - 1]]
  <2>1. ASSUME NEW n \in Nat PROVE b[n] = IF n = 0 THEN Rto ELSE 2 * b[n - 1]
    <3> HIDE DEF b
    <3>1. CASE n = 0
      BY <1>3, <3>1
    <3>2. CASE n # 0
      <4>1. n - 1 \in Nat /\ (n - 1) + 1 = n
        BY <3>2
      <4> QED BY <1>4, <3>2, <4>1
    <3> QED BY <3>1, <3>2
  <2>2. b = [n \in Nat |-> b[n]]
    OBVIOUS
  <2> HIDE DEF b
  <2> QED BY <2>1, <2>2
<1>6. B = [n \in Nat |-> IF n = 0 THEN Rto ELSE 2 * B[n - 1]]
  <2> HIDE DEF b
  <2> QED BY <1>5
<1>7. Backoff = B
  BY DEF Backoff
<1> HIDE DEF B, b
<1>8. B[0] = Rto
  BY <1>6
<1>9. ASSUME NEW n \in Nat PROVE B[n + 1] = 2 * B[n]
  <2>1. n + 1 \in Nat /\ n + 1 # 0 /\ (n + 1) - 1 = n
    OBVIOUS
  <2>2. B[n + 1] = IF n + 1 = 0 THEN Rto ELSE 2 * B[(n + 1) - 1]
    BY <1>6, <2>1
  <2> QED BY <2>1, <2>2
<1>10. ASSUME NEW n \in Nat PROVE B[n] \in Nat
  <2>1. B[0] = b[0] /\ \A k \in 0 .. n - 1 : B[k] = b[k] => B[k + 1] = b[k + 1]
    BY <1>3, <1>4, <1>8, <1>9
  <2>2. \A k \in 0 .. n : B[k] = b[k]
    BY <2>1, SameIteration, Zenon
  <2>3. n \in 0 .. n
    OBVIOUS
  <2> QED BY <1>4, <2>2, <2>3
<1> QED BY <1>7, <1>8, <1>9, <1>10

\* The loop of ack_received() pops at most what there is.
LEMMA AckedCountType ==
    ASSUME NEW s, s.wait_ack \in Seq(Seg), NEW a
    PROVE  AckedCount(s, a) \in 0 .. Len(s.wait_ack)
<1> DEFINE w == s.wait_ack
           T == {k \in 0 .. Len(w) : k < Len(w) => ~ FullyAcked(s, a, w[k + 1])}
<1>1. Len(w) \in T /\ T \subseteq 0 .. Len(w)
  <2>1. Len(w) \in Nat
    BY LenProperties
  <2> QED BY <2>1
<1>2. T # {} /\ T \subseteq Nat
  BY <1>1
<1>3. Min(T) \in T
  <2> HIDE DEF T
  <2> QED BY <1>2, LeastElement
<1>4. Min(T) \in 0 .. Len(w)
  BY <1>1, <1>3
<1> QED BY <1>4 DEF AckedCount

-----------------------------------------------------------------------------
\* Dividing n bytes into chunks of L: every chunk begins before the bytes end.
LEMMA ChunkStart ==
    ASSUME NEW L \in Nat, L > 0, NEW n \in Nat,
           NEW k \in Nat, k >= 1, k <= (n + L - 1) \div L
    PROVE  (k - 1) * L \in Nat /\ (k - 1) * L < n
<1>1. PICK c \in Int, r \in 0 .. L - 1 :
          c = (n + L - 1) \div L /\ n + L - 1 = L * c + r
  <2>1. n + L - 1 \in Int
    OBVIOUS
  <2>2. \A a \in Int : /\ (a \div L) \in Int
                      /\ (a % L) \in 0 .. L - 1
                      /\ a = L * (a \div L) + (a % L)
    OBVIOUS
  <2> QED BY <2>1, <2>2
<1>2. PICK j \in Nat : j = k - 1
  OBVIOUS
<1>3. PICK m \in Nat : c = j + 1 + m
  <2>1. c - (j + 1) \in Nat
    BY <1>1, <1>2
  <2> QED BY <2>1, <1>1
<1>4. L * c = L * j + L + L * m
  BY <1>3
<1>5. L * m \in Nat /\ L * j \in Nat /\ L * j = j * L
  OBVIOUS
<1>6. j * L < n
  BY <1>1, <1>4, <1>5
<1> QED BY <1>2, <1>5, <1>6

\* The number of chunks of L bytes that n bytes need.
ChunkCount(n, L) == (n + L - 1) \div L

\* The chunks hold all n bytes, and there is none if there are no bytes.
Covers(c, n, L) ==
    c \in Nat /\ n <= c * L /\ (n = 0 => c = 0) /\ (n > 0 => c > 0)

LEMMA ChunksCover ==
    ASSUME NEW L \in Nat, L > 0, NEW n \in Nat, NEW c, c = ChunkCount(n, L)
    PROVE  Covers(c, n, L)
<1>1. PICK r \in 0 .. L - 1 : c \in Int /\ n + L - 1 = L * c + r
  <2>1. n + L - 1 \in Int
    OBVIOUS
  <2> QED BY <2>1, ModDef DEF ChunkCount
<1>2. PICK d \in Int : d = c
  BY <1>1
<1>3. L * d >= n /\ L * d < n + L
  BY <1>1, <1>2
<1>4. d >= 0
  <2>1. CASE d <= -1
    <3>1. PICK e \in Nat : d = -1 - e
      <4>1. -1 - d \in Nat
        BY <2>1
      <4> QED BY <4>1
    <3>2. L * d = - L - L * e
      BY <3>1
    <3>3. L * e \in Nat
      OBVIOUS
    <3> QED BY <1>3, <3>2, <3>3
  <2> QED BY <2>1
<1>5. ASSUME n = 0 PROVE d = 0
  <2>1. CASE d >= 1
    <3>1. PICK e \in Nat : d = 1 + e
      <4>1. d - 1 \in Nat
        BY <2>1
      <4> QED BY <4>1
    <3>2. L * d = L + L * e
      BY <3>1
    <3>3. L * e \in Nat
      OBVIOUS
    <3> QED BY <1>3, <1>5, <3>2, <3>3
  <2> QED BY <1>4, <2>1
<1>6. ASSUME n > 0 PROVE d > 0
  <2>1. CASE d = 0
    <3>1. L * d = 0
      BY <2>1
    <3> QED BY <1>3, <1>6, <3>1
  <2> QED BY <1>4, <2>1
<1>7. L * d = d * L
  OBVIOUS
<1> QED BY <1>2, <1>3, <1>4, <1>5, <1>6, <1>7 DEF Covers

\* fill_window() makes well-formed segments.
LEMMA BurstType ==
    ASSUME NEW s, Typed(s), NEW syn \in BOOLEAN, NEW fin \in BOOLEAN,
           NEW n \in 0 .. Len(s.stream.que)
    PROVE  Burst(s, syn, n, fin) \in Seq(Seg)
<1> DEFINE chunks == (n + MaxPayload - 1) \div MaxPayload
           count  == IF syn \/ fin THEN MaxOf(chunks, 1) ELSE chunks
           Start(k) == (k - 1) * MaxPayload
           Seqno(k) == s.next_seqno + Start(k) + (IF k > 1 THEN BoolToNat(syn) ELSE 0)
           SegAt(k) == NewSegment(wrap(Seqno(k), s.isn),
                         syn /\ k = 1,
                         Substr(s.stream.que, Start(k), MinOf(MaxPayload, n - Start(k))),
                         fin /\ k = count)
<1>1. /\ s.stream.que \in Seq(Nat) /\ s.next_seqno \in Nat /\ s.isn \in Nat
      /\ n \in Nat /\ n <= Len(s.stream.que) /\ Len(s.stream.que) \in Nat
  <2>1. s.stream.que \in Seq(Nat) /\ s.next_seqno \in Nat /\ s.isn \in Nat
    BY WrapAssumption DEF Typed, ByteStreamType, Uint32
  <2>2. Len(s.stream.que) \in Nat
    BY <2>1, LenProperties
  <2> QED BY <2>1, <2>2
<1>2. chunks \in Nat
  BY <1>1, MaxPayloadAssumption
<1>3. count \in Nat
  BY <1>2 DEF MaxOf
<1>4. ASSUME NEW k \in 1 .. count
      PROVE  Start(k) \in Nat /\ Start(k) <= n
  <2>1. CASE k <= chunks
    <3> HIDE DEF count
    <3> QED BY <1>1, <1>2, <1>3, <1>4, <2>1, ChunkStart, MaxPayloadAssumption
  <2>2. CASE ~ (k <= chunks)
    <3>1. k = 1
      <4> HIDE DEF chunks
      <4> QED BY <1>2, <2>2, <1>4 DEF MaxOf
    <3>2. Start(1) = 0
      BY MaxPayloadAssumption
    <3> QED BY <3>1, <3>2, <1>1
  <2> QED BY <2>1, <2>2
<1>5. ASSUME NEW k \in 1 .. count PROVE SegAt(k) \in Seg
  <2>1. PICK st \in Nat : st = Start(k) /\ st <= n
    BY <1>4, <1>5
  <2>2. PICK m \in Nat : m = MinOf(MaxPayload, n - st)
    <3>1. n - st \in Nat /\ MaxPayload \in Nat
      BY <1>1, <2>1, MaxPayloadAssumption
    <3> QED BY <3>1 DEF MinOf
  <2>3. PICK p \in Seq(Nat) : p = Substr(s.stream.que, st, m)
    <3>1. st \in 0 .. Len(s.stream.que)
      BY <1>1, <2>1
    <3> QED BY <1>1, <3>1, SubstrType
  <2>4. PICK q \in Uint32 : q = wrap(Seqno(k), s.isn)
    <3>1. Seqno(k) \in Nat
      <4> HIDE DEF Start, count
      <4> QED BY <1>1, <2>1, <1>3 DEF BoolToNat
    <3> HIDE DEF Seqno
    <3> QED BY <1>1, <3>1, WrapTypes
  <2>5. 0 \in Uint32 /\ 0 \in Nat
    BY WrapAssumption DEF Uint32
  <2>6. NewSegment(q, syn /\ k = 1, p, fin /\ k = count) \in Seg
    <3> HIDE DEF count
    <3> QED BY <2>5 DEF NewSegment, Seg, SegmentType
  <2> QED BY <2>1, <2>2, <2>3, <2>4, <2>6
<1>6. [k \in 1 .. count |-> SegAt(k)] \in Seq(Seg)
  <2> HIDE DEF SegAt, count
  <2> QED BY <1>3, <1>5
<1> QED BY <1>6 DEF Burst

-----------------------------------------------------------------------------
\* Starting the timer for new segments keeps it in step with _wait_ack.
LEMMA TimerAfterSendArmed ==
    ASSUME NEW t \in TimerType, ~ t.expired, NEW w \in Seq(Seg), NEW segs \in Seq(Seg),
           t.active <=> w # <<>>
    PROVE  /\ TimerAfterSend(t, segs) \in TimerType
           /\ ~ TimerAfterSend(t, segs).expired
           /\ w \o segs \in Seq(Seg)
           /\ TimerAfterSend(t, segs).active <=> w \o segs # <<>>
           /\ TimerAfterSend(t, segs).init_timeout = t.init_timeout
           /\ TimerAfterSend(t, segs).timeout = t.timeout
<1>1. w \o segs \in Seq(Seg) /\ (w \o segs = <<>> <=> w = <<>> /\ segs = <<>>)
  <2>1. /\ w \o segs \in Seq(Seg)
        /\ Len(w \o segs) = Len(w) + Len(segs)
    BY ConcatProperties
  <2>2. Len(w) \in Nat /\ Len(segs) \in Nat
    BY LenProperties
  <2>3. \A q \in Seq(Seg) : q = <<>> <=> Len(q) = 0
    BY EmptySeq
  <2>4. Len(w) + Len(segs) = 0 <=> Len(w) = 0 /\ Len(segs) = 0
    BY <2>2
  <2> QED BY <2>1, <2>3, <2>4
<1>2. CASE segs # <<>> /\ ~ t.active
  <2>1. TimerAfterSend(t, segs) = [t EXCEPT !.expired = FALSE, !.active = TRUE, !.cur_time = 0]
    BY <1>2 DEF TimerAfterSend, TimerStart
  <2>2. 0 \in Nat
    OBVIOUS
  <2> QED BY <1>1, <1>2, <2>1, <2>2 DEF TimerType
<1>3. CASE ~ (segs # <<>> /\ ~ t.active)
  <2>1. TimerAfterSend(t, segs) = t
    BY <1>3 DEF TimerAfterSend
  <2> QED BY <1>1, <1>3, <2>1
<1> QED BY <1>2, <1>3

\* Sending n bytes, SYN if nothing was sent before, and perhaps FIN keeps the
\* account of the sequence numbers.
LEMMA SequenceCount ==
    ASSUME NEW x \in Nat, NEW rd \in Nat, NEW n \in Nat, NEW f \in Nat, NEW y,
           x = (IF x > 0 THEN 1 ELSE 0) + rd,
           y = x + (n + (IF x = 0 THEN 1 ELSE 0) + f)
    PROVE  y > 0 /\ y = 1 + (rd + n) + f
<1>1. CASE x = 0
  BY <1>1
<1>2. CASE x > 0
  BY <1>2
<1> QED BY <1>1, <1>2

\* fill_window() has made r of s by sending n bytes of the stream in segs, with
\* FIN if fin says so: len sequence numbers.
SentBy(r, s, n, fin, segs, len) ==
    /\ Shape(r)
    /\ r.isn = s.isn /\ r.window_sz = s.window_sz /\ r.ackno = s.ackno
    /\ r.stream = Read(s.stream, n)
    /\ r.set_fin = fin
    /\ r.next_seqno = s.next_seqno + len
    /\ r.flight_bytes = s.flight_bytes + len
    /\ r.segments_out = s.segments_out \o segs
    /\ r.wait_ack = s.wait_ack \o segs
    /\ r.timer = TimerAfterSend(s.timer, segs)
    /\ r.consecutive_transmit_num = s.consecutive_transmit_num

\* What is sent fits the stream and the window.
Fits(s, n, fin, len) ==
    /\ ~ s.set_fin
    /\ len = n + BoolToNat(s.next_seqno = 0) + BoolToNat(fin)
    /\ s.next_seqno + len <= WindowEdge(s)
    /\ fin => Eof(Read(s.stream, n))

\* fill_window() does nothing, or sends what fits.
LEMMA FillWindowCases ==
    ASSUME NEW s, Shape(s), Typed(s)
    PROVE  \/ FillWindow(s) = s
           \/ \E n \in 0 .. Len(s.stream.que), fin \in BOOLEAN, len \in Nat :
                /\ Fits(s, n, fin, len)
                /\ SentBy(FillWindow(s), s, n, fin, Burst(s, s.next_seqno = 0, n, fin), len)
<1> DEFINE win == WindowEdge(s) - s.next_seqno
           syn == s.next_seqno = 0
<1>1. /\ s.stream \in ByteStreamType(Nat) /\ s.stream.que \in Seq(Nat)
      /\ s.next_seqno \in Nat /\ s.window_sz \in Nat /\ s.ackno \in Nat
      /\ Len(s.stream.que) \in Nat
  BY LenProperties DEF Typed, ByteStreamType
<1>2. win \in Int /\ WindowEdge(s) \in Int
  BY <1>1 DEF WindowEdge
<1>3. CASE s.set_fin \/ win <= 0
  BY <1>3 DEF FillWindow
<1>4. CASE ~ (s.set_fin \/ win <= 0)
  <2>1. PICK n \in 0 .. Len(s.stream.que) :
            /\ n = MinOf(Len(s.stream.que), win - BoolToNat(syn))
            /\ n + BoolToNat(syn) <= win
    <3> HIDE DEF win, syn
    <3>1. win - BoolToNat(syn) \in Nat /\ BoolToNat(syn) \in Nat
      BY <1>2, <1>4 DEF BoolToNat
    <3>2. PICK d \in Nat, y \in Nat, q \in Nat :
              d = win - BoolToNat(syn) /\ y = BoolToNat(syn) /\ q = Len(s.stream.que)
      BY <1>1, <3>1
    <3>3. MinOf(q, d) \in 0 .. q /\ MinOf(q, d) + y <= win
      BY <1>2, <3>2 DEF MinOf
    <3> QED BY <3>2, <3>3
  <2>2. PICK b : b = Read(s.stream, n)
    OBVIOUS
  <2>3. PICK fin \in BOOLEAN : fin = FinFits(b, n + BoolToNat(syn), win)
    BY DEF FinFits
  <2>4. fin => Eof(b) /\ n + BoolToNat(syn) < win
    BY <2>3 DEF FinFits
  <2>5. PICK segs : segs = Burst(s, syn, n, fin)
    OBVIOUS
  <2>6. PICK len \in Nat : len = n + BoolToNat(syn) + BoolToNat(fin)
    BY DEF BoolToNat
  <2>7. FillWindow(s) =
          [s EXCEPT !.stream = b, !.set_fin = fin, !.next_seqno = s.next_seqno + len,
                    !.flight_bytes = s.flight_bytes + len,
                    !.segments_out = s.segments_out \o segs,
                    !.wait_ack = s.wait_ack \o segs,
                    !.timer = TimerAfterSend(s.timer, segs)]
    BY <1>4, <2>1, <2>2, <2>3, <2>5, <2>6 DEF FillWindow, Shape
  <2>8. PICK r : r = FillWindow(s)
    OBVIOUS
  <2>9. SentBy(r, s, n, fin, segs, len)
    BY <2>2, <2>7, <2>8 DEF SentBy, Shape
  <2>10. Fits(s, n, fin, len)
    <3>1. s.next_seqno + len <= WindowEdge(s)
      <4>1. len <= win
        <5> HIDE DEF win
        <5>1. PICK x \in Nat : x = n + BoolToNat(syn)
          BY DEF BoolToNat
        <5>2. len = x + BoolToNat(fin) /\ x <= win /\ (fin => x < win)
          BY <2>1, <2>4, <2>6, <5>1
        <5> QED BY <1>2, <5>2 DEF BoolToNat
      <4> HIDE DEF WindowEdge
      <4> QED BY <1>1, <1>2, <4>1
    <3> QED BY <1>4, <2>2, <2>4, <2>6, <3>1 DEF Fits
  <2> QED BY <2>5, <2>8, <2>9, <2>10
<1> QED BY <1>3, <1>4

\* fill_window() keeps the invariant.
LEMMA FillWindowInv ==
    ASSUME NEW s, SenderInv(s)
    PROVE  SenderInv(FillWindow(s))
<1>1. /\ s.stream \in ByteStreamType(Nat)
      /\ s.next_seqno \in Nat /\ s.window_sz \in Nat /\ s.ackno \in Nat
      /\ s.stream.readsize \in Nat
      /\ Shape(s) /\ Typed(s)
  BY DEF SenderInv, Typed, ByteStreamType
<1>2. CASE FillWindow(s) = s
  BY <1>2
<1>3. ASSUME NEW n \in 0 .. Len(s.stream.que), NEW fin \in BOOLEAN, NEW len \in Nat,
             NEW segs, segs = Burst(s, s.next_seqno = 0, n, fin), Fits(s, n, fin, len),
             SentBy(FillWindow(s), s, n, fin, segs, len)
      PROVE  SenderInv(FillWindow(s))
  <2>1. PICK b \in ByteStreamType(Nat) :
            b = Read(s.stream, n) /\ b.readsize = s.stream.readsize + n
    BY <1>1, ReadType
  <2>2. segs \in Seq(Seg)
    <3>1. (s.next_seqno = 0) \in BOOLEAN
      OBVIOUS
    <3> QED BY <1>1, <1>3, <3>1, BurstType
  <2>3. PICK t \in TimerType, w \in Seq(Seg) :
            /\ t = TimerAfterSend(s.timer, segs) /\ w = s.wait_ack \o segs
            /\ ~ t.expired
            /\ t.active <=> w # <<>>
            /\ t.init_timeout = s.timer.init_timeout /\ t.timeout = s.timer.timeout
    <3>1. /\ s.timer \in TimerType /\ s.wait_ack \in Seq(Seg) /\ ~ s.timer.expired
          /\ s.timer.active <=> s.wait_ack # <<>>
      BY DEF SenderInv, Typed, Armed
    <3>2. PICK t0 \in TimerType, w0 \in Seq(Seg) : t0 = s.timer /\ w0 = s.wait_ack
      BY <3>1
    <3>3. ~ t0.expired /\ (t0.active <=> w0 # <<>>)
      BY <3>1, <3>2
    <3>4. /\ TimerAfterSend(t0, segs) \in TimerType
          /\ ~ TimerAfterSend(t0, segs).expired
          /\ w0 \o segs \in Seq(Seg)
          /\ TimerAfterSend(t0, segs).active <=> w0 \o segs # <<>>
          /\ TimerAfterSend(t0, segs).init_timeout = t0.init_timeout
          /\ TimerAfterSend(t0, segs).timeout = t0.timeout
      BY <2>2, <3>3, TimerAfterSendArmed
    <3> QED BY <3>2, <3>4
  <2>4. PICK so \in Seq(Seg) : so = s.segments_out \o segs
    <3>1. s.segments_out \in Seq(Seg)
      BY <1>1 DEF Typed
    <3> QED BY <2>2, <3>1, ConcatProperties
  <2>5. PICK nx \in Nat : nx = s.next_seqno + len
    BY <1>1
  <2>6. nx = BoolToNat(nx > 0) + b.readsize + BoolToNat(fin)
    <3>1. s.next_seqno = BoolToNat(s.next_seqno > 0) + s.stream.readsize
      BY <1>1, <1>3 DEF SenderInv, Counted, BoolToNat, Fits
    <3>2. nx = s.next_seqno + (n + BoolToNat(s.next_seqno = 0) + BoolToNat(fin))
      BY <1>3, <2>5 DEF Fits
    <3>3. n \in Nat
      OBVIOUS
    <3>4. nx = BoolToNat(nx > 0) + (s.stream.readsize + n) + BoolToNat(fin)
      <4>1. PICK x \in Nat, rd \in Nat, f \in Nat :
                x = s.next_seqno /\ rd = s.stream.readsize /\ f = BoolToNat(fin)
        BY <1>1 DEF BoolToNat
      <4>2. x = (IF x > 0 THEN 1 ELSE 0) + rd
        BY <3>1, <4>1, Zenon DEF BoolToNat
      <4>3. nx = x + (n + (IF x = 0 THEN 1 ELSE 0) + f)
        <5>1. nx = x + (n + BoolToNat(x = 0) + f)
          BY <3>2, <4>1, Zenon
        <5> QED BY <5>1, Zenon DEF BoolToNat
      <4>4. nx > 0 /\ nx = 1 + (rd + n) + f
        BY <3>3, <4>2, <4>3, SequenceCount
      <4>5. BoolToNat(nx > 0) = 1
        BY <4>4, Zenon DEF BoolToNat
      <4> QED BY <4>1, <4>4, <4>5, Zenon
    <3> QED BY <2>1, <3>4
  <2>7. PICK r : r = FillWindow(s)
    OBVIOUS
  <2>8. /\ Shape(r)
        /\ r.isn = s.isn /\ r.stream = b /\ r.next_seqno = nx /\ r.window_sz = s.window_sz
        /\ r.ackno = s.ackno /\ r.set_fin = fin /\ r.segments_out = so /\ r.wait_ack = w
        /\ r.timer = t /\ r.consecutive_transmit_num = s.consecutive_transmit_num
    BY <1>3, <2>1, <2>3, <2>4, <2>5, <2>7 DEF SentBy
  <2>9. Typed(r)
    BY <1>1, <2>8 DEF Typed
  <2>10. Armed(r)
    BY <2>3, <2>8 DEF Armed
  <2>11. Counted(r)
    BY <1>3, <2>1, <2>6, <2>8 DEF Counted, Fits
  <2>12. BackedOff(r)
    BY <2>3, <2>8 DEF BackedOff, SenderInv
  <2> QED BY <2>7, <2>8, <2>9, <2>10, <2>11, <2>12 DEF SenderInv
<1> QED BY <1>1, <1>2, <1>3, FillWindowCases

-----------------------------------------------------------------------------
\* The part of _wait_ack that lines 120-157 leave, and what they leave in flight.
LeftOf(s, k) == SubSeq(s.wait_ack, k + 1, Len(s.wait_ack))

InFlightAfter(s, k) ==
    s.flight_bytes
      - SumTo([i \in DOMAIN s.wait_ack |-> LengthInSequenceSpace(s.wait_ack[i])], k)

\* ack_received() has made r of s: the ackno a and the window, if any, and k
\* segments that have been popped.
AckedBy(r, s, a, win, k) ==
    /\ Shape(r)
    /\ r.isn = s.isn /\ r.stream = s.stream /\ r.next_seqno = s.next_seqno
    /\ r.set_fin = s.set_fin /\ r.segments_out = s.segments_out
    /\ r.ackno = a
    /\ IF a > s.next_seqno THEN r.window_sz = s.window_sz ELSE r.window_sz = win
    /\ IF a > s.next_seqno \/ k = 0
         THEN /\ r.wait_ack = s.wait_ack /\ r.flight_bytes = s.flight_bytes
              /\ r.timer = s.timer
              /\ r.consecutive_transmit_num = s.consecutive_transmit_num
         ELSE /\ r.wait_ack = LeftOf(s, k) /\ r.flight_bytes = InFlightAfter(s, k)
              /\ r.timer = TimerAfterAck(s.timer, k < Len(s.wait_ack))
              /\ r.consecutive_transmit_num = 0

\* The three ways of ack_received().
LEMMA AckReceivedCases ==
    ASSUME NEW s, Shape(s), Typed(s), NEW ackno, NEW win,
           NEW a \in Nat, a = unwrap(ackno, s.isn, s.next_seqno)
    PROVE  AckedBy(AckReceived(s, ackno, win), s, a, win, AckedCount(s, a))
<1>1. PICK k : k = AckedCount(s, a)
  OBVIOUS
<1>2. PICK r : r = AckReceived(s, ackno, win)
  OBVIOUS
<1>3. s.next_seqno \in Nat
  BY DEF Typed
<1>4. CASE a > s.next_seqno
  <2>1. r = [s EXCEPT !.ackno = a]
    BY <1>2, <1>3, <1>4 DEF AckReceived
  <2> QED BY <1>1, <1>2, <1>4, <2>1 DEF Shape, AckedBy
<1>5. CASE a <= s.next_seqno /\ k = 0
  <2>1. r = [[s EXCEPT !.ackno = a] EXCEPT !.window_sz = win]
    BY <1>1, <1>2, <1>3, <1>5 DEF AckReceived
  <2>2. ~ (a > s.next_seqno)
    BY <1>3, <1>5
  <2>3. /\ Shape(r)
        /\ r.isn = s.isn /\ r.stream = s.stream /\ r.next_seqno = s.next_seqno
        /\ r.set_fin = s.set_fin /\ r.segments_out = s.segments_out
        /\ r.ackno = a /\ r.window_sz = win
        /\ r.wait_ack = s.wait_ack /\ r.flight_bytes = s.flight_bytes
        /\ r.timer = s.timer
        /\ r.consecutive_transmit_num = s.consecutive_transmit_num
    BY <2>1 DEF Shape
  <2> QED BY <1>1, <1>2, <1>5, <2>2, <2>3 DEF AckedBy
<1>6. CASE a <= s.next_seqno /\ k # 0
  <2>1. ~ (a > s.next_seqno) /\ ~ (a <= s.next_seqno /\ k = 0)
    BY <1>3, <1>6
  <2>2. PICK c : c = [[s EXCEPT !.ackno = a] EXCEPT !.window_sz = win]
    OBVIOUS
  <2>3. r = [c EXCEPT !.wait_ack = LeftOf(s, k),
                      !.flight_bytes = InFlightAfter(s, k),
                      !.timer = TimerAfterAck(s.timer, k < Len(s.wait_ack)),
                      !.consecutive_transmit_num = 0]
    BY <1>1, <1>2, <2>1, <2>2 DEF AckReceived, LeftOf, InFlightAfter, Shape
  <2>4. AckedBy(r, s, a, win, k)
    <3>1. /\ Shape(c)
          /\ c.isn = s.isn /\ c.stream = s.stream /\ c.next_seqno = s.next_seqno
          /\ c.set_fin = s.set_fin /\ c.segments_out = s.segments_out
          /\ c.ackno = a /\ c.window_sz = win
      BY <2>2 DEF Shape
    <3>2. /\ Shape(r)
          /\ r.isn = c.isn /\ r.stream = c.stream /\ r.next_seqno = c.next_seqno
          /\ r.set_fin = c.set_fin /\ r.segments_out = c.segments_out
          /\ r.ackno = c.ackno /\ r.window_sz = c.window_sz
          /\ r.wait_ack = LeftOf(s, k) /\ r.flight_bytes = InFlightAfter(s, k)
          /\ r.timer = TimerAfterAck(s.timer, k < Len(s.wait_ack))
          /\ r.consecutive_transmit_num = 0
      BY <2>3, <3>1 DEF Shape
    <3>3. k # 0
      BY <1>6
    <3> QED BY <2>1, <3>1, <3>2, <3>3 DEF AckedBy
  <2> QED BY <1>1, <1>2, <2>4
<1> QED
  <2>1. a > s.next_seqno \/ a <= s.next_seqno
    BY <1>3
  <2> QED BY <2>1, <1>4, <1>5, <1>6

\* ack_received() keeps the invariant: the timer goes on for the segments that
\* are left, and stops with the last one.
LEMMA AckReceivedInv ==
    ASSUME NEW s, SenderInv(s), NEW ackno \in Nat, NEW win \in Nat
    PROVE  SenderInv(AckReceived(s, ackno, win))
<1>1. PICK a \in Nat : a = unwrap(ackno, s.isn, s.next_seqno)
  <2>1. s.isn \in Nat /\ s.next_seqno \in Nat
    BY WrapAssumption DEF SenderInv, Typed, Uint32
  <2> QED BY <2>1, WrapTypes
<1>2. PICK k : k = AckedCount(s, a)
  OBVIOUS
<1>3. PICK w : w = s.wait_ack
  OBVIOUS
<1>4. w \in Seq(Seg) /\ k \in 0 .. Len(w) /\ Len(w) \in Nat
  BY <1>2, <1>3, AckedCountType, LenProperties DEF SenderInv, Typed
<1>5. PICK r : r = AckReceived(s, ackno, win) /\ AckedBy(r, s, a, win, k)
  <2>1. Shape(s) /\ Typed(s)
    BY DEF SenderInv
  <2> QED BY <1>1, <1>2, <2>1, AckReceivedCases
<1>6. r.window_sz \in Nat
  BY <1>5 DEF AckedBy, SenderInv, Typed
<1>7. CASE a > s.next_seqno \/ k = 0
  <2>1. /\ Shape(r)
        /\ r.isn = s.isn /\ r.stream = s.stream /\ r.next_seqno = s.next_seqno
        /\ r.ackno = a /\ r.set_fin = s.set_fin
        /\ r.segments_out = s.segments_out /\ r.wait_ack = s.wait_ack /\ r.timer = s.timer
        /\ r.consecutive_transmit_num = s.consecutive_transmit_num
    BY <1>5, <1>7 DEF AckedBy
  <2> QED BY <1>5, <1>6, <2>1 DEF SenderInv, Typed, Armed, Counted, BackedOff
<1>8. CASE ~ (a > s.next_seqno \/ k = 0)
  <2>1. PICK t \in TimerType : /\ t = TimerAfterAck(s.timer, k < Len(w))
                               /\ t.active <=> k < Len(w)
                               /\ ~ t.expired
                               /\ t.init_timeout = Rto /\ t.timeout = Rto
    <3>1. /\ s.timer \in TimerType /\ ~ s.timer.expired /\ 0 \in Nat
          /\ s.timer.init_timeout = Rto
      BY DEF SenderInv, Typed, Armed, BackedOff
    <3>2. TimerAfterAck(s.timer, k < Len(w)) \in TimerType
      BY <3>1, Zenon DEF TimerAfterAck, TimerStart, TimerStop, TimerReset, TimerType
    <3>3. /\ TimerAfterAck(s.timer, k < Len(w)).active <=> k < Len(w)
          /\ ~ TimerAfterAck(s.timer, k < Len(w)).expired
          /\ TimerAfterAck(s.timer, k < Len(w)).init_timeout = s.timer.init_timeout
          /\ TimerAfterAck(s.timer, k < Len(w)).timeout = s.timer.init_timeout
      BY <3>1 DEF TimerAfterAck, TimerStart, TimerStop, TimerReset, TimerType
    <3> QED BY <3>1, <3>2, <3>3
  <2>2. PICK v \in Seq(Seg) : v = LeftOf(s, k) /\ (v # <<>> <=> k < Len(w))
    <3>1. /\ SubSeq(w, k + 1, Len(w)) \in Seq(Seg)
          /\ Len(SubSeq(w, k + 1, Len(w))) =
               IF k + 1 <= Len(w) THEN Len(w) - (k + 1) + 1 ELSE 0
      <4>1. \A i \in k + 1 .. Len(w) : w[i] \in Seg
        BY <1>4
      <4> QED BY <1>4, <4>1, SubSeqProperties
    <3>2. \A q \in Seq(Seg) : q = <<>> <=> Len(q) = 0
      BY EmptySeq
    <3>3. Len(SubSeq(w, k + 1, Len(w))) = 0 <=> ~ (k < Len(w))
      BY <1>4, <3>1
    <3> QED BY <1>3, <3>1, <3>2, <3>3 DEF LeftOf
  <2>3. /\ Shape(r)
        /\ r.isn = s.isn /\ r.stream = s.stream /\ r.next_seqno = s.next_seqno
        /\ r.ackno = a /\ r.set_fin = s.set_fin /\ r.segments_out = s.segments_out
        /\ r.wait_ack = v /\ r.timer = t
        /\ r.consecutive_transmit_num = 0
    BY <1>3, <1>5, <1>8, <2>1, <2>2 DEF AckedBy
  <2>4. Armed(r)
    BY <2>1, <2>2, <2>3 DEF Armed
  <2>5. BackedOff(r)
    BY <2>1, <2>3, BackoffSteps DEF BackedOff
  <2>6. Typed(r)
    <3>1. 0 \in Nat
      OBVIOUS
    <3> QED BY <1>6, <2>3, <3>1 DEF SenderInv, Typed
  <2>7. Counted(r)
    BY <2>3 DEF SenderInv, Counted
  <2> QED BY <1>5, <2>3, <2>4, <2>5, <2>6, <2>7 DEF SenderInv
<1> QED BY <1>7, <1>8

\* tick() keeps the invariant: a timer that expires has something to send, and
\* is started again when it is sent, with the timeout doubled as often as the
\* retransmissions are counted.  The sequence space is left alone.
LEMMA SenderTickInv ==
    ASSUME NEW s, SenderInv(s), NEW ms \in Nat
    PROVE  SenderInv(SenderTick(s, ms)) /\ SameSpace(SenderTick(s, ms), s)
<1>1. /\ s.timer \in TimerType /\ ~ s.timer.expired /\ (s.timer.active <=> s.wait_ack # <<>>)
      /\ s.wait_ack \in Seq(Seg) /\ s.segments_out \in Seq(Seg)
      /\ s.consecutive_transmit_num \in Nat
      /\ s.timer.init_timeout = Rto /\ s.timer.timeout = Backoff[s.consecutive_transmit_num]
  BY DEF SenderInv, Typed, Armed, BackedOff
<1>2. PICK r : r = SenderTick(s, ms)
  OBVIOUS
<1>3. PICK to \in Nat, ct \in Nat, cn \in Nat :
          /\ to = IF s.window_sz # 0 THEN s.timer.timeout * 2 ELSE s.timer.timeout
          /\ ct = s.timer.cur_time + ms
          /\ cn = IF s.window_sz # 0 THEN s.consecutive_transmit_num + 1
                                     ELSE s.consecutive_transmit_num
  BY <1>1, SMTT(20) DEF TimerType
<1>4. /\ DOMAIN s.timer = {"active", "expired", "init_timeout", "timeout", "cur_time"}
      /\ s.timer.init_timeout \in Nat
  BY <1>1 DEF TimerType
<1>5. ASSUME NEW t \in TimerType, t.active <=> s.wait_ack # <<>>, ~ t.expired,
             t.init_timeout = Rto, NEW c \in Nat, t.timeout = Backoff[c],
             Shape(r), SameSpace(r, s), r.segments_out \in Seq(Seg),
             r.timer = t, r.consecutive_transmit_num = c
      PROVE  SenderInv(r)
  <2>1. Typed(r)
    BY <1>5 DEF SenderInv, Typed, SameSpace
  <2>2. Armed(r) /\ BackedOff(r)
    BY <1>5 DEF Armed, BackedOff, SameSpace
  <2>3. Counted(r)
    BY <1>5 DEF SenderInv, Counted, SameSpace
  <2> QED BY <1>5, <2>1, <2>2, <2>3 DEF SenderInv
<1>6. CASE TimerFires(s.timer, ms)
  <2>1. s.timer.active /\ s.wait_ack # <<>>
    BY <1>1, <1>6 DEF TimerFires
  <2>2. PICK t1 :
          /\ t1 = [s.timer EXCEPT !.cur_time = ct, !.active = FALSE,
                                  !.expired = TRUE, !.timeout = to]
          /\ r = [s EXCEPT !.timer = TimerStart(t1), !.consecutive_transmit_num = cn,
                           !.segments_out = Append(s.segments_out, s.wait_ack[1])]
    <3> DEFINE backoff == s.window_sz # 0
               t0 == [s.timer EXCEPT !.cur_time = ct, !.active = FALSE,
                                     !.expired = TRUE, !.timeout = to]
               s1 == [s EXCEPT !.timer.cur_time = @ + ms,
                               !.timer.active = FALSE,
                               !.timer.expired = TRUE,
                               !.timer.timeout = IF backoff THEN @ * 2 ELSE @,
                               !.consecutive_transmit_num = IF backoff THEN @ + 1 ELSE @]
    <3>1. s1 = [s EXCEPT !.timer = t0, !.consecutive_transmit_num = cn]
      BY <1>3, <1>4 DEF SenderInv, Shape
    <3>2. s1.timer = t0 /\ s1.wait_ack = s.wait_ack /\ s1.segments_out = s.segments_out
      BY <3>1 DEF SenderInv, Shape
    <3>3. t0.expired
      BY <1>4
    <3>4. r = [s1 EXCEPT !.segments_out = Append(@, s1.wait_ack[1]),
                         !.timer = TimerStart(@)]
      <4>1. s1.timer.expired /\ s1.wait_ack # <<>>
        BY <2>1, <3>2, <3>3
      <4> QED BY <1>2, <1>6, <4>1 DEF SenderTick
    <3>5. r = [s EXCEPT !.timer = TimerStart(t0), !.consecutive_transmit_num = cn,
                        !.segments_out = Append(s.segments_out, s.wait_ack[1])]
      <4> HIDE DEF s1, t0
      <4> QED BY <3>1, <3>2, <3>4 DEF SenderInv, Shape
    <3> QED BY <3>5
  <2>3. PICK t : t = TimerStart(t1)
    OBVIOUS
  <2>4. t \in TimerType /\ t.active /\ ~ t.expired /\ t.init_timeout = Rto /\ t.timeout = to
    BY <1>1, <1>3, <1>4, <2>2, <2>3 DEF TimerStart, TimerType
  <2>5. to = Backoff[cn]
    <3>1. PICK c \in Nat, x \in Nat :
              c = s.consecutive_transmit_num /\ x = Backoff[c] /\ x = s.timer.timeout
      BY <1>1, BackoffSteps
    <3>2. Backoff[c + 1] = 2 * x
      BY <3>1, BackoffSteps
    <3>3. CASE s.window_sz # 0
      <4>1. to = x * 2 /\ cn = c + 1
        BY <1>3, <3>1, <3>3
      <4> QED BY <3>2, <4>1
    <3>4. CASE s.window_sz = 0
      BY <1>3, <3>1, <3>4
    <3> QED BY <3>3, <3>4
  <2>6. PICK so \in Seq(Seg) : so = Append(s.segments_out, s.wait_ack[1])
    <3>1. s.wait_ack[1] \in Seg
      BY <1>1, <2>1
    <3> QED BY <1>1, <3>1, AppendProperties
  <2>7. /\ Shape(r) /\ SameSpace(r, s)
        /\ r.segments_out = so /\ r.timer = t /\ r.consecutive_transmit_num = cn
    BY <2>2, <2>3, <2>6 DEF SenderInv, Shape, SameSpace
  <2>8. t.active <=> s.wait_ack # <<>>
    BY <2>1, <2>4
  <2>9. SenderInv(r)
    BY <1>5, <2>4, <2>5, <2>6, <2>7, <2>8
  <2> QED BY <1>2, <2>7, <2>9
<1>7. CASE s.timer.active /\ ~ TimerFires(s.timer, ms)
  <2>1. r = [s EXCEPT !.timer = [s.timer EXCEPT !.cur_time = ct]]
    BY <1>1, <1>2, <1>3, <1>4, <1>7 DEF SenderTick, SenderInv, Shape
  <2>2. PICK t \in TimerType :
            /\ t = [s.timer EXCEPT !.cur_time = ct]
            /\ t.active = s.timer.active /\ t.expired = s.timer.expired
            /\ t.init_timeout = s.timer.init_timeout /\ t.timeout = s.timer.timeout
    <3>1. [s.timer EXCEPT !.cur_time = ct] \in TimerType
      BY <1>1, <1>3, Zenon DEF TimerType
    <3>2. /\ [s.timer EXCEPT !.cur_time = ct].active = s.timer.active
          /\ [s.timer EXCEPT !.cur_time = ct].expired = s.timer.expired
          /\ [s.timer EXCEPT !.cur_time = ct].init_timeout = s.timer.init_timeout
          /\ [s.timer EXCEPT !.cur_time = ct].timeout = s.timer.timeout
      BY <1>4
    <3> QED BY <3>1, <3>2
  <2>3. /\ Shape(r) /\ SameSpace(r, s)
        /\ r.segments_out = s.segments_out /\ r.timer = t
        /\ r.consecutive_transmit_num = s.consecutive_transmit_num
    BY <2>1, <2>2 DEF SenderInv, Shape, SameSpace
  <2>4. PICK c \in Nat : c = s.consecutive_transmit_num
    BY <1>1
  <2>5. /\ t.active <=> s.wait_ack # <<>>
        /\ ~ t.expired /\ t.init_timeout = Rto /\ t.timeout = Backoff[c]
        /\ r.segments_out \in Seq(Seg) /\ r.consecutive_transmit_num = c
    BY <1>1, <2>2, <2>3, <2>4
  <2>6. SenderInv(r)
    BY <1>5, <2>3, <2>5
  <2> QED BY <1>2, <2>3, <2>6
<1>8. CASE ~ s.timer.active
  <2>1. r = s
    BY <1>1, <1>2, <1>8 DEF SenderTick, TimerFires
  <2> QED BY <1>2, <2>1 DEF SameSpace
<1> QED BY <1>6, <1>7, <1>8

-----------------------------------------------------------------------------
\* Writing to the stream, or ending it, before its end was set.
LEMMA StreamInv ==
    ASSUME NEW s, SenderInv(s), ~ s.stream.end, NEW b \in ByteStreamType(Nat),
           b.readsize = s.stream.readsize
    PROVE  SenderInv([s EXCEPT !.stream = b])
<1>1. PICK r : r = [s EXCEPT !.stream = b]
  OBVIOUS
<1>2. /\ Shape(r)
      /\ r.isn = s.isn /\ r.stream = b /\ r.next_seqno = s.next_seqno
      /\ r.window_sz = s.window_sz /\ r.ackno = s.ackno /\ r.set_fin = s.set_fin
      /\ r.segments_out = s.segments_out /\ r.wait_ack = s.wait_ack /\ r.timer = s.timer
      /\ r.consecutive_transmit_num = s.consecutive_transmit_num
  BY <1>1 DEF SenderInv, Shape
<1>3. ~ s.set_fin
  BY DEF SenderInv, Counted, Eof
<1>4. Typed(r)
  BY <1>2 DEF SenderInv, Typed
<1>5. Armed(r) /\ BackedOff(r)
  BY <1>2 DEF SenderInv, Armed, BackedOff
<1>6. Counted(r)
  BY <1>2, <1>3 DEF SenderInv, Counted
<1> QED BY <1>1, <1>2, <1>4, <1>5, <1>6 DEF SenderInv

\* send_segments() only empties the queue of the sender.
LEMMA FlushInv ==
    ASSUME NEW s, SenderInv(s), NEW r, r = [s EXCEPT !.segments_out = <<>>]
    PROVE  SenderInv(r) /\ SameSpace(r, s)
<1>1. /\ Shape(r) /\ SameSpace(r, s) /\ r.segments_out = <<>> /\ r.timer = s.timer
      /\ r.consecutive_transmit_num = s.consecutive_transmit_num
  BY DEF SenderInv, Shape, SameSpace
<1>2. Typed(r)
  <2>1. <<>> \in Seq(Seg)
    OBVIOUS
  <2> QED BY <1>1, <2>1 DEF SenderInv, Typed, SameSpace
<1> QED BY <1>1, <1>2 DEF SenderInv, Armed, Counted, BackedOff, SameSpace

\* A TCPSender that has just been made.
LEMMA NewSenderInv == SenderInv(NewSender(Capacity, Rto, Isn))
<1>1. PICK r : r = NewSender(Capacity, Rto, Isn)
  OBVIOUS
<1>2. Isn \in Uint32 /\ Capacity \in Nat /\ Rto \in Nat
  BY SenderAssumption
<1>3. /\ NewByteStream(Capacity) \in ByteStreamType(Nat)
      /\ NewByteStream(Capacity).readsize = 0
  BY <1>2 DEF NewByteStream, ByteStreamType
<1>4. /\ NewTimer(Rto) \in TimerType /\ ~ NewTimer(Rto).active /\ ~ NewTimer(Rto).expired
      /\ NewTimer(Rto).init_timeout = Rto /\ NewTimer(Rto).timeout = Rto
  BY <1>2 DEF NewTimer, TimerType
<1>5. /\ Shape(r)
      /\ r.isn = Isn /\ r.stream = NewByteStream(Capacity) /\ r.next_seqno = 0
      /\ r.window_sz = 1 /\ r.ackno = 0 /\ r.set_fin = FALSE /\ r.segments_out = <<>>
      /\ r.wait_ack = <<>> /\ r.timer = NewTimer(Rto) /\ r.consecutive_transmit_num = 0
  BY <1>1 DEF NewSender, Shape
<1>6. Typed(r)
  <2>1. <<>> \in Seq(Seg) /\ 0 \in Nat /\ 1 \in Nat
    OBVIOUS
  <2> QED BY <1>2, <1>3, <1>4, <1>5, <2>1, Zenon DEF Typed
<1>7. Counted(r)
  BY <1>3, <1>5 DEF Counted, BoolToNat
<1>8. BackedOff(r)
  BY <1>4, <1>5, BackoffSteps DEF BackedOff
<1> QED BY <1>1, <1>4, <1>5, <1>6, <1>7, <1>8 DEF SenderInv, Armed

-----------------------------------------------------------------------------
(* The layout of _wait_ack in the sequence space. *)

\* seg begins at the absolute sequence number p, is not empty, and carries the
\* bytes of the stream that belong there.
Placed(seg, p) ==
    /\ seg.seqno = wrap(p, Isn)
    /\ LengthInSequenceSpace(seg) > 0
    /\ \A i \in DOMAIN seg.payload : seg.payload[i] = p + BoolToNat(seg.syn) + i - 2

\* The segments of w begin at the places that pos says, each where the one
\* before it ends.
Laid(w, pos) ==
    /\ pos \in [1 .. Len(w) + 1 -> Nat]
    /\ \A k \in 1 .. Len(w) :
         Placed(w[k], pos[k]) /\ pos[k + 1] = pos[k] + LengthInSequenceSpace(w[k])

\* The segments of w are the stretch from a to b.
Stretch(w, a, b) == \E pos : Laid(w, pos) /\ pos[1] = a /\ pos[Len(w) + 1] = b

\* The length of a segment is a natural number.
LEMMA LengthType ==
    ASSUME NEW seg \in Seg
    PROVE  LengthInSequenceSpace(seg) \in Nat
<1>1. seg.payload \in Seq(Nat)
  BY DEF Seg, SegmentType
<1>2. Len(seg.payload) \in Nat
  BY <1>1, LenProperties
<1>3. \A b : BoolToNat(b) \in Nat
  BY DEF BoolToNat
<1>4. PICK x \in Nat, y \in Nat, z \in Nat :
          x = Len(seg.payload) /\ y = BoolToNat(seg.syn) /\ z = BoolToNat(seg.fin)
  BY <1>2, <1>3
<1>5. x + y + z \in Nat
  OBVIOUS
<1> QED BY <1>4, <1>5 DEF LengthInSequenceSpace

\* An empty list is a stretch of no length.
LEMMA StretchEmpty ==
    ASSUME NEW a \in Nat
    PROVE  Stretch(<<>>, a, a)
<1> DEFINE pos == [k \in 1 .. 1 |-> a]
<1>1. Len(<<>>) = 0
  OBVIOUS
<1>2. Laid(<<>>, pos) /\ pos[1] = a /\ pos[Len(<<>>) + 1] = a
  BY <1>1 DEF Laid
<1> QED BY <1>2 DEF Stretch

\* Adjacent stretches join.
LEMMA StretchConcat ==
    ASSUME NEW v \in Seq(Seg), NEW w \in Seq(Seg), NEW a, NEW b, NEW c,
           Stretch(v, a, b), Stretch(w, b, c)
    PROVE  Stretch(v \o w, a, c)
<1>1. PICK p : Laid(v, p) /\ p[1] = a /\ p[Len(v) + 1] = b
  BY DEF Stretch
<1>2. PICK q : Laid(w, q) /\ q[1] = b /\ q[Len(w) + 1] = c
  BY DEF Stretch
<1>3. PICK m \in Nat, n \in Nat : m = Len(v) /\ n = Len(w)
  BY LenProperties
<1>4. PICK u : u = v \o w
  OBVIOUS
<1>5. /\ Len(u) = m + n
      /\ \A k \in 1 .. m : u[k] = v[k]
      /\ \A k \in m + 1 .. m + n : u[k] = w[k - m]
  <2>1. /\ Len(u) = Len(v) + Len(w)
        /\ \A k \in 1 .. Len(v) + Len(w) : u[k] = IF k <= Len(v) THEN v[k] ELSE w[k - Len(v)]
    BY <1>4, ConcatProperties
  <2> QED BY <1>3, <2>1
<1> DEFINE r == [k \in 1 .. m + n + 1 |-> IF k <= m THEN p[k] ELSE q[k - m]]
<1>6. /\ p \in [1 .. m + 1 -> Nat]
      /\ \A k \in 1 .. m : Placed(v[k], p[k]) /\ p[k + 1] = p[k] + LengthInSequenceSpace(v[k])
      /\ q \in [1 .. n + 1 -> Nat]
      /\ \A k \in 1 .. n : Placed(w[k], q[k]) /\ q[k + 1] = q[k] + LengthInSequenceSpace(w[k])
  BY <1>1, <1>2, <1>3 DEF Laid
<1>7. p[m + 1] = q[1]
  BY <1>1, <1>2, <1>3
<1>8. /\ \A k \in 1 .. m + 1 : r[k] = p[k]
      /\ \A k \in m + 1 .. m + n + 1 : r[k] = q[k - m]
  <2>1. ASSUME NEW k \in 1 .. m + 1 PROVE r[k] = p[k]
    <3>1. CASE k <= m
      BY <3>1
    <3>2. CASE k = m + 1
      <4>1. k - m = 1 /\ ~ (k <= m) /\ k \in 1 .. m + n + 1
        BY <3>2
      <4> QED BY <1>7, <3>2, <4>1
    <3> QED BY <3>1, <3>2
  <2>2. ASSUME NEW k \in m + 1 .. m + n + 1 PROVE r[k] = q[k - m]
    <3>1. ~ (k <= m) /\ k \in 1 .. m + n + 1
      OBVIOUS
    <3> QED BY <3>1
  <2> QED BY <2>1, <2>2
<1>9. r \in [1 .. Len(u) + 1 -> Nat]
  <2>1. ASSUME NEW k \in 1 .. m + n + 1 PROVE r[k] \in Nat
    <3>1. CASE k \in 1 .. m + 1
      BY <1>6, <1>8, <3>1
    <3>2. CASE k \in m + 1 .. m + n + 1
      <4>1. k - m \in 1 .. n + 1
        BY <3>2
      <4> QED BY <1>6, <1>8, <3>2, <4>1
    <3> QED BY <3>1, <3>2
  <2> QED BY <1>5, <2>1
<1> HIDE DEF r
<1>10. ASSUME NEW k \in 1 .. Len(u)
       PROVE  Placed(u[k], r[k]) /\ r[k + 1] = r[k] + LengthInSequenceSpace(u[k])
  <2>1. CASE k \in 1 .. m
    <3>1. k \in 1 .. m + 1 /\ k + 1 \in 1 .. m + 1
      BY <2>1
    <3> QED BY <1>5, <1>6, <1>8, <2>1, <3>1
  <2>2. CASE k \in m + 1 .. m + n
    <3>1. /\ k \in m + 1 .. m + n + 1 /\ k + 1 \in m + 1 .. m + n + 1
          /\ k - m \in 1 .. n /\ (k + 1) - m = (k - m) + 1
      BY <2>2
    <3>2. r[k] = q[k - m] /\ r[k + 1] = q[(k - m) + 1] /\ u[k] = w[k - m]
      BY <1>5, <1>8, <2>2, <3>1
    <3>3. /\ Placed(w[k - m], q[k - m])
          /\ q[(k - m) + 1] = q[k - m] + LengthInSequenceSpace(w[k - m])
      BY <1>6, <3>1
    <3> QED BY <3>2, <3>3
  <2> QED BY <1>5, <2>1, <2>2
<1>11. r[1] = a /\ r[Len(u) + 1] = c
  <2>1. 1 \in 1 .. m + 1 /\ m + n + 1 \in m + 1 .. m + n + 1 /\ (m + n + 1) - m = n + 1
    OBVIOUS
  <2> QED BY <1>1, <1>2, <1>3, <1>5, <1>8, <2>1
<1>12. Laid(u, r)
  BY <1>9, <1>10 DEF Laid
<1> QED BY <1>4, <1>11, <1>12 DEF Stretch

\* What is left when segments are taken off the front is a stretch.
LEMMA LaidDrop ==
    ASSUME NEW w \in Seq(Seg), NEW pos, Laid(w, pos), NEW k \in 0 .. Len(w)
    PROVE  Stretch(SubSeq(w, k + 1, Len(w)), pos[k + 1], pos[Len(w) + 1])
<1>1. PICK m \in Nat, n \in Nat : n = Len(w) /\ m = n - k
  BY LenProperties
<1>2. k \in Nat /\ k + m = n /\ k + m <= Len(w)
  BY <1>1
<1>3. PICK u : u = SubSeq(w, k + 1, k + m)
  OBVIOUS
<1>4. Len(u) = m /\ \A i \in 1 .. m : u[i] = w[k + i]
  <2>1. /\ Len(SubSeq(w, k + 1, k + m)) = m
        /\ \A i \in 1 .. m : SubSeq(w, k + 1, k + m)[i] = w[k + i]
    BY <1>2, SubSeqParts
  <2> QED BY <1>3, <2>1
<1> DEFINE r == [i \in 1 .. m + 1 |-> pos[k + i]]
<1>5. /\ pos \in [1 .. n + 1 -> Nat]
      /\ \A i \in 1 .. n : Placed(w[i], pos[i]) /\ pos[i + 1] = pos[i] + LengthInSequenceSpace(w[i])
  BY <1>1 DEF Laid
<1>6. r \in [1 .. m + 1 -> Nat]
  <2>1. \A i \in 1 .. m + 1 : k + i \in 1 .. n + 1
    BY <1>2
  <2> QED BY <1>5, <2>1
<1>7. ASSUME NEW i \in 1 .. m
      PROVE  Placed(u[i], r[i]) /\ r[i + 1] = r[i] + LengthInSequenceSpace(u[i])
  <2>1. /\ k + i \in 1 .. n /\ i \in 1 .. m + 1 /\ i + 1 \in 1 .. m + 1
        /\ k + (i + 1) = (k + i) + 1
    BY <1>2
  <2>2. r[i] = pos[k + i] /\ r[i + 1] = pos[(k + i) + 1] /\ u[i] = w[k + i]
    BY <1>4, <2>1
  <2> QED BY <1>5, <2>1, <2>2
<1>8. r[1] = pos[k + 1] /\ r[m + 1] = pos[n + 1]
  <2>1. 1 \in 1 .. m + 1 /\ m + 1 \in 1 .. m + 1 /\ k + (m + 1) = n + 1
    BY <1>2
  <2> QED BY <2>1
<1> HIDE DEF r
<1>9. Laid(u, r)
  BY <1>4, <1>6, <1>7 DEF Laid
<1> QED BY <1>1, <1>2, <1>3, <1>4, <1>8, <1>9 DEF Stretch

\* The lengths of the first k segments add up to the distance.
LEMMA LaidSum ==
    ASSUME NEW w \in Seq(Seg), NEW pos, Laid(w, pos), NEW k \in 0 .. Len(w),
           NEW f, f = [i \in DOMAIN w |-> LengthInSequenceSpace(w[i])]
    PROVE  pos[k + 1] = pos[1] + SumTo(f, k)
<1>1. PICK n \in Nat : n = Len(w) /\ DOMAIN w = 1 .. n
  BY LenProperties
<1>2. \A i \in 1 .. n : f[i] = LengthInSequenceSpace(w[i]) /\ f[i] \in Nat
  <2>1. \A i \in 1 .. n : w[i] \in Seg
    BY <1>1
  <2> QED BY <1>1, <2>1, LengthType
<1>3. /\ SumTo(f, 0) = 0
      /\ \A m \in 0 .. n : SumTo(f, m) \in Nat
      /\ \A m \in 0 .. n - 1 : SumTo(f, m + 1) = SumTo(f, m) + f[m + 1]
  BY <1>2, SumToSteps
<1>4. /\ pos \in [1 .. n + 1 -> Nat]
      /\ \A i \in 1 .. n : pos[i + 1] = pos[i] + LengthInSequenceSpace(w[i])
  BY <1>1 DEF Laid
<1> DEFINE G == {m \in 0 .. n : pos[m + 1] = pos[1] + SumTo(f, m)}
<1>5. 0 \in G
  <2>1. pos[1] \in Nat
    BY <1>4
  <2> QED BY <1>3, <2>1
<1>6. ASSUME NEW m \in 0 .. n - 1, m \in G PROVE m + 1 \in G
  <2>1. m + 1 \in 1 .. n /\ m \in 0 .. n /\ m + 1 \in 0 .. n
    OBVIOUS
  <2>2. PICK x \in Nat, y \in Nat, z \in Nat :
            x = pos[1] /\ y = SumTo(f, m) /\ z = LengthInSequenceSpace(w[m + 1])
    <3>1. pos[1] \in Nat
      BY <1>4
    <3>2. SumTo(f, m) \in Nat
      BY <1>3, <2>1
    <3>3. LengthInSequenceSpace(w[m + 1]) \in Nat
      BY <1>2, <2>1
    <3> QED BY <3>1, <3>2, <3>3
  <2>3. pos[m + 1] = x + y /\ SumTo(f, m + 1) = y + z
    BY <1>2, <1>3, <1>6, <2>1, <2>2
  <2>4. pos[(m + 1) + 1] = x + (y + z)
    <3>1. pos[(m + 1) + 1] = pos[m + 1] + z
      BY <1>4, <2>1, <2>2
    <3> QED BY <2>3, <3>1
  <2> QED BY <2>1, <2>2, <2>3, <2>4
<1>7. \A m \in 0 .. n : m \in G
  <2> HIDE DEF G
  <2> QED BY <1>5, <1>6, InductionUpTo
<1> QED BY <1>1, <1>7

\* No segment begins after the end of the stretch.
LEMMA LaidOrder ==
    ASSUME NEW w \in Seq(Seg), NEW pos, Laid(w, pos), NEW k \in 1 .. Len(w) + 1
    PROVE  pos[k] \in Nat /\ pos[Len(w) + 1] \in Nat /\ pos[k] <= pos[Len(w) + 1]
<1>1. PICK n \in Nat : n = Len(w)
  BY LenProperties
<1>2. /\ pos \in [1 .. n + 1 -> Nat]
      /\ \A i \in 1 .. n : pos[i + 1] = pos[i] + LengthInSequenceSpace(w[i])
  BY <1>1 DEF Laid
<1>3. \A i \in 1 .. n : pos[i] <= pos[i + 1]
  <2>1. ASSUME NEW i \in 1 .. n PROVE pos[i] <= pos[i + 1]
    <3>1. w[i] \in Seg
      BY <1>1
    <3>2. LengthInSequenceSpace(w[i]) \in Nat /\ pos[i] \in Nat
      BY <1>2, <3>1, LengthType
    <3> QED BY <1>2, <3>2
  <2> QED BY <2>1
<1> DEFINE G == {j \in 0 .. n : pos[n + 1 - j] <= pos[n + 1]}
<1>4. 0 \in G
  <2>1. pos[n + 1] \in Nat /\ n + 1 - 0 = n + 1
    BY <1>2
  <2> QED BY <2>1
<1>5. ASSUME NEW j \in 0 .. n - 1, j \in G PROVE j + 1 \in G
  <2>1. PICK i \in 1 .. n : i = n + 1 - (j + 1) /\ i + 1 = n + 1 - j
    OBVIOUS
  <2>2. pos[i] <= pos[i + 1] /\ pos[i + 1] <= pos[n + 1]
    BY <1>3, <1>5, <2>1
  <2>3. pos[i] \in Nat /\ pos[i + 1] \in Nat /\ pos[n + 1] \in Nat
    BY <1>2
  <2>4. pos[i] <= pos[n + 1]
    BY <2>2, <2>3
  <2> QED BY <2>1, <2>4
<1>6. \A j \in 0 .. n : j \in G
  <2> HIDE DEF G
  <2> QED BY <1>4, <1>5, InductionUpTo
<1>7. PICK j \in 0 .. n : n + 1 - j = k
  <2>1. n + 1 - k \in 0 .. n /\ n + 1 - (n + 1 - k) = k
    BY <1>1
  <2> QED BY <2>1
<1>8. pos[k] <= pos[n + 1]
  BY <1>6, <1>7
<1>9. k \in 1 .. n + 1 /\ n + 1 \in 1 .. n + 1
  BY <1>1
<1> QED BY <1>1, <1>2, <1>8, <1>9

\* The k-th chunk of a burst starts at st and has m bytes: it is full unless it
\* is the last one, which ends with the bytes.
ChunkIs(k, count, one, n, st, m, L) ==
    /\ count \in Nat /\ st \in Nat /\ m \in Nat /\ st + m <= n
    /\ m > 0 \/ (one /\ count = 1)
    /\ k < count => st + m = k * L
    /\ k = count => st + m = n

LEMMA ChunkOf ==
    ASSUME NEW L \in Nat, L > 0, NEW n \in Nat, NEW one \in BOOLEAN,
           NEW c, c = ChunkCount(n, L),
           NEW count, count = (IF one THEN MaxOf(c, 1) ELSE c),
           NEW k \in 1 .. count, NEW st, st = (k - 1) * L,
           NEW m, m = MinOf(L, n - st)
    PROVE  ChunkIs(k, count, one, n, st, m, L)
<1>1. c \in Nat /\ n <= c * L /\ (n = 0 => c = 0) /\ (n > 0 => c > 0)
  <2>1. Covers(c, n, L)
    BY ChunksCover
  <2> QED BY <2>1 DEF Covers
<1>2. count \in Nat /\ (count = c \/ (one /\ count = 1 /\ c = 0))
  BY <1>1 DEF MaxOf
<1>3. k \in Nat /\ k >= 1 /\ k <= count
  BY <1>2
<1>4. CASE count = c
  <2>1. st \in Nat /\ st < n
    <3>1. k <= (n + L - 1) \div L
      BY <1>3, <1>4 DEF ChunkCount
    <3> QED BY <1>3, <3>1, ChunkStart
  <2>2. PICK j \in Nat : k = j + 1
    <3>1. k - 1 \in Nat
      BY <1>3
    <3> QED BY <3>1
  <2>3. st = j * L /\ k * L = (j + 1) * L /\ (j + 1) * L = st + L
    BY <2>1, <2>2
  <2>4. ASSUME k < count PROVE st + L < n
    <3>1. PICK i \in Nat : i = k + 1
      BY <1>3
    <3>2. i >= 1 /\ i <= (n + L - 1) \div L /\ i - 1 = j + 1
      BY <1>2, <1>3, <1>4, <2>2, <2>4, <3>1 DEF ChunkCount
    <3>3. (i - 1) * L < n
      BY <3>2, ChunkStart
    <3> QED BY <2>3, <3>2, <3>3
  <2>5. ASSUME k = count PROVE n <= st + L
    <3>1. c = j + 1
      BY <1>4, <2>2, <2>5
    <3> QED BY <1>1, <2>3, <3>1
  <2>6. m \in Nat /\ m > 0 /\ st + m <= n
    BY <2>1 DEF MinOf
  <2>7. k < count => m = L
    BY <2>1, <2>4 DEF MinOf
  <2>8. ASSUME k = count PROVE st + m = n
    <3>1. n <= st + L
      BY <2>5, <2>8
    <3> QED BY <2>1, <3>1 DEF MinOf
  <2>9. k < count => st + m = k * L
    BY <2>3, <2>7
  <2> QED BY <1>2, <2>1, <2>6, <2>8, <2>9 DEF ChunkIs
<1>5. CASE one /\ count = 1 /\ c = 0
  <2>1. k = 1 /\ n = 0
    BY <1>1, <1>3, <1>5
  <2>2. st = 0
    BY <2>1
  <2>3. m = 0
    BY <2>1, <2>2 DEF MinOf
  <2> QED BY <1>2, <1>5, <2>1, <2>2, <2>3 DEF ChunkIs
<1> QED BY <1>2, <1>4, <1>5

\* The segments that fill_window() makes are the stretch of the sequence space
\* that it adds, with the bytes of the stream in their places.
LEMMA BurstStretch ==
    ASSUME NEW s, s.isn = Isn, NEW N \in Nat, s.next_seqno = N,
           NEW rd \in Nat, NEW q \in Nat, Bytes(s.stream.que, rd, q),
           NEW syn \in BOOLEAN, syn <=> (N = 0), N + BoolToNat(syn) = 1 + rd,
           NEW n \in 0 .. q, NEW fin \in BOOLEAN,
           NEW len, len = n + BoolToNat(syn) + BoolToNat(fin)
    PROVE  Stretch(Burst(s, syn, n, fin), N, N + len)
<1> DEFINE chunks == ChunkCount(n, MaxPayload)
           count  == IF syn \/ fin THEN MaxOf(chunks, 1) ELSE chunks
           Start(k) == (k - 1) * MaxPayload
           Seqno(k) == N + Start(k) + (IF k > 1 THEN BoolToNat(syn) ELSE 0)
           SegAt(k) == NewSegment(wrap(Seqno(k), Isn),
                         syn /\ k = 1,
                         Substr(s.stream.que, Start(k), MinOf(MaxPayload, n - Start(k))),
                         fin /\ k = count)
           segs == [k \in 1 .. count |-> SegAt(k)]
           pos == [k \in 1 .. count + 1 |-> IF k <= count THEN Seqno(k) ELSE N + len]
<1>1. PICK y \in 0 .. 1, f \in 0 .. 1 :
          y = BoolToNat(syn) /\ f = BoolToNat(fin) /\ (syn => y = 1) /\ (fin => f = 1)
          /\ (~ syn => y = 0) /\ (~ fin => f = 0)
  BY DEF BoolToNat
<1>2. chunks \in Nat /\ (n = 0 => chunks = 0) /\ (n > 0 => chunks > 0) /\ n \in Nat
  <2>1. n \in Nat
    OBVIOUS
  <2>2. MaxPayload \in Nat /\ MaxPayload > 0
    BY MaxPayloadAssumption
  <2>3. chunks \in Nat /\ (n = 0 => chunks = 0) /\ (n > 0 => chunks > 0)
    <3>1. Covers(chunks, n, MaxPayload)
      BY <2>1, <2>2, ChunksCover
    <3> QED BY <3>1 DEF Covers
  <2> QED BY <2>1, <2>3
<1>3. count \in Nat /\ (count = 0 => ~ syn /\ ~ fin /\ n = 0)
  <2> HIDE DEF chunks
  <2> QED BY <1>2 DEF MaxOf
<1>4. ASSUME NEW k \in 1 .. count, NEW st, st = Start(k),
             NEW m, m = MinOf(MaxPayload, n - st)
      PROVE  /\ st \in Nat /\ m \in Nat /\ st + m <= n
             /\ m > 0 \/ ((syn \/ fin) /\ count = 1)
             /\ k < count => st + m = Start(k + 1)
             /\ k = count => st + m = n
  <2>1. (syn \/ fin) \in BOOLEAN
    OBVIOUS
  <2>2. MaxPayload \in Nat /\ MaxPayload > 0 /\ n \in Nat
    BY <1>2, MaxPayloadAssumption
  <2>3. PICK one, c : one \in BOOLEAN /\ one = (syn \/ fin) /\ c = chunks
    BY <2>1
  <2>4. PICK ct : ct = count /\ ct = IF one THEN MaxOf(c, 1) ELSE c
    BY <2>3
  <2>5. ChunkIs(k, ct, one, n, st, m, MaxPayload)
    <3>1. k \in 1 .. ct /\ st = (k - 1) * MaxPayload
      BY <1>4, <2>4
    <3>2. c = ChunkCount(n, MaxPayload)
      BY <2>3
    <3> HIDE DEF count, Start, chunks
    <3> QED BY <1>4, <2>2, <2>3, <2>4, <3>1, <3>2, ChunkOf
  <2>6. Start(k + 1) = k * MaxPayload
    <3>1. k \in Int
      BY <1>3
    <3>2. (k + 1) - 1 = k
      BY <3>1
    <3> QED BY <3>2
  <2> HIDE DEF count, Start
  <2> QED BY <2>3, <2>4, <2>5, <2>6 DEF ChunkIs
<1> HIDE DEF count, Start
<1>5. ASSUME NEW k \in 1 .. count
      PROVE  \E st \in Nat, m \in Nat :
               /\ st = Start(k) /\ m = MinOf(MaxPayload, n - st) /\ st + m <= n
               /\ m > 0 \/ ((syn \/ fin) /\ count = 1)
               /\ k < count => st + m = Start(k + 1)
               /\ k = count => st + m = n
  <2>1. PICK st, m : st = Start(k) /\ m = MinOf(MaxPayload, n - st)
    OBVIOUS
  <2> QED BY <1>4, <2>1
<1>6. Len(segs) = count
  <2> HIDE DEF SegAt
  <2> QED BY <1>3
<1>7. ASSUME NEW k \in 1 .. count PROVE Seqno(k) \in Nat
  <2>1. Start(k) \in Nat
    BY <1>5
  <2> QED BY <1>1, <1>3, <2>1
<1>8. len \in Nat /\ len = n + y + f
  BY <1>1, <1>2
<1>9. pos \in [1 .. count + 1 -> Nat]
  <2>1. ASSUME NEW k \in 1 .. count + 1
        PROVE  (IF k <= count THEN Seqno(k) ELSE N + len) \in Nat
    <3> HIDE DEF Seqno
    <3>1. CASE k <= count
      <4>1. k \in 1 .. count
        BY <1>3, <3>1
      <4> QED BY <1>7, <3>1, <4>1
    <3>2. CASE ~ (k <= count)
      BY <1>8, <3>2
    <3> QED BY <3>1, <3>2
  <2> HIDE DEF Seqno
  <2> QED BY <2>1
<1>10. ASSUME NEW k \in 1 .. count
       PROVE  Placed(segs[k], pos[k]) /\ pos[k + 1] = pos[k] + LengthInSequenceSpace(segs[k])
  <2>1. PICK st \in Nat, m \in Nat :
               /\ st = Start(k) /\ m = MinOf(MaxPayload, n - st) /\ st + m <= n
               /\ m > 0 \/ ((syn \/ fin) /\ count = 1)
               /\ k < count => st + m = Start(k + 1)
               /\ k = count => st + m = n
    BY <1>5
  <2>2. PICK seg : seg = segs[k]
    OBVIOUS
  <2>3. PICK p \in Nat : p = Seqno(k)
    BY <1>7
  <2>4. pos[k] = p
    <3>1. k \in 1 .. count + 1 /\ k <= count
      BY <1>3
    <3> HIDE DEF Seqno
    <3> QED BY <2>3, <3>1
  <2>5. PICK d : d = Substr(s.stream.que, st, m)
    OBVIOUS
  <2>6. Bytes(d, rd + st, m)
    <3>1. st + m <= q
      BY <2>1
    <3> QED BY <2>5, <3>1, BytesPart
  <2>7. /\ seg.seqno = wrap(p, Isn) /\ seg.syn = (syn /\ k = 1) /\ seg.fin = (fin /\ k = count)
        /\ seg.payload = d
    <3>1. seg = NewSegment(wrap(p, Isn), syn /\ k = 1, d, fin /\ k = count)
      <4> HIDE DEF Seqno
      <4> QED BY <2>1, <2>2, <2>3, <2>5
    <3> QED BY <3>1 DEF NewSegment
  <2>8. PICK y1 \in 0 .. 1, f1 \in 0 .. 1 :
            /\ y1 = BoolToNat(seg.syn) /\ f1 = BoolToNat(seg.fin)
            /\ (k = 1 => y1 = y) /\ (k # 1 => y1 = 0)
            /\ (k = count => f1 = f) /\ (k # count => f1 = 0)
    <3>1. PICK y1 \in 0 .. 1 : y1 = BoolToNat(seg.syn) /\ (k = 1 => y1 = y) /\ (k # 1 => y1 = 0)
      <4>1. CASE k = 1
        <5>1. seg.syn = syn
          BY <2>7, <4>1, Zenon
        <5> QED BY <1>1, <4>1, <5>1
      <4>2. CASE k # 1
        <5>1. seg.syn = FALSE
          BY <2>7, <4>2, Zenon
        <5>2. BoolToNat(seg.syn) = 0
          BY <5>1 DEF BoolToNat
        <5> QED BY <4>2, <5>2
      <4> QED BY <4>1, <4>2
    <3>2. PICK f1 \in 0 .. 1 :
              f1 = BoolToNat(seg.fin) /\ (k = count => f1 = f) /\ (k # count => f1 = 0)
      <4>1. CASE k = count
        <5>1. seg.fin = fin
          BY <2>7, <4>1, Zenon
        <5> QED BY <1>1, <4>1, <5>1
      <4>2. CASE k # count
        <5>1. seg.fin = FALSE
          BY <2>7, <4>2, Zenon
        <5>2. BoolToNat(seg.fin) = 0
          BY <5>1 DEF BoolToNat
        <5> QED BY <4>2, <5>2
      <4> QED BY <4>1, <4>2
    <3> QED BY <3>1, <3>2
  <2>9. LengthInSequenceSpace(seg) = m + y1 + f1
    <3>1. Len(seg.payload) = m
      BY <2>6, <2>7 DEF Bytes
    <3> QED BY <2>8, <3>1 DEF LengthInSequenceSpace
  <2>10. p = N + st + (IF k > 1 THEN y ELSE 0)
    BY <1>1, <2>1, <2>3
  <2>11. p + y1 = N + st + y
    BY <1>3, <2>8, <2>10
  <2>12. m + y1 + f1 > 0
    <3>1. CASE m > 0
      BY <3>1
    <3>2. CASE (syn \/ fin) /\ count = 1
      <4>1. k = 1 /\ k = count
        BY <3>2
      <4>2. y1 = y /\ f1 = f /\ (y = 1 \/ f = 1)
        BY <1>1, <2>8, <3>2, <4>1
      <4> QED BY <4>2
    <3> QED BY <2>1, <3>1, <3>2
  <2>13. \A i \in DOMAIN seg.payload : seg.payload[i] = p + BoolToNat(seg.syn) + i - 2
    <3>1. DOMAIN d = 1 .. m /\ \A i \in 1 .. m : d[i] = (rd + st) + i - 1
      <4>1. d \in Seq(Nat) /\ Len(d) = m /\ \A i \in 1 .. m : d[i] = (rd + st) + i - 1
        BY <2>6, Zenon DEF Bytes
      <4>2. DOMAIN d = 1 .. Len(d)
        BY <4>1, LenProperties
      <4> QED BY <4>1, <4>2
    <3>2. N + y = 1 + rd
      BY <1>1
    <3>3. ASSUME NEW i \in 1 .. m PROVE d[i] = p + y1 + i - 2
      <4>1. d[i] = (rd + st) + i - 1
        BY <3>1
      <4> QED BY <2>11, <3>2, <4>1
    <3> QED BY <2>7, <2>8, <3>1, <3>3
  <2>14. Placed(seg, p)
    BY <2>7, <2>9, <2>12, <2>13 DEF Placed
  <2>15. pos[k + 1] = p + (m + y1 + f1)
    <3>1. CASE k < count
      <4>1. k + 1 \in 1 .. count + 1 /\ k + 1 <= count /\ k + 1 > 1 /\ k # count
        BY <1>3, <3>1
      <4>2. pos[k + 1] = Seqno(k + 1)
        <5> HIDE DEF Seqno
        <5> QED BY <4>1
      <4>3. Seqno(k + 1) = N + (st + m) + y
        BY <1>1, <2>1, <3>1, <4>1
      <4>4. f1 = 0
        BY <2>8, <4>1
      <4> HIDE DEF pos, Seqno
      <4> QED BY <2>11, <4>2, <4>3, <4>4
    <3>2. CASE k = count
      <4>1. k + 1 \in 1 .. count + 1 /\ ~ (k + 1 <= count)
        BY <1>3, <3>2
      <4>2. pos[k + 1] = N + len
        <5> HIDE DEF Seqno
        <5> QED BY <4>1
      <4>3. f1 = f /\ st + m = n
        BY <2>1, <2>8, <3>2
      <4> HIDE DEF pos, Seqno
      <4> QED BY <1>8, <2>11, <4>2, <4>3
    <3> QED BY <1>3, <3>1, <3>2
  <2> HIDE DEF pos, segs
  <2> QED BY <2>2, <2>4, <2>9, <2>14, <2>15
<1>11. pos[1] = N /\ pos[count + 1] = N + len
  <2>1. 1 \in 1 .. count + 1 /\ count + 1 \in 1 .. count + 1 /\ ~ (count + 1 <= count)
    BY <1>3
  <2>2. pos[count + 1] = N + len
    <3> HIDE DEF Seqno
    <3> QED BY <2>1
  <2>3. CASE count = 0
    <3>1. y = 0 /\ f = 0 /\ n = 0
      BY <1>1, <1>3, <2>3
    <3>2. N + len = N
      BY <1>8, <3>1
    <3>3. count + 1 = 1
      BY <2>3
    <3> HIDE DEF pos
    <3> QED BY <2>2, <3>2, <3>3
  <2>4. CASE count # 0
    <3>1. 1 <= count /\ ~ (1 > 1)
      BY <1>3, <2>4
    <3>2. Start(1) = 0
      BY MaxPayloadAssumption DEF Start
    <3>3. Seqno(1) = N
      BY <3>1, <3>2
    <3>4. pos[1] = Seqno(1)
      <4> HIDE DEF Seqno
      <4> QED BY <2>1, <3>1
    <3> HIDE DEF pos, Seqno
    <3> QED BY <2>2, <3>3, <3>4
  <2> QED BY <2>3, <2>4
<1>12. Burst(s, syn, n, fin) = segs
  BY DEF Burst, count, Start, ChunkCount
<1> HIDE DEF segs, pos
<1>13. Laid(segs, pos)
  BY <1>6, <1>9, <1>10 DEF Laid
<1> QED BY <1>6, <1>11, <1>12, <1>13 DEF Stretch

-----------------------------------------------------------------------------
\* The layout of a sender: what it has read and not yet read is the stream, and
\* _wait_ack is the stretch of _flight_bytes that ends at _next_seqno.
Layout(s) ==
    /\ s.isn = Isn
    /\ GoodOutput(s.stream, s.stream.writtensize, Capacity)
    /\ s.stream.writtensize <= StreamLen
    /\ s.flight_bytes \in Nat /\ s.flight_bytes <= s.next_seqno
    /\ Stretch(s.wait_ack, s.next_seqno - s.flight_bytes, s.next_seqno)

\* The first sequence number that is not acknowledged.
Base(s) == s.next_seqno - s.flight_bytes

\* The sequence numbers stay far from where they would wrap.
LEMMA LayoutBounds ==
    ASSUME NEW s, SenderInv(s), Layout(s)
    PROVE  /\ s.next_seqno \in Nat /\ s.next_seqno <= StreamLen + 2
           /\ s.next_seqno + 1 < Half32 /\ s.next_seqno + 1 + Wrap32 <= Wrap64
<1>1. StreamLen \in Nat /\ StreamLen + 3 < Half32 /\ Capacity \in Nat
  BY SenderAssumption
<1>2. /\ s.stream.readsize \in Nat /\ s.stream.readsize <= StreamLen
      /\ s.next_seqno \in Nat
  <2>1. s.stream \in ByteStreamType(Nat) /\ s.next_seqno \in Nat
    BY DEF SenderInv, Typed
  <2>2. s.stream.readsize \in Nat /\ s.stream.writtensize \in Nat
    BY <2>1 DEF ByteStreamType
  <2>3. s.stream.readsize <= s.stream.writtensize
    BY <1>1, <2>2, GoodOutputMembers DEF Layout
  <2>4. s.stream.writtensize <= StreamLen
    BY DEF Layout
  <2> QED BY <1>1, <2>1, <2>2, <2>3, <2>4
<1>3. s.next_seqno <= StreamLen + 2
  <2>1. PICK x \in 0 .. 1, y \in 0 .. 1 : s.next_seqno = x + s.stream.readsize + y
    <3>1. \A b : BoolToNat(b) \in 0 .. 1
      BY DEF BoolToNat
    <3> QED BY <3>1 DEF SenderInv, Counted
  <2> QED BY <1>1, <1>2, <2>1
<1>4. Half32 \in Nat /\ 2 * Half32 = Wrap32 /\ Wrap32 \in Nat
      /\ Wrap64 \in Nat /\ Wrap64 >= 2 * Wrap32
  BY WrapAssumption DEF Half32
<1> QED BY <1>1, <1>2, <1>3, <1>4

\* What is in the sequence space does not matter to Layout's neighbours.
LEMMA SameLayout ==
    ASSUME NEW s, NEW r, Layout(s), SameSpace(r, s)
    PROVE  Layout(r) /\ Base(r) = Base(s)
BY DEF Layout, SameSpace, Base

\* What fill_window() may do to the sequence space.
Filled(r, s) ==
    /\ Base(r) = Base(s) /\ r.ackno = s.ackno /\ r.window_sz = s.window_sz
    /\ r.next_seqno >= s.next_seqno
    /\ r.next_seqno = s.next_seqno \/ r.next_seqno <= WindowEdge(s)

\* read() of the outbound stream leaves the rest of it.
LEMMA ReadKeepsRest ==
    ASSUME NEW o, NEW cap \in Nat, o.writtensize \in Nat, GoodOutput(o, o.writtensize, cap),
           NEW len \in Nat
    PROVE  /\ GoodOutput(Read(o, len), o.writtensize, cap)
           /\ Read(o, len).writtensize = o.writtensize
<1>1. PICK L \in Nat : L = o.writtensize
  OBVIOUS
<1>2. PICK b : b = Read(o, len)
  OBVIOUS
<1>3. GoodOutput(b, L, cap) /\ b.writtensize = o.writtensize /\ b.readsize >= o.readsize
      /\ b.end = o.end
  BY <1>1, <1>2, ReadGood
<1> QED BY <1>1, <1>2, <1>3

\* fill_window() keeps the layout and stays in the window.
LEMMA FillWindowLayout ==
    ASSUME NEW s, SenderInv(s), Layout(s)
    PROVE  Layout(FillWindow(s)) /\ Filled(FillWindow(s), s)
<1>1. /\ s.stream \in ByteStreamType(Nat) /\ s.next_seqno \in Nat
      /\ s.stream.readsize \in Nat /\ s.stream.writtensize \in Nat
      /\ s.wait_ack \in Seq(Seg) /\ s.flight_bytes \in Nat /\ s.flight_bytes <= s.next_seqno
      /\ Shape(s) /\ Typed(s) /\ Capacity \in Nat
  BY SenderAssumption DEF SenderInv, Typed, ByteStreamType, Layout
<1>2. CASE FillWindow(s) = s
  BY <1>1, <1>2 DEF Filled
<1>3. ASSUME NEW n \in 0 .. Len(s.stream.que), NEW fin \in BOOLEAN, NEW len \in Nat,
             NEW segs, segs = Burst(s, s.next_seqno = 0, n, fin), Fits(s, n, fin, len),
             SentBy(FillWindow(s), s, n, fin, segs, len)
      PROVE  Layout(FillWindow(s)) /\ Filled(FillWindow(s), s)
  <2>1. PICK r : r = FillWindow(s)
    OBVIOUS
  <2>2. PICK N \in Nat, fb \in Nat, rd \in Nat, q \in Nat :
            /\ N = s.next_seqno /\ fb = s.flight_bytes /\ fb <= N
            /\ rd = s.stream.readsize /\ q = Len(s.stream.que)
    <3>1. s.stream.que \in Seq(Nat)
      BY <1>1 DEF ByteStreamType
    <3>2. Len(s.stream.que) \in Nat
      BY <3>1, LenProperties
    <3> QED BY <1>1, <3>2
  <2>3. PICK syn \in BOOLEAN : syn = (N = 0)
    OBVIOUS
  <2>4. PICK b : b = Read(s.stream, n)
    OBVIOUS
  <2>5. /\ r.isn = Isn /\ r.stream = b /\ r.next_seqno = N + len
        /\ r.flight_bytes = fb + len /\ r.wait_ack = s.wait_ack \o segs
        /\ r.ackno = s.ackno /\ r.window_sz = s.window_sz
    BY <1>3, <2>1, <2>2, <2>4 DEF SentBy, Layout
  <2>6. GoodOutput(b, b.writtensize, Capacity) /\ b.writtensize = s.stream.writtensize
    <3>1. n \in Nat
      OBVIOUS
    <3>2. GoodOutput(s.stream, s.stream.writtensize, Capacity)
      BY DEF Layout
    <3>3. /\ GoodOutput(b, s.stream.writtensize, Capacity)
          /\ b.writtensize = s.stream.writtensize
      <4>1. Capacity \in Nat /\ s.stream.writtensize \in Nat
        BY <1>1
      <4> QED BY <2>4, <3>1, <3>2, <4>1, ReadKeepsRest
    <3> QED BY <3>3
  <2>7. segs \in Seq(Seg)
    <3>1. (s.next_seqno = 0) \in BOOLEAN
      OBVIOUS
    <3> QED BY <1>1, <1>3, <3>1, BurstType
  <2>8. Stretch(segs, N, N + len)
    <3>1. segs = Burst(s, syn, n, fin)
      BY <1>3, <2>2, <2>3
    <3>2. Bytes(s.stream.que, rd, q)
      BY <2>2 DEF Layout, GoodOutput
    <3>3. N + BoolToNat(syn) = 1 + rd
      <4>1. ~ s.set_fin
        BY <1>3 DEF Fits
      <4>2. s.next_seqno = BoolToNat(s.next_seqno > 0) + s.stream.readsize
        BY <1>1, <4>1 DEF SenderInv, Counted, BoolToNat
      <4>3. N = (IF N > 0 THEN 1 ELSE 0) + rd
        BY <2>2, <4>2, Zenon DEF BoolToNat
      <4>4. CASE N = 0
        <5>1. BoolToNat(syn) = 1
          BY <2>3, <4>4 DEF BoolToNat
        <5> QED BY <4>3, <4>4, <5>1
      <4>5. CASE N > 0
        <5>1. syn = FALSE
          <6>1. ~ (N = 0)
            BY <4>5
          <6> QED BY <2>3, <6>1, Zenon
        <5>2. BoolToNat(syn) = 0
          BY <5>1, Zenon DEF BoolToNat
        <5> QED BY <4>3, <4>5, <5>2
      <4> QED BY <4>4, <4>5
    <3>4. len = n + BoolToNat(syn) + BoolToNat(fin)
      BY <1>3, <2>2, <2>3 DEF Fits
    <3>5. s.isn = Isn /\ s.next_seqno = N /\ n \in 0 .. q /\ (syn <=> N = 0)
      BY <2>2, <2>3 DEF Layout
    <3>6. Stretch(Burst(s, syn, n, fin), N, N + len)
      BY <3>2, <3>3, <3>4, <3>5, BurstStretch
    <3> QED BY <3>1, <3>6
  <2>9. Stretch(s.wait_ack, N - fb, N)
    BY <2>2 DEF Layout
  <2>10. Stretch(r.wait_ack, N - fb, N + len)
    <3>1. Stretch(s.wait_ack \o segs, N - fb, N + len)
      BY <1>1, <2>7, <2>8, <2>9, StretchConcat
    <3> QED BY <2>5, <3>1
  <2>11. r.next_seqno - r.flight_bytes = N - fb
    BY <2>2, <2>5
  <2>12. r.flight_bytes \in Nat /\ r.flight_bytes <= r.next_seqno
    BY <2>2, <2>5
  <2>13. Layout(r)
    <3>1. r.stream.writtensize <= StreamLen
      BY <2>5, <2>6 DEF Layout
    <3> QED BY <2>5, <2>6, <2>10, <2>11, <2>12, <3>1 DEF Layout
  <2>14. Filled(r, s)
    <3>1. Base(r) = Base(s)
      BY <2>2, <2>11 DEF Base
    <3>2. r.next_seqno >= s.next_seqno
      BY <2>2, <2>5
    <3>3. r.next_seqno <= WindowEdge(s)
      BY <1>3, <2>2, <2>5 DEF Fits
    <3> QED BY <2>5, <3>1, <3>2, <3>3 DEF Filled
  <2> QED BY <2>1, <2>13, <2>14
<1> QED BY <1>1, <1>2, <1>3, FillWindowCases

\* What an acknowledgment of a may do to the sequence space.
Acknowledged(r, s, a, win) ==
    /\ r.next_seqno = s.next_seqno /\ r.ackno = a
    /\ a <= s.next_seqno => r.window_sz = win
    /\ Base(r) = Base(s) \/ (a <= s.next_seqno /\ Base(r) <= a)

\* ack_received() keeps the layout, and drops only what lies below the ackno.
LEMMA AckReceivedLayout ==
    ASSUME NEW s, SenderInv(s), Layout(s), NEW a \in Nat, a <= s.next_seqno + 1,
           NEW win \in Nat
    PROVE  /\ Layout(AckReceived(s, wrap(a, Isn), win))
           /\ Acknowledged(AckReceived(s, wrap(a, Isn), win), s, a, win)
<1>1. /\ s.wait_ack \in Seq(Seg) /\ s.isn = Isn /\ Isn \in Nat
      /\ Shape(s) /\ Typed(s)
  BY SenderAssumption, WrapAssumption DEF SenderInv, Typed, Layout, Uint32
<1>2. PICK N \in Nat, fb \in Nat : /\ N = s.next_seqno /\ fb = s.flight_bytes /\ fb <= N
                                   /\ N + 1 < Half32 /\ N + 1 + Wrap32 <= Wrap64
  BY LayoutBounds DEF Layout
<1>3. Half32 \in Nat /\ Wrap32 \in Nat /\ Wrap64 \in Nat
  BY WrapAssumption DEF Half32
<1>4. \A x \in Nat : x <= N + 1 => unwrap(wrap(x, Isn), Isn, N) = x
  <2>1. ASSUME NEW x \in Nat, x <= N + 1 PROVE unwrap(wrap(x, Isn), Isn, N) = x
    <3>1. N + Wrap32 <= Wrap64
      BY <1>2, <1>3
    <3>2. -Half32 <= x - N
      BY <1>2, <1>3
    <3>3. x - N < Half32
      BY <1>2, <1>3, <2>1
    <3> QED BY <1>1, <3>1, <3>2, <3>3, UnwrapWrap
  <2> QED BY <2>1
<1>5. a = unwrap(wrap(a, Isn), s.isn, s.next_seqno)
  BY <1>1, <1>2, <1>4
<1>6. PICK r : r = AckReceived(s, wrap(a, Isn), win)
  OBVIOUS
<1>7. PICK k : k = AckedCount(s, a)
  OBVIOUS
<1>8. AckedBy(r, s, a, win, k)
  BY <1>1, <1>5, <1>6, <1>7, AckReceivedCases
<1>9. k \in 0 .. Len(s.wait_ack) /\ k \in Nat
  <2>1. k \in 0 .. Len(s.wait_ack)
    BY <1>1, <1>7, AckedCountType
  <2> QED BY <2>1
<1>10. /\ r.isn = s.isn /\ r.stream = s.stream /\ r.next_seqno = N /\ r.ackno = a
       /\ (a <= N => r.window_sz = win)
  BY <1>2, <1>8 DEF AckedBy
<1>11. CASE a > s.next_seqno \/ k = 0
  <2>1. r.wait_ack = s.wait_ack /\ r.flight_bytes = s.flight_bytes
    BY <1>8, <1>11 DEF AckedBy
  <2> QED BY <1>2, <1>6, <1>10, <2>1 DEF Layout, Acknowledged, Base
<1>12. CASE ~ (a > s.next_seqno \/ k = 0)
  <2>1. a <= N /\ k >= 1
    BY <1>2, <1>9, <1>12
  <2>2. r.wait_ack = LeftOf(s, k) /\ r.flight_bytes = InFlightAfter(s, k)
    BY <1>8, <1>12 DEF AckedBy
  <2>3. PICK w \in Seq(Seg), n \in Nat : w = s.wait_ack /\ n = Len(w)
    BY <1>1, LenProperties
  <2>4. PICK pos : Laid(w, pos) /\ pos[1] = N - fb /\ pos[n + 1] = N
    BY <1>2, <2>3 DEF Layout, Stretch
  <2>5. PICK f : f = [i \in DOMAIN w |-> LengthInSequenceSpace(w[i])]
    OBVIOUS
  <2>6. k \in 0 .. n /\ k \in 1 .. n /\ k \in 1 .. n + 1 /\ k + 1 \in 1 .. n + 1
    BY <1>9, <2>1, <2>3
  <2>7. pos[k + 1] = pos[1] + SumTo(f, k)
    BY <2>3, <2>4, <2>5, <2>6, LaidSum
  <2>8. pos[k + 1] \in Nat /\ pos[k + 1] <= N /\ pos[k] \in Nat /\ pos[k] <= N
    BY <2>3, <2>4, <2>6, LaidOrder
  <2>9. InFlightAfter(s, k) = fb - SumTo(f, k)
    BY <1>2, <2>3, <2>5 DEF InFlightAfter
  <2>10. SumTo(f, k) \in Nat
    <3>1. ASSUME NEW i \in 1 .. k PROVE f[i] \in Nat
      <4>1. i \in DOMAIN w /\ w[i] \in Seg
        BY <2>3, <2>6
      <4> QED BY <2>5, <4>1, LengthType
    <3>2. \A m \in 0 .. k : SumTo(f, m) \in Nat
      BY <1>9, <3>1, SumToSteps
    <3> QED BY <1>9, <3>2
  <2>11. N - r.flight_bytes = pos[k + 1] /\ r.flight_bytes \in Nat /\ r.flight_bytes <= N
    <3>1. PICK x \in Nat, c \in Nat : x = SumTo(f, k) /\ c = pos[k + 1]
      BY <2>8, <2>10
    <3>2. r.flight_bytes = fb - x /\ c = (N - fb) + x /\ c <= N
      BY <2>2, <2>4, <2>7, <2>8, <2>9, <3>1
    <3>3. PICK g : g = r.flight_bytes
      OBVIOUS
    <3>4. g = fb - x /\ c = (N - fb) + x
      BY <3>2, <3>3
    <3>5. N - g = c /\ g \in Nat /\ g <= N
      <4>1. (N - fb) + x <= N /\ fb <= N
        BY <1>2, <3>2
      <4>2. fb - x \in Nat /\ fb - x <= N /\ N - (fb - x) = (N - fb) + x
        BY <4>1
      <4> QED BY <3>4, <4>2
    <3> QED BY <3>1, <3>3, <3>5
  <2>12. pos[k + 1] <= a
    <3>1. FullyAcked(s, a, w[k])
      <4> DEFINE T == {j \in 0 .. Len(w) : j < Len(w) => ~ FullyAcked(s, a, w[j + 1])}
      <4>1. Min(T) = k
        BY <1>7, <2>3 DEF AckedCount
      <4>2. PICK j \in Nat : j = k - 1 /\ j + 1 = k /\ j \in 0 .. Len(w) /\ j < Len(w) /\ j < k
        <5>1. k - 1 \in Nat /\ (k - 1) + 1 = k /\ k - 1 < n /\ k - 1 < k
          BY <2>6
        <5> QED BY <2>3, <5>1
      <4>3. n \in T /\ T \subseteq Nat
        BY <2>3
      <4>4. j \notin T
        <5>1. \A y \in T : k <= y
          <6>1. T # {} /\ T \subseteq Nat
            BY <4>3
          <6> HIDE DEF T
          <6> QED BY <4>1, <6>1, LeastElement
        <5> HIDE DEF T
        <5> QED BY <1>9, <4>2, <5>1
      <4> QED BY <4>2, <4>4
    <3>2. Placed(w[k], pos[k]) /\ pos[k + 1] = pos[k] + LengthInSequenceSpace(w[k])
      BY <2>3, <2>4, <2>6 DEF Laid
    <3>3. unwrap(w[k].seqno, s.isn, s.next_seqno) = pos[k]
      <4>1. w[k].seqno = wrap(pos[k], Isn)
        BY <3>2 DEF Placed
      <4>2. pos[k] <= N + 1
        BY <2>8
      <4> QED BY <1>1, <1>2, <1>4, <2>8, <4>1, <4>2
    <3>4. a >= pos[k] + LengthInSequenceSpace(w[k])
      BY <3>1, <3>3 DEF FullyAcked
    <3>5. a >= pos[k + 1]
      BY <3>2, <3>4
    <3> QED BY <2>8, <3>5
  <2>13. Stretch(r.wait_ack, N - r.flight_bytes, N)
    <3>1. Stretch(SubSeq(w, k + 1, Len(w)), pos[k + 1], pos[Len(w) + 1])
      BY <2>3, <2>4, <2>6, LaidDrop
    <3> QED BY <2>2, <2>3, <2>4, <2>11, <3>1 DEF LeftOf
  <2>14. Layout(r)
    BY <1>10, <2>11, <2>13 DEF Layout
  <2>15. Acknowledged(r, s, a, win)
    <3>1. Base(r) = pos[k + 1]
      BY <1>10, <2>11 DEF Base
    <3> QED BY <1>2, <1>10, <2>1, <2>12, <3>1 DEF Acknowledged
  <2> QED BY <1>6, <2>14, <2>15
<1> QED BY <1>11, <1>12

\* Writing the next bytes of the stream, as many as fit, or ending it.
LEMMA OutgoingWrite ==
    ASSUME NEW o, NEW cap \in Nat, NEW L \in Nat, GoodOutput(o, o.writtensize, cap),
           ~ o.end, NEW n \in Nat, o.writtensize + n <= L,
           NEW d, Bytes(d, o.writtensize, n), NEW b, b = Write(o, d)
    PROVE  /\ GoodOutput(b, b.writtensize, cap) /\ b.writtensize <= L
           /\ b.readsize = o.readsize
<1>1. PICK W \in Nat, C \in Nat : W = o.writtensize /\ C = o.capacity
  BY DEF GoodOutput, ByteStreamType
<1>2. GoodOutput(o, L, cap)
  <2>1. o.writtensize <= L
    BY <1>1
  <2> QED BY <2>1 DEF GoodOutput
<1>3. Len(d) = n
  BY DEF Bytes
<1>4. PICK m \in Nat : m = WriteSize(o, d) /\ m <= n /\ m <= C /\ (C <= n => m = C)
  BY <1>1, <1>3 DEF WriteSize, MinOf
<1>5. PICK e : e = Substr(d, 0, m)
  OBVIOUS
<1>6. Bytes(e, W, m) /\ Bytes(Substr(e, 0, m), W, m)
  <2>1. \A x : \A k \in Nat : Bytes(x, W, k) /\ m <= k => Bytes(Substr(x, 0, m), W, m)
    <3>1. ASSUME NEW x, NEW k \in Nat, Bytes(x, W, k), m <= k
          PROVE  Bytes(Substr(x, 0, m), W, m)
      <4>1. 0 \in Nat /\ 0 + m <= k /\ W + 0 = W
        BY <3>1
      <4>2. Bytes(Substr(x, 0, m), W + 0, m)
        BY <3>1, <4>1, BytesPart
      <4> QED BY <4>1, <4>2
    <3> QED BY <3>1
  <2>2. Bytes(d, W, n)
    BY <1>1
  <2>3. Bytes(e, W, m)
    BY <1>4, <1>5, <2>1, <2>2
  <2> QED BY <2>1, <2>3
<1>7. Substr(e, 0, m) = e
  <2>1. Substr(e, 0, m) = Excerpt(W, W + m)
    BY <1>6, ExcerptOfBytes
  <2>2. e = Excerpt(W, W + m)
    BY <1>6, ExcerptOfBytes
  <2> QED BY <2>1, <2>2
<1>8. WriteSize(o, e) = m
  <2>1. Len(e) = m
    BY <1>6, Zenon DEF Bytes
  <2>2. MinOf(C, m) = m
    BY <1>4 DEF MinOf
  <2> QED BY <1>1, <2>1, <2>2 DEF WriteSize
<1>9. b = Write(o, e)
  BY <1>4, <1>5, <1>7, <1>8 DEF Write
<1>10. /\ GoodOutput(b, L, cap) /\ b.writtensize = o.writtensize + m
       /\ b.readsize = o.readsize /\ b.end = o.end
  <2>1. m <= o.capacity /\ o.writtensize + m <= L /\ Bytes(e, o.writtensize, m)
    BY <1>1, <1>4, <1>6
  <2> QED BY <1>2, <1>9, <2>1, WriteGood
<1>11. b.writtensize <= L /\ b.writtensize \in Nat
  BY <1>10 DEF GoodOutput, ByteStreamType
<1> QED BY <1>10, <1>11 DEF GoodOutput

\* A sender with another stream object keeps its layout.
LEMMA StreamLayout ==
    ASSUME NEW s, Shape(s), Layout(s), NEW b, GoodOutput(b, b.writtensize, Capacity),
           b.writtensize <= StreamLen, NEW r, r = [s EXCEPT !.stream = b]
    PROVE  /\ Layout(r)
           /\ r.next_seqno = s.next_seqno /\ r.flight_bytes = s.flight_bytes
           /\ r.ackno = s.ackno /\ r.window_sz = s.window_sz
<1>1. /\ r.isn = s.isn /\ r.stream = b /\ r.wait_ack = s.wait_ack
      /\ r.next_seqno = s.next_seqno /\ r.flight_bytes = s.flight_bytes
      /\ r.ackno = s.ackno /\ r.window_sz = s.window_sz
  BY DEF Shape
<1> QED BY <1>1 DEF Layout

-----------------------------------------------------------------------------
\* The sender and its peer: the answers that are under way are not ahead of the
\* peer, the peer has what was dropped, and unless an impossible ackno has come
\* the sender's idea of the window lies within the one the peer has advertised.
Answered(s, ak, eg, as, mis) ==
    /\ ak \in Nat /\ eg \in Nat /\ as \subseteq (Nat \X Nat)
    /\ \A m \in as : m[1] <= ak /\ m[1] + m[2] <= eg
    /\ ak <= s.next_seqno
    /\ Base(s) <= ak
    /\ ~ mis => /\ s.ackno <= ak /\ s.ackno + s.window_sz <= eg
                /\ s.next_seqno <= MaxOf(eg, ak + 1)

Good(s, ak, eg, as, mis) == SenderInv(s) /\ Layout(s) /\ Answered(s, ak, eg, as, mis)

\* The inductive invariant.
Inv == /\ Good(snd, peerAck, peerEdge, acks, misled)
       /\ heard \in BOOLEAN /\ misled \in BOOLEAN

\* Answered() only looks at these members.
LEMMA AnsweredSame ==
    ASSUME NEW s, NEW r, NEW ak, NEW eg, NEW as, NEW mis, Answered(s, ak, eg, as, mis),
           r.next_seqno = s.next_seqno, r.flight_bytes = s.flight_bytes,
           r.ackno = s.ackno, r.window_sz = s.window_sz
    PROVE  Answered(r, ak, eg, as, mis)
BY DEF Answered, Base

\* fill_window() does not go beyond what the peer has advertised.
LEMMA AnsweredFill ==
    ASSUME NEW s, NEW r, NEW ak, NEW eg, NEW as, NEW mis, Answered(s, ak, eg, as, mis),
           Filled(r, s), SenderInv(s), SenderInv(r)
    PROVE  Answered(r, ak, eg, as, mis)
<1>1. PICK N \in Nat, M \in Nat, a \in Nat, w \in Nat :
          /\ N = s.next_seqno /\ M = r.next_seqno /\ a = s.ackno /\ w = s.window_sz
          /\ a = r.ackno /\ w = r.window_sz /\ M >= N
  BY DEF SenderInv, Typed, Filled
<1>2. ak \in Nat /\ eg \in Nat /\ ak <= N
  BY <1>1 DEF Answered
<1>3. ak <= r.next_seqno
  BY <1>1, <1>2
<1>4. Base(r) <= ak
  BY DEF Answered, Filled
<1>5. ASSUME ~ mis
      PROVE  /\ r.ackno <= ak /\ r.ackno + r.window_sz <= eg
             /\ r.next_seqno <= MaxOf(eg, ak + 1)
  <2>1. a <= ak /\ a + w <= eg /\ N <= MaxOf(eg, ak + 1)
    BY <1>1, <1>5 DEF Answered
  <2>2. M <= MaxOf(eg, ak + 1)
    <3>1. CASE M = N
      BY <2>1, <3>1
    <3>2. CASE M <= WindowEdge(s)
      <4>1. M <= a + (IF w # 0 THEN w ELSE 1)
        BY <1>1, <3>2 DEF WindowEdge
      <4>2. MaxOf(eg, ak + 1) >= eg /\ MaxOf(eg, ak + 1) >= ak + 1 /\ MaxOf(eg, ak + 1) \in Nat
        BY <1>2 DEF MaxOf
      <4>3. PICK z \in Nat : z = MaxOf(eg, ak + 1)
        BY <4>2
      <4>4. M <= z
        BY <1>2, <2>1, <4>1, <4>2, <4>3
      <4> QED BY <4>3, <4>4
    <3> QED BY <1>1, <3>1, <3>2 DEF Filled
  <2> QED BY <1>1, <2>1, <2>2
<1> QED BY <1>3, <1>4, <1>5 DEF Answered

\* fill_window() and send_segments(), with which a handler ends.
LEMMA HandlerEnds ==
    ASSUME NEW s, NEW ak, NEW eg, NEW as, NEW mis, Good(s, ak, eg, as, mis),
           NEW r, r = [FillWindow(s) EXCEPT !.segments_out = <<>>]
    PROVE  Good(r, ak, eg, as, mis)
<1>1. SenderInv(s) /\ Layout(s) /\ Answered(s, ak, eg, as, mis)
  BY DEF Good
<1>2. PICK f : f = FillWindow(s)
  OBVIOUS
<1>3. SenderInv(f) /\ Layout(f) /\ Filled(f, s)
  BY <1>1, <1>2, FillWindowInv, FillWindowLayout
<1>4. Answered(f, ak, eg, as, mis)
  BY <1>1, <1>3, AnsweredFill
<1>5. SenderInv(r) /\ SameSpace(r, f)
  BY <1>2, <1>3, FlushInv
<1>6. Layout(r)
  BY <1>3, <1>5, SameLayout
<1>7. Answered(r, ak, eg, as, mis)
  BY <1>4, <1>5, AnsweredSame DEF SameSpace
<1> QED BY <1>5, <1>6, <1>7 DEF Good

\* An answer of the peer that arrives, in whatever order.
LEMMA AnswerArrives ==
    ASSUME NEW s, NEW ak, NEW eg, NEW as, NEW mis, Good(s, ak, eg, as, mis), NEW m \in as,
           NEW r, r = AckReceived(s, wrap(m[1], Isn), m[2])
    PROVE  Good(r, ak, eg, as \ {m}, mis)
<1>1. SenderInv(s) /\ Layout(s) /\ Answered(s, ak, eg, as, mis)
  BY DEF Good
<1>2. PICK N \in Nat, a \in Nat, w \in Nat :
          N = s.next_seqno /\ a = m[1] /\ w = m[2] /\ a <= ak /\ a + w <= eg
  BY <1>1 DEF Answered, SenderInv, Typed
<1>3. ak \in Nat /\ eg \in Nat /\ ak <= N /\ as \subseteq (Nat \X Nat)
      /\ (~ mis => N <= MaxOf(eg, ak + 1))
  BY <1>1, <1>2 DEF Answered
<1>4. a <= N /\ a <= s.next_seqno + 1
  BY <1>2, <1>3
<1>5. r = AckReceived(s, wrap(a, Isn), w)
  BY <1>2
<1>6. Layout(r) /\ Acknowledged(r, s, a, w)
  BY <1>1, <1>4, <1>5, AckReceivedLayout
<1>7. SenderInv(r)
  <2>1. wrap(a, Isn) \in Nat
    <3>1. Isn \in Nat
      BY SenderAssumption, WrapAssumption DEF Uint32
    <3>2. wrap(a, Isn) \in Uint32
      BY <3>1, WrapLaps
    <3> QED BY <3>2, WrapAssumption DEF Uint32
  <2> QED BY <1>1, <1>5, <2>1, AckReceivedInv
<1>8. Base(r) <= ak
  <2>1. CASE Base(r) = Base(s)
    BY <1>1, <2>1 DEF Answered
  <2>2. CASE Base(r) <= a
    <3>1. Base(r) \in Int
      BY <1>2, <1>6 DEF Acknowledged, Base, Layout
    <3> QED BY <1>2, <1>3, <2>2, <3>1
  <2> QED BY <1>6, <2>1, <2>2 DEF Acknowledged
<1>9. r.next_seqno = N /\ r.ackno = a /\ r.window_sz = w
  BY <1>2, <1>4, <1>6 DEF Acknowledged
<1>10. Answered(r, ak, eg, as \ {m}, mis)
  <2>1. as \ {m} \subseteq (Nat \X Nat)
    BY <1>3
  <2>2. \A x \in as \ {m} : x[1] <= ak /\ x[1] + x[2] <= eg
    BY <1>1 DEF Answered
  <2> QED BY <1>2, <1>3, <1>8, <1>9, <2>1, <2>2 DEF Answered
<1> QED BY <1>6, <1>7, <1>10 DEF Good

\* An ackno beyond what was sent: the sender is misled, and drops nothing.
LEMMA BogusArrives ==
    ASSUME NEW s, NEW ak, NEW eg, NEW as, NEW mis, Good(s, ak, eg, as, mis), NEW w \in Nat,
           NEW r, r = AckReceived(s, wrap(s.next_seqno + 1, Isn), w)
    PROVE  Good(r, ak, eg, as, TRUE)
<1>1. SenderInv(s) /\ Layout(s) /\ Answered(s, ak, eg, as, mis)
  BY DEF Good
<1>2. PICK N \in Nat, a \in Nat : N = s.next_seqno /\ a = N + 1
  BY <1>1 DEF SenderInv, Typed
<1>3. r = AckReceived(s, wrap(a, Isn), w) /\ a <= s.next_seqno + 1 /\ ~ (a <= s.next_seqno)
  BY <1>2
<1>4. Layout(r) /\ Acknowledged(r, s, a, w)
  BY <1>1, <1>3, AckReceivedLayout
<1>5. SenderInv(r)
  <2>1. wrap(a, Isn) \in Nat
    <3>1. Isn \in Nat
      BY SenderAssumption, WrapAssumption DEF Uint32
    <3>2. wrap(a, Isn) \in Uint32
      BY <3>1, WrapLaps
    <3> QED BY <3>2, WrapAssumption DEF Uint32
  <2> QED BY <1>1, <1>3, <2>1, AckReceivedInv
<1>6. Base(r) = Base(s) /\ r.next_seqno = s.next_seqno
  BY <1>3, <1>4 DEF Acknowledged
<1>7. Answered(r, ak, eg, as, TRUE)
  BY <1>1, <1>6 DEF Answered
<1> QED BY <1>4, <1>5, <1>7 DEF Good

\* A new sender and its peer.
LEMMA InitGood == Init => Inv
<1> SUFFICES ASSUME Init PROVE Inv
  OBVIOUS
<1>1. PICK r : r = NewSender(Capacity, Rto, Isn)
  OBVIOUS
<1>2. SenderInv(r)
  BY <1>1, NewSenderInv
<1>3. /\ r.isn = Isn /\ r.stream = NewByteStream(Capacity) /\ r.next_seqno = 0
      /\ r.window_sz = 1 /\ r.ackno = 0 /\ r.flight_bytes = 0 /\ r.wait_ack = <<>>
  BY <1>1 DEF NewSender
<1>4. PICK b : b = NewByteStream(Capacity)
  OBVIOUS
<1>5. Capacity \in Nat /\ StreamLen \in Nat
  BY SenderAssumption
<1>6. GoodOutput(b, b.writtensize, Capacity) /\ b.writtensize = 0
  <2>1. /\ b \in ByteStreamType(Nat) /\ b.que = <<>> /\ b.capacity = Capacity
        /\ b.writtensize = 0 /\ b.readsize = 0 /\ b.end = FALSE
    BY <1>4, <1>5 DEF NewByteStream, ByteStreamType
  <2>2. <<>> \in Seq(Nat) /\ Len(<<>>) = 0
    OBVIOUS
  <2>3. Bytes(<<>>, 0, 0)
    BY <2>2 DEF Bytes
  <2> QED BY <1>5, <2>1, <2>2, <2>3 DEF GoodOutput
<1>7. Layout(r)
  <2>1. Stretch(<<>>, 0, 0)
    BY StretchEmpty
  <2>2. r.next_seqno - r.flight_bytes = 0 /\ 0 \in Nat
    BY <1>3
  <2>3. Stretch(r.wait_ack, r.next_seqno - r.flight_bytes, r.next_seqno)
    BY <1>3, <2>1, <2>2
  <2> QED BY <1>3, <1>4, <1>5, <1>6, <2>2, <2>3 DEF Layout
<1>8. Answered(r, 0, 1, {}, FALSE)
  BY <1>3 DEF Answered, Base, MaxOf
<1> QED BY <1>1, <1>2, <1>7, <1>8 DEF Init, Inv, Good

\* Every handler, and every step of the peer and the network, keeps the invariant.
LEMMA InductiveStep == Inv /\ [Next]_vars => Inv'
<1> SUFFICES ASSUME Inv, [Next]_vars PROVE Inv'
  OBVIOUS
<1>1. /\ Good(snd, peerAck, peerEdge, acks, misled)
      /\ heard \in BOOLEAN /\ misled \in BOOLEAN
  BY DEF Inv
<1>2. /\ SenderInv(snd) /\ Layout(snd) /\ Shape(snd)
      /\ Answered(snd, peerAck, peerEdge, acks, misled)
      /\ snd.next_seqno \in Nat /\ snd.stream \in ByteStreamType(Nat)
  BY <1>1 DEF Good, SenderInv, Typed
<1>3. ASSUME NEW s, Good(s, peerAck, peerEdge, acks', misled'), Flush(FillWindow(s)),
             peerVars' = peerVars, misled' \in BOOLEAN
      PROVE  Inv'
  <2>1. /\ snd' = [FillWindow(s) EXCEPT !.segments_out = <<>>]
        /\ heard' \in BOOLEAN /\ peerAck' = peerAck /\ peerEdge' = peerEdge
    BY <1>3 DEF Flush, peerVars
  <2>2. Good(snd', peerAck, peerEdge, acks', misled')
    BY <1>3, <2>1, HandlerEnds
  <2>3. Good(snd', peerAck', peerEdge', acks', misled')
    BY <2>1, <2>2
  <2> QED BY <1>3, <2>1, <2>3 DEF Inv
<1>4. ASSUME NEW b \in ByteStreamType(Nat), GoodOutput(b, b.writtensize, Capacity),
             b.writtensize <= StreamLen, b.readsize = snd.stream.readsize, ~ snd.stream.end
      PROVE  Good([snd EXCEPT !.stream = b], peerAck, peerEdge, acks, misled)
  <2>1. PICK r : r = [snd EXCEPT !.stream = b]
    OBVIOUS
  <2>2. SenderInv(r)
    BY <1>2, <1>4, <2>1, StreamInv
  <2>3. /\ Layout(r)
        /\ r.next_seqno = snd.next_seqno /\ r.flight_bytes = snd.flight_bytes
        /\ r.ackno = snd.ackno /\ r.window_sz = snd.window_sz
    BY <1>2, <1>4, <2>1, StreamLayout
  <2>4. Answered(r, peerAck, peerEdge, acks, misled)
    BY <1>2, <2>3, AnsweredSame
  <2> QED BY <2>1, <2>2, <2>3, <2>4 DEF Good
<1>5. ASSUME NEW n \in 0 .. Capacity, DoWrite(n) PROVE Inv'
  <2>1. PICK o : o = snd.stream
    OBVIOUS
  <2>2. o \in ByteStreamType(Nat) /\ GoodOutput(o, o.writtensize, Capacity)
    BY <1>2, <2>1 DEF Layout
  <2>3. PICK W \in Nat : W = o.writtensize
    BY <2>2 DEF ByteStreamType
  <2>4. PICK d : d = [i \in 1 .. n |-> snd.stream.writtensize + i - 1]
    OBVIOUS
  <2>5. n \in Nat /\ Capacity \in Nat /\ StreamLen \in Nat
    BY SenderAssumption
  <2>6. Bytes(d, W, n) /\ d \in Seq(Nat)
    <3>1. d = [i \in 1 .. n |-> W + i - 1]
      BY <2>1, <2>3, <2>4
    <3>2. \A i \in 1 .. n : W + i - 1 \in Nat
      BY <2>5
    <3> QED BY <2>5, <3>1, <3>2 DEF Bytes
  <2>7. PICK b : b = Write(o, d)
    OBVIOUS
  <2>8. ~ o.end /\ o.writtensize + n <= StreamLen
    BY <1>5, <2>1 DEF DoWrite
  <2>9. /\ GoodOutput(b, b.writtensize, Capacity) /\ b.writtensize <= StreamLen
        /\ b.readsize = o.readsize
    <3>1. Bytes(d, o.writtensize, n)
      BY <2>3, <2>6
    <3> QED BY <2>2, <2>5, <2>7, <2>8, <3>1, OutgoingWrite
  <2>10. b \in ByteStreamType(Nat)
    BY <2>9 DEF GoodOutput
  <2>11. Good([snd EXCEPT !.stream = b], peerAck, peerEdge, acks, misled)
    BY <1>4, <2>1, <2>8, <2>9, <2>10
  <2>12. Flush(FillWindow([snd EXCEPT !.stream = b]))
    BY <1>5, <2>1, <2>4, <2>7 DEF DoWrite
  <2>13. acks' = acks /\ misled' = misled /\ peerVars' = peerVars
    BY <1>5 DEF DoWrite
  <2> QED BY <1>1, <1>3, <2>11, <2>12, <2>13
<1>6. CASE DoEndInput
  <2>1. PICK o, b : o = snd.stream /\ b = EndInput(o)
    OBVIOUS
  <2>2. o \in ByteStreamType(Nat) /\ GoodOutput(o, o.writtensize, Capacity)
        /\ o.writtensize <= StreamLen
    BY <1>2, <2>1 DEF Layout
  <2>3. /\ b \in ByteStreamType(Nat) /\ b.readsize = o.readsize
        /\ b.writtensize = o.writtensize /\ b.que = o.que /\ b.capacity = o.capacity
    BY <2>1, <2>2 DEF EndInput, ByteStreamType
  <2>4. GoodOutput(b, b.writtensize, Capacity) /\ b.writtensize <= StreamLen
    BY <2>2, <2>3 DEF GoodOutput
  <2>5. ~ o.end
    BY <1>6, <2>1 DEF DoEndInput
  <2>6. Good([snd EXCEPT !.stream = b], peerAck, peerEdge, acks, misled)
    BY <1>4, <2>1, <2>3, <2>4, <2>5
  <2>7. Flush(FillWindow([snd EXCEPT !.stream = b]))
    BY <1>6, <2>1 DEF DoEndInput
  <2>8. acks' = acks /\ misled' = misled /\ peerVars' = peerVars
    BY <1>6 DEF DoEndInput
  <2> QED BY <1>1, <1>3, <2>6, <2>7, <2>8
<1>7. CASE DoTick
  <2>1. PICK s : s = SenderTick(snd, 1)
    OBVIOUS
  <2>2. SenderInv(s) /\ SameSpace(s, snd)
    <3>1. 1 \in Nat
      OBVIOUS
    <3> QED BY <1>2, <2>1, <3>1, SenderTickInv
  <2>3. /\ snd' = [s EXCEPT !.segments_out = <<>>]
        /\ heard' \in BOOLEAN /\ peerAck' = peerAck /\ peerEdge' = peerEdge
        /\ acks' = acks /\ misled' = misled
    BY <1>7, <2>1 DEF DoTick, Flush, peerVars
  <2>4. SenderInv(snd') /\ SameSpace(snd', s)
    BY <2>2, <2>3, FlushInv
  <2>5. Layout(snd')
    BY <1>2, <2>2, <2>4, SameLayout
  <2>6. Answered(snd', peerAck, peerEdge, acks, misled)
    <3>1. /\ snd'.next_seqno = snd.next_seqno /\ snd'.flight_bytes = snd.flight_bytes
          /\ snd'.ackno = snd.ackno /\ snd'.window_sz = snd.window_sz
      BY <2>2, <2>4 DEF SameSpace
    <3> QED BY <1>2, <3>1, AnsweredSame
  <2>7. Good(snd', peerAck', peerEdge', acks', misled')
    BY <2>3, <2>4, <2>5, <2>6 DEF Good
  <2> QED BY <1>1, <2>3, <2>7 DEF Inv
<1>8. ASSUME NEW m \in acks, DoAck(m[1], m[2]) PROVE Inv'
  <2>1. PICK s : s = AckReceived(snd, wrap(m[1], Isn), m[2])
    OBVIOUS
  <2>2. Good(s, peerAck, peerEdge, acks \ {m}, misled)
    BY <1>1, <2>1, AnswerArrives
  <2>3. Flush(FillWindow(s))
    BY <1>8, <2>1 DEF DoAck
  <2>4. acks' = acks \ {m} /\ misled' = misled /\ peerVars' = peerVars
    <3>1. <<m[1], m[2]>> = m
      BY <1>2 DEF Answered
    <3> QED BY <1>8, <3>1 DEF DoAck
  <2> QED BY <1>1, <1>3, <2>2, <2>3, <2>4
<1>9. ASSUME NEW a \in 0 .. StreamLen + 2, NEW e \in 0 .. StreamLen + 2 + MaxWin,
             PeerAnswer(a, e)
      PROVE  Inv'
  <2>1. a \in Nat /\ e \in Nat /\ e - a \in Nat
    BY <1>9, SenderAssumption DEF PeerAnswer
  <2>2. /\ peerAck <= a /\ a <= snd.next_seqno /\ peerEdge <= e
        /\ heard' = FALSE /\ peerAck' = a /\ peerEdge' = e
        /\ acks' = acks \cup {<<a, e - a>>} /\ snd' = snd /\ misled' = misled
    BY <1>9 DEF PeerAnswer
  <2>3. PICK p \in Nat, g \in Nat : p = peerAck /\ g = peerEdge /\ p <= a /\ g <= e
    BY <1>2, <2>2 DEF Answered
  <2>4. ASSUME NEW m \in acks \cup {<<a, e - a>>} PROVE m[1] <= a /\ m[1] + m[2] <= e
    <3>1. CASE m \in acks
      <4>1. m[1] \in Nat /\ m[2] \in Nat /\ m[1] <= p /\ m[1] + m[2] <= g
        BY <1>2, <2>3, <3>1 DEF Answered
      <4> QED BY <2>1, <2>3, <4>1
    <3>2. CASE m = <<a, e - a>>
      BY <2>1, <3>2
    <3> QED BY <3>1, <3>2
  <2>5. acks \cup {<<a, e - a>>} \subseteq (Nat \X Nat)
    BY <1>2, <2>1 DEF Answered
  <2>6. Base(snd) <= a
    <3>1. Base(snd) \in Int
      BY <1>2 DEF Base, Layout
    <3>2. Base(snd) <= p
      BY <1>2, <2>3 DEF Answered
    <3> QED BY <2>1, <2>3, <3>1, <3>2
  <2>7. ASSUME ~ misled
        PROVE  /\ snd.ackno <= a /\ snd.ackno + snd.window_sz <= e
               /\ snd.next_seqno <= MaxOf(e, a + 1)
    <3>1. PICK x \in Nat, y \in Nat, N \in Nat :
              x = snd.ackno /\ y = snd.window_sz /\ N = snd.next_seqno
      BY <1>2 DEF SenderInv, Typed
    <3>2. x <= p /\ x + y <= g /\ N <= MaxOf(g, p + 1)
      BY <1>2, <2>3, <2>7, <3>1 DEF Answered
    <3>3. N <= MaxOf(e, a + 1)
      BY <2>1, <2>3, <3>2 DEF MaxOf
    <3>4. x <= a /\ x + y <= e
      BY <2>1, <2>3, <3>2
    <3> QED BY <3>1, <3>3, <3>4
  <2>8. Answered(snd, a, e, acks \cup {<<a, e - a>>}, misled)
    BY <2>1, <2>2, <2>4, <2>5, <2>6, <2>7 DEF Answered
  <2>9. Good(snd', peerAck', peerEdge', acks', misled')
    BY <1>2, <2>2, <2>8 DEF Good
  <2> QED BY <1>1, <2>2, <2>9 DEF Inv
<1>10. CASE Lose
  <2>1. /\ snd' = snd /\ peerAck' = peerAck /\ peerEdge' = peerEdge /\ misled' = misled
        /\ heard' \in BOOLEAN /\ acks' \subseteq acks
    BY <1>1, <1>10 DEF Lose, peerVars
  <2>2. Answered(snd, peerAck, peerEdge, acks', misled)
    BY <1>2, <2>1 DEF Answered
  <2>3. Good(snd', peerAck', peerEdge', acks', misled')
    BY <1>2, <2>1, <2>2 DEF Good
  <2> QED BY <1>1, <2>1, <2>3 DEF Inv
<1>11. ASSUME NEW win \in 1 .. MaxWin, BogusAck(win) PROVE Inv'
  <2>1. PICK s : s = AckReceived(snd, wrap(snd.next_seqno + 1, Isn), win)
    OBVIOUS
  <2>2. Good(s, peerAck, peerEdge, acks, TRUE)
    <3>1. win \in Nat
      BY SenderAssumption
    <3> QED BY <1>1, <2>1, <3>1, BogusArrives
  <2>3. Flush(FillWindow(s))
    BY <1>11, <2>1 DEF BogusAck
  <2>4. acks' = acks /\ misled' = TRUE /\ peerVars' = peerVars
    BY <1>11 DEF BogusAck
  <2> QED BY <1>3, <2>2, <2>3, <2>4
<1>12. CASE UNCHANGED vars
  <2>1. /\ snd' = snd /\ heard' = heard /\ peerAck' = peerAck /\ peerEdge' = peerEdge
        /\ acks' = acks /\ misled' = misled
    BY <1>12 DEF vars
  <2> QED BY <1>1, <2>1 DEF Inv
<1> QED BY <1>5, <1>6, <1>7, <1>8, <1>9, <1>10, <1>11, <1>12 DEF Next

\* The invariant holds in every reachable state.
LEMMA Invariance == Spec => []Inv
BY InitGood, InductiveStep, PTL DEF Spec

-----------------------------------------------------------------------------
\* The members of a TCPSender keep their types: no counter of tcp_sender.cc
\* passes below zero, _flight_bytes (from which ack_received() subtracts the
\* length of every segment it pops) in particular.
THEOREM TypeCorrect == Spec => []TypeOK
<1>1. Inv => TypeOK
  <2> SUFFICES ASSUME Inv PROVE TypeOK
    OBVIOUS
  <2>1. /\ Shape(snd) /\ Typed(snd) /\ snd.flight_bytes \in Nat
        /\ peerAck \in Nat /\ peerEdge \in Nat /\ acks \subseteq (Nat \X Nat)
        /\ heard \in BOOLEAN /\ misled \in BOOLEAN
    BY DEF Inv, Good, SenderInv, Layout, Answered
  <2>2. snd \in SenderType(Nat)
    BY <2>1, Zenon DEF Shape, Typed, SenderType, Seg
  <2> QED BY <2>1, <2>2 DEF TypeOK
<1> QED BY <1>1, Invariance, PTL

\* Whatever the windows, the losses and the order of the acknowledgments
\* (impossible ones included), the retransmission timer of tcp_sender.cc runs
\* exactly while a segment is outstanding, and no expiry is left unhandled.
THEOREM ArmedHolds == Spec => []RetransmissionArmed
<1>1. Inv => RetransmissionArmed
  BY DEF Inv, Good, SenderInv, Armed, RetransmissionArmed
<1> QED BY <1>1, Invariance, PTL

\* Every sequence number fill_window() uses stands for SYN, for one byte read
\* from the stream, or for FIN, and FIN is used only at the end of the stream.
THEOREM AccountingHolds == Spec => []SequenceAccounting
<1>1. Inv => SequenceAccounting
  BY DEF Inv, Good, SenderInv, Counted, SequenceAccounting
<1> QED BY <1>1, Invariance, PTL

\* The timeout is the initial one doubled once for every retransmission that is
\* counted: tick() doubles and counts together, ack_received() resets both.
THEOREM BackoffHolds == Spec => []BackoffLaw
<1>1. Inv => BackoffLaw
  BY DEF Inv, Good, SenderInv, BackedOff, BackoffLaw
<1> QED BY <1>1, Invariance, PTL

\* The segments in _wait_ack are, without hole or overlap, the stretch of the
\* sequence space that ends at _next_seqno, each with the bytes of the stream at
\* its place, and _flight_bytes is the length of the stretch.
THEOREM OutstandingHolds == Spec => []OutstandingContiguous
<1>1. Inv => OutstandingContiguous
  <2> SUFFICES ASSUME Inv PROVE OutstandingContiguous
    OBVIOUS
  <2>1. SenderInv(snd) /\ Layout(snd) /\ Isn \in Nat
    BY SenderAssumption, WrapAssumption DEF Inv, Good, Uint32
  <2>2. PICK N \in Nat, fb \in Nat :
            /\ N = snd.next_seqno /\ fb = snd.flight_bytes /\ fb <= N
            /\ N + 1 < Half32 /\ N + 1 + Wrap32 <= Wrap64
    BY <2>1, LayoutBounds DEF Layout
  <2>3. PICK w \in Seq(Seg), n \in Nat : w = snd.wait_ack /\ n = Len(w) /\ DOMAIN w = 1 .. n
    BY <2>1, LenProperties DEF SenderInv, Typed
  <2>4. PICK pos : Laid(w, pos) /\ pos[1] = N - fb /\ pos[n + 1] = N
    BY <2>1, <2>2, <2>3 DEF Layout, Stretch
  <2>5. \A k \in 1 .. n + 1 : pos[k] \in Nat /\ pos[k] <= N
    BY <2>3, <2>4, LaidOrder
  <2>6. \A k \in 1 .. n :
          Placed(w[k], pos[k]) /\ pos[k + 1] = pos[k] + LengthInSequenceSpace(w[k])
    BY <2>3, <2>4 DEF Laid
  <2>7. ASSUME NEW k \in 1 .. n PROVE AbsSeqno(w[k]) = pos[k]
    <3>1. pos[k] \in Nat /\ pos[k] <= N
      BY <2>5
    <3>2. w[k].seqno = wrap(pos[k], Isn)
      BY <2>6 DEF Placed
    <3>3. Half32 \in Nat /\ Wrap32 \in Nat /\ Wrap64 \in Nat
      BY WrapAssumption DEF Half32
    <3>4. -Half32 <= pos[k] - N
      BY <2>2, <3>1, <3>3
    <3>5. pos[k] - N < Half32
      BY <2>2, <3>1, <3>3
    <3>6. N + Wrap32 <= Wrap64
      BY <2>2, <3>3
    <3>7. unwrap(wrap(pos[k], Isn), Isn, N) = pos[k]
      BY <2>1, <3>1, <3>4, <3>5, <3>6, UnwrapWrap
    <3> QED BY <2>2, <3>2, <3>7 DEF AbsSeqno
  <2>8. ASSUME NEW k \in DOMAIN w
        PROVE  /\ LengthInSequenceSpace(w[k]) > 0
               /\ AbsSeqno(w[k]) + LengthInSequenceSpace(w[k])
                    = IF k = Len(w) THEN snd.next_seqno ELSE AbsSeqno(w[k + 1])
               /\ \A i \in DOMAIN w[k].payload :
                    w[k].payload[i] = AbsSeqno(w[k]) + BoolToNat(w[k].syn) + i - 2
    <3>1. k \in 1 .. n
      BY <2>3
    <3>2. Placed(w[k], AbsSeqno(w[k]))
      BY <2>6, <2>7, <3>1
    <3>3. pos[k + 1] = AbsSeqno(w[k]) + LengthInSequenceSpace(w[k])
      BY <2>6, <2>7, <3>1
    <3>4. CASE k = n
      BY <2>2, <2>3, <2>4, <3>2, <3>3, <3>4 DEF Placed
    <3>5. CASE k # n
      <4>1. k + 1 \in 1 .. n
        BY <3>1, <3>5
      <4>2. AbsSeqno(w[k + 1]) = pos[k + 1]
        BY <2>7, <4>1
      <4> QED BY <2>3, <3>2, <3>3, <3>5, <4>2 DEF Placed
    <3> QED BY <3>4, <3>5
  <2>9. fb = IF w = <<>> THEN 0 ELSE N - AbsSeqno(w[1])
    <3>1. CASE w = <<>>
      <4>1. n = 0
        BY <2>3, <3>1
      <4>2. N - fb = N
        BY <2>4, <4>1
      <4> QED BY <2>2, <3>1, <4>2
    <3>2. CASE w # <<>>
      <4>1. n # 0
        BY <2>3, <3>2, EmptySeq
      <4>2. 1 \in 1 .. n
        BY <4>1
      <4>3. AbsSeqno(w[1]) = N - fb
        BY <2>4, <2>7, <4>2
      <4> QED BY <2>2, <3>2, <4>3
    <3> QED BY <3>1, <3>2
  <2> QED BY <2>2, <2>3, <2>8, <2>9 DEF OutstandingContiguous
<1> QED BY <1>1, Invariance, PTL

\* As long as the peer acknowledges only what was sent, fill_window() never goes
\* beyond the right edge the peer has advertised, but for the one byte of a
\* zero-window probe, in whatever order the acknowledgments arrive.
THEOREM WindowRespected == Spec => []NeverBeyondWindow
<1>1. Inv => NeverBeyondWindow
  BY DEF Inv, Good, Answered, NeverBeyondWindow
<1> QED BY <1>1, Invariance, PTL

\* ack_received() drops from _wait_ack only what the peer has, whatever part of
\* a segment is acknowledged and whatever is acknowledged beyond what was sent.
THEOREM NothingForgotten == Spec => []ForgetsOnlyAcked
<1>1. Inv => ForgetsOnlyAcked
  BY DEF Inv, Good, Answered, Base, ForgetsOnlyAcked
<1> QED BY <1>1, Invariance, PTL
=============================================================================
