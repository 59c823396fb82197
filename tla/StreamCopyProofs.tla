-------------------------- MODULE StreamCopyProofs --------------------------
(***************************************************************************)
(* For all buffer sizes, lengths of the streams, portions in which the     *)
(* system calls read and write, and moments at which anything ends, hangs  *)
(* up or fails: bidirectional_stream_copy() is a reliable stream in both   *)
(* directions, fails only for a reason outside of it, and ends by itself   *)
(* only when all is copied.                                                *)
(***************************************************************************)
EXTENDS StreamCopy, StreamLemmas

\* A rule that reads is done: its descriptor has told the end, or the rule is gone.
InputDone == fd["input"].eof \/ InputIn \notin loop.rules
SocketDone == fd["socket"].eof \/ SocketIn \notin loop.rules

\* Where the loop is, and what it may still be going through there.
Machine ==
    /\ loop \in LoopType(Rules)
    /\ loop.ready \cup loop.hung \subseteq loop.rules /\ loop.ready \cap loop.hung = {}
    /\ pc \in {"setup", "poll", "dispatch", "done", "dead"}
    /\ pc \in {"setup", "poll", "dispatch"} => why = "running" /\ fault = "none"
    /\ pc \in {"setup", "poll"} => loop.ready = {} /\ loop.hung = {}
    /\ pc = "poll" => loop.events \subseteq loop.rules /\ Defunct = {}
    /\ shut \in [outbound : BOOLEAN, inbound : BOOLEAN]
    /\ fd \in [{"input", "socket", "output"} -> [eof : BOOLEAN, closed : BOOLEAN]]
    /\ ~ fd["input"].closed /\ ~ fd["socket"].closed
    /\ failed \in BOOLEAN /\ (failed => cameEnd)

\* Every byte of the n that are there to be read, of which m have been read, is in
\* the stream or behind it, in order.
Account(stream, there, ended, m, behind) ==
    /\ Buffered(stream, BufferCap) /\ stream.maximumcapacity = BufferCap
    /\ there \in Nat /\ ended \in BOOLEAN /\ m \in Nat /\ m <= there
    /\ stream.writtensize = m
    /\ Bytes(behind, 0, stream.readsize)

\* From the standard input to the socket.  The outbound stream may be ended early,
\* by the hangup of a socket that takes no more: then rule 2 is gone.
Outwards ==
    /\ InputIn \in loop.ready => typedRead < typed \/ typedEnd
    /\ InputIn \in loop.hung => typedEnd /\ typedRead = typed
    /\ InputDone => typedEnd /\ typedRead = typed /\ InputIn \notin loop.ready \cup loop.hung
    /\ InputIn \notin loop.rules => outbound.end
    /\ outbound.end => SocketOut \notin loop.rules \/ InputDone
    /\ SocketOut \in loop.ready \cup loop.hung => ~ shut.outbound
    /\ pc = "poll" /\ SocketOut \in loop.events => ~ shut.outbound
    /\ SocketOut \in loop.hung \/ SocketOut \notin loop.rules => failed \/ shut.outbound
    /\ shut.outbound => Eof(outbound) /\ InputDone

\* From the socket to the standard output.
Inwards ==
    /\ SocketIn \in loop.ready => cameRead < came \/ cameEnd
    /\ SocketIn \notin loop.hung /\ OutputOut \notin loop.hung
    /\ SocketDone => cameEnd /\ cameRead = came /\ SocketIn \notin loop.ready
    /\ SocketIn \notin loop.rules => inbound.end
    /\ inbound.end => SocketDone
    /\ OutputOut \in loop.ready => ~ shut.inbound
    /\ pc = "poll" /\ OutputOut \in loop.events => ~ shut.inbound
    /\ OutputOut \notin loop.rules => shut.inbound
    /\ shut.inbound => Eof(inbound) /\ SocketDone
    /\ shut.inbound = fd["output"].closed

\* What has ended the loop.
Endings ==
    /\ FaultsOnlyFromOutside /\ (loop.error # {} => deaf)
    /\ why = "exit" => shut.inbound /\ (failed \/ shut.outbound)

\* The inductive invariant.
IndInv ==
    /\ Machine
    /\ Account(outbound, typed, typedEnd, typedRead, toSocket)
    /\ Account(inbound, came, cameEnd, cameRead, toOutput)
    /\ Outwards
    /\ Inwards
    /\ Endings

-----------------------------------------------------------------------------
(* The streams. *)

\* What there is to say of a stream in numbers.
LEMMA AccountNumbers ==
    ASSUME NEW stream, NEW there, NEW ended, NEW m, NEW behind,
           Account(stream, there, ended, m, behind)
    PROVE  /\ stream.readsize \in Nat /\ stream.capacity \in Nat /\ stream.end \in BOOLEAN
           /\ there \in Nat /\ m \in Nat /\ m <= there /\ stream.readsize <= m
           /\ Len(behind) = stream.readsize
           /\ BufferEmpty(stream) <=> stream.readsize = m
           /\ stream.capacity = 0 => ~ BufferEmpty(stream)
           /\ Eof(stream) <=> stream.end /\ stream.readsize = m
<1>1. BufferCap \in Nat /\ BufferCap > 0
  BY CopyAssumption
<1>2. PICK R \in Nat, l \in Nat, C \in Nat :
          /\ R = stream.readsize /\ l = Len(stream.que) /\ C = stream.capacity
          /\ C + l = BufferCap /\ stream.writtensize = R + l /\ stream.end \in BOOLEAN
  <2>1. Buffered(stream, BufferCap)
    BY DEF Account
  <2>2. /\ stream.readsize \in Nat /\ Len(stream.que) \in Nat /\ stream.capacity \in Nat
        /\ stream.capacity + Len(stream.que) = BufferCap
        /\ stream.writtensize = stream.readsize + Len(stream.que) /\ stream.end \in BOOLEAN
    BY <1>1, <2>1, BufferedMembers
  <2> QED BY <2>2
<1>3. m = R + l /\ stream.maximumcapacity = BufferCap /\ there \in Nat /\ m <= there
  BY <1>2 DEF Account
<1>4. Len(behind) = R
  BY <1>2 DEF Account, Bytes
<1>5. BufferEmpty(stream) <=> C = BufferCap
  BY <1>2, <1>3 DEF BufferEmpty
<1>6. Eof(stream) <=> stream.end /\ R = m
  BY <1>2, <1>3 DEF Eof
<1>7. R <= m /\ (C = BufferCap <=> R = m) /\ (C = 0 => C # BufferCap)
  BY <1>1, <1>2, <1>3, SMTT(20)
<1> QED BY <1>2, <1>3, <1>4, <1>5, <1>6, <1>7

\* The callback of a rule that reads: what it has read is in the stream.
LEMMA AccountFilled ==
    ASSUME NEW stream, NEW there, NEW ended, NEW m, NEW behind,
           Account(stream, there, ended, m, behind),
           NEW n \in ReadLengths(there - m, stream.capacity), NEW eof \in BOOLEAN,
           NEW w, w = Filled(stream, Excerpt(m, m + n), eof)
    PROVE  /\ n \in Nat /\ m + n <= there /\ (n = 0 => there = m \/ stream.capacity = 0)
           /\ Account(w, there, ended, m + n, behind)
           /\ (w.end <=> stream.end \/ eof)
<1>0. BufferCap \in Nat
  BY CopyAssumption
<1>1. stream.capacity \in Nat /\ there \in Nat /\ m \in Nat /\ m <= there
  BY AccountNumbers
<1>2. n \in Nat /\ m + n <= there /\ n <= stream.capacity
      /\ (n = 0 => there = m \/ stream.capacity = 0)
  BY <1>1 DEF ReadLengths
<1>3. PICK d : d = Excerpt(m, m + n) /\ Bytes(d, m, n)
  BY <1>1, <1>2, BytesOfExcerpt
<1>4. PICK v : v = Write(stream, d)
  OBVIOUS
<1>5. Buffered(stream, BufferCap) /\ stream.writtensize = m /\ stream.end \in BOOLEAN
  BY AccountNumbers DEF Account
<1>6. /\ Buffered(v, BufferCap) /\ SameFlags(v, stream)
      /\ v.writtensize = m + n /\ v.readsize = stream.readsize
  BY <1>0, <1>2, <1>3, <1>4, <1>5, WriteBuffered
<1>7. /\ Buffered(w, BufferCap) /\ (w.end <=> stream.end \/ eof)
      /\ w.maximumcapacity = stream.maximumcapacity
      /\ w.writtensize = m + n /\ w.readsize = stream.readsize
  <2>1. w = IF eof THEN EndInput(v) ELSE v
    BY <1>3, <1>4 DEF Filled
  <2>2. CASE eof
    <3>1. w = EndInput(v) /\ Buffered(v, BufferCap)
      BY <1>6, <2>1, <2>2
    <3>2. /\ Buffered(w, BufferCap) /\ w.end /\ w.maximumcapacity = v.maximumcapacity
          /\ w.writtensize = v.writtensize /\ w.readsize = v.readsize
      BY <1>0, <3>1, EndBuffered
    <3> QED BY <1>6, <2>2, <3>2 DEF SameFlags
  <2>3. CASE ~ eof
    BY <1>5, <1>6, <2>1, <2>3 DEF SameFlags
  <2> QED BY <2>2, <2>3
<1> QED BY <1>1, <1>2, <1>7 DEF Account

\* The next n bytes have gone from the stream to what is behind it, which is now z.
Passed(w, stream, m, behind, n, z) ==
    /\ n \in Nat /\ Len(behind) + n <= m
    /\ w.end = stream.end /\ w.readsize = Len(behind) + n
    /\ z = behind \o [i \in 1 .. n |-> Len(behind) + i - 1]

\* The callback of a rule that writes: what it has written is behind the stream.
LEMMA AccountPopped ==
    ASSUME NEW stream, NEW there, NEW ended, NEW m, NEW behind,
           Account(stream, there, ended, m, behind), NEW room,
           NEW offered, offered = Offered(stream), NEW n \in WriteLengths(Len(offered), room),
           NEW w, w = Popped(stream, n), NEW z, z = behind \o SubSeq(offered, 1, n)
    PROVE  Account(w, there, ended, m, z) /\ Passed(w, stream, m, behind, n, z)
<1>0. BufferCap \in Nat /\ MaxCopy \in Nat
  BY CopyAssumption
<1>1. Buffered(stream, BufferCap) /\ Bytes(behind, 0, stream.readsize)
  BY DEF Account
<1>2. PICK R \in Nat, l \in Nat :
          R = stream.readsize /\ l = Len(stream.que) /\ stream.writtensize = R + l
  BY <1>0, <1>1, BufferedMembers
<1>3. PICK k \in Nat : k = MinOf(MaxCopy, l) /\ k <= l
  BY <1>0 DEF MinOf
<1>4. Bytes(offered, R, k)
  <2>1. offered = PeekOutput(stream, k) /\ MinOf(k, l) = k
    BY <1>2, <1>3 DEF Offered, BufferSize, MinOf
  <2> QED BY <1>0, <1>1, <1>2, <2>1, PeekedBytes
<1>5. Len(offered) = k
  BY <1>4 DEF Bytes
<1>6. n \in Nat /\ n <= k
  BY <1>5 DEF WriteLengths
<1>7. PICK part : part = SubSeq(offered, 1, n) /\ Bytes(part, R, n)
  <2>1. Bytes(SubSeq(offered, 0 + 1, 0 + n), R + 0, n)
    <3>1. 0 \in Nat /\ 0 + n <= k
      BY <1>6
    <3> QED BY <1>4, <1>6, <3>1, BytesSubSeq
  <2>2. 0 + 1 = 1 /\ 0 + n = n /\ R + 0 = R
    BY <1>6
  <2> QED BY <2>1, <2>2
<1>8. Bytes(z, 0, R + n)
  <2>1. Bytes(behind, 0, R) /\ Bytes(part, 0 + R, n) /\ 0 \in Nat
    BY <1>1, <1>2, <1>7
  <2>2. Bytes(behind \o part, 0, R + n)
    BY <1>6, <2>1, BytesConcat
  <2> QED BY <1>7, <2>2
<1>9. /\ Buffered(w, BufferCap) /\ SameFlags(w, stream)
      /\ w.writtensize = stream.writtensize /\ w.readsize = R + n
  <2>1. w = Read(stream, n)
    BY DEF Popped, Read
  <2>2. HasRead(w, stream, MinOf(n, Len(stream.que)), BufferCap)
    BY <1>0, <1>1, <1>6, <2>1, ReadBuffered
  <2>3. MinOf(n, Len(stream.que)) = n
    BY <1>2, <1>3, <1>6 DEF MinOf
  <2> QED BY <1>2, <2>2, <2>3 DEF HasRead
<1>10. Account(w, there, ended, m, z)
  BY <1>8, <1>9 DEF Account, SameFlags
<1>11. Len(behind) = R
  BY <1>1, <1>2 DEF Bytes
<1>12. part = [i \in 1 .. n |-> R + i - 1]
  <2>1. part = Excerpt(R, R + n)
    BY <1>6, <1>7, ExcerptOfBytes
  <2>2. (R + n) - R = n
    BY <1>6
  <2> QED BY <2>1, <2>2 DEF Excerpt
<1>13. R + n <= m
  BY <1>2, <1>3, <1>6 DEF Account
<1> QED BY <1>6, <1>7, <1>9, <1>10, <1>11, <1>12, <1>13 DEF SameFlags, Passed

\* end_input().
LEMMA AccountEnded ==
    ASSUME NEW stream, NEW there, NEW ended, NEW m, NEW behind,
           Account(stream, there, ended, m, behind), NEW w, w = EndInput(stream)
    PROVE  /\ Account(w, there, ended, m, behind) /\ w.end /\ w.readsize = stream.readsize
           /\ w.capacity = stream.capacity
<1>1. BufferCap \in Nat
  BY CopyAssumption
<1>2. /\ Buffered(w, BufferCap) /\ w.end /\ w.maximumcapacity = stream.maximumcapacity
      /\ w.writtensize = stream.writtensize /\ w.readsize = stream.readsize
      /\ w.capacity = stream.capacity
  BY <1>1, EndBuffered DEF Account
<1> QED BY <1>2 DEF Account

-----------------------------------------------------------------------------
(* The loop. *)

\* Which rules wait_next_event() cancels before it polls.
LEMMA DefunctRules ==
    ASSUME Machine
    PROVE  /\ Defunct \subseteq loop.rules /\ SocketOut \notin Defunct
           /\ InputIn \in Defunct <=> InputIn \in loop.rules /\ fd["input"].eof
           /\ SocketIn \in Defunct <=> SocketIn \in loop.rules /\ fd["socket"].eof
           /\ OutputOut \in Defunct <=> OutputOut \in loop.rules /\ fd["output"].closed
<1>1. /\ FdOf[InputIn] = "input" /\ FdOf[SocketOut] = "socket"
      /\ FdOf[SocketIn] = "socket" /\ FdOf[OutputOut] = "output"
  BY DEF FdOf, Rules, InputIn, SocketOut, SocketIn, OutputOut
<1>2. ~ fd["input"].closed /\ ~ fd["socket"].closed
  BY DEF Machine
<1>3. SocketOut \notin {InputIn, SocketIn} /\ OutputOut \notin {InputIn, SocketIn}
  BY DEF InputIn, SocketOut, SocketIn, OutputOut
<1> QED BY <1>1, <1>2, <1>3 DEF Defunct

-----------------------------------------------------------------------------
(* The steps. *)

\* main() before the loop.
LEMMA InitInv == Init => IndInv
<1> SUFFICES ASSUME Init PROVE IndInv
  OBVIOUS
<1>1. BufferCap \in Nat
  BY CopyAssumption
<1>2. Bytes(<<>>, 0, 0)
  BY DEF Bytes
<1>3. \A o : o = NewByteStream(BufferCap) => Account(o, 0, FALSE, 0, <<>>) /\ ~ o.end
  BY <1>1, <1>2, NewBuffered DEF Account
<1>4. Account(outbound, typed, typedEnd, typedRead, toSocket)
      /\ Account(inbound, came, cameEnd, cameRead, toOutput) /\ ~ outbound.end /\ ~ inbound.end
  BY <1>3 DEF Init
<1>5. loop = [rules |-> Rules, events |-> {}, ready |-> {}, hung |-> {}, error |-> {}]
      /\ loop \in LoopType(Rules)
  BY DEF Init, NewLoop, LoopType
<1>6. fd \in [{"input", "socket", "output"} -> [eof : BOOLEAN, closed : BOOLEAN]]
      /\ ~ fd["input"].eof /\ ~ fd["input"].closed /\ ~ fd["socket"].eof
      /\ ~ fd["socket"].closed /\ fd["output"].closed = FALSE
  BY DEF Init, NewFd
<1>7. shut.outbound = FALSE /\ shut.inbound = FALSE
      /\ shut \in [outbound : BOOLEAN, inbound : BOOLEAN]
  BY DEF Init
<1>8. Machine
  <2>1. loop.ready = {} /\ loop.hung = {}
    BY <1>5
  <2>2. pc = "setup" /\ why = "running" /\ fault = "none" /\ failed = FALSE
    BY DEF Init
  <2> QED BY <1>5, <1>6, <1>7, <2>1, <2>2 DEF Machine
<1>9. Outwards /\ Inwards
  <2>1. /\ loop.ready = {} /\ loop.hung = {} /\ pc # "poll"
        /\ InputIn \in loop.rules /\ SocketOut \in loop.rules
        /\ SocketIn \in loop.rules /\ OutputOut \in loop.rules
    BY <1>5 DEF Init, Rules, InputIn, SocketOut, SocketIn, OutputOut
  <2>2. Outwards
    BY <1>4, <1>6, <1>7, <2>1 DEF Outwards, InputDone
  <2>3. Inwards
    BY <1>4, <1>6, <1>7, <2>1 DEF Inwards, SocketDone
  <2> QED BY <2>2, <2>3
<1>10. Endings
  BY <1>5 DEF Init, Endings, FaultsOnlyFromOutside
<1> QED BY <1>4, <1>8, <1>9, <1>10 DEF IndInv

\* What the world outside may do: bytes come as long as a stream has not ended.
World == Type \/ Come \/ Take \/ ConnectionFails \/ Eat \/ GoDeaf \/ UNCHANGED vars

LEMMA WorldMoves ==
    ASSUME IndInv, World
    PROVE  /\ UNCHANGED copyVars
           /\ typed' \in Nat /\ typed' >= typed /\ typedEnd' \in BOOLEAN /\ (typedEnd => typedEnd')
           /\ (typedEnd => typed' = typed)
           /\ came' \in Nat /\ came' >= came /\ cameEnd' \in BOOLEAN /\ (cameEnd => cameEnd')
           /\ (cameEnd => came' = came)
           /\ failed' \in BOOLEAN /\ (failed => failed') /\ (failed' => cameEnd')
           /\ (deaf => deaf')
<1> USE DEF IndInv, World
<1>1. /\ typed \in Nat /\ typedEnd \in BOOLEAN /\ came \in Nat /\ cameEnd \in BOOLEAN
      /\ failed \in BOOLEAN /\ (failed => cameEnd)
  BY DEF Account, Machine
<1>2. CASE Type
  <2>1. /\ UNCHANGED <<copyVars, came, cameEnd, failed, deaf>> /\ ~ typedEnd
        /\ \/ typed' = typed + 1 /\ typedEnd' = typedEnd
           \/ typed' = typed /\ typedEnd' = TRUE
    BY <1>2 DEF Type
  <2>2. typed \in Nat /\ came \in Nat /\ (typed' = typed \/ typed' = typed + 1)
    BY <1>1, <2>1, Zenon
  <2>3. typed' \in Nat /\ typed' >= typed /\ came >= came
    BY <2>2
  <2> QED BY <1>1, <2>1, <2>3, Zenon
<1>3. CASE Come
  <2>1. /\ UNCHANGED <<copyVars, typed, typedEnd, failed, deaf>> /\ ~ cameEnd
        /\ \/ came' = came + 1 /\ cameEnd' = cameEnd
           \/ came' = came /\ cameEnd' = TRUE
    BY <1>3 DEF Come
  <2>2. typed \in Nat /\ came \in Nat /\ (came' = came \/ came' = came + 1)
    BY <1>1, <2>1, Zenon
  <2>3. came' \in Nat /\ came' >= came /\ typed >= typed
    BY <2>2
  <2> QED BY <1>1, <2>1, <2>3, Zenon
<1>4. CASE ConnectionFails
  BY <1>1, <1>4 DEF ConnectionFails
<1>5. CASE Take \/ Eat \/ GoDeaf \/ UNCHANGED vars
  BY <1>1, <1>5 DEF Take, Eat, GoDeaf, vars, worldVars
<1> QED BY <1>2, <1>3, <1>4, <1>5

\* Who types, the connection and who reads the output.
LEMMA WorldStep ==
    ASSUME IndInv, World
    PROVE  IndInv'
<1> USE DEF IndInv
<1>1. /\ UNCHANGED copyVars
      /\ typed' \in Nat /\ typed' >= typed /\ typedEnd' \in BOOLEAN /\ (typedEnd => typedEnd')
      /\ (typedEnd => typed' = typed)
      /\ came' \in Nat /\ came' >= came /\ cameEnd' \in BOOLEAN /\ (cameEnd => cameEnd')
      /\ (cameEnd => came' = came)
      /\ failed' \in BOOLEAN /\ (failed => failed') /\ (failed' => cameEnd')
      /\ (deaf => deaf')
  BY WorldMoves
<1>2. Account(outbound, typed, typedEnd, typedRead, toSocket)'
      /\ Account(inbound, came, cameEnd, cameRead, toOutput)'
  BY <1>1 DEF Account, copyVars
<1>3. Machine'
  BY <1>1 DEF Machine, copyVars, Defunct
<1>4. Outwards' /\ Inwards'
  <2>1. typed \in Nat /\ typedRead \in Nat /\ typedRead <= typed
        /\ came \in Nat /\ cameRead \in Nat /\ cameRead <= came
    BY DEF Account
  <2> QED BY <1>1, <2>1 DEF Outwards, Inwards, InputDone, SocketDone, Eof, copyVars
<1>5. Endings'
  BY <1>1 DEF Endings, FaultsOnlyFromOutside, copyVars
<1> QED BY <1>2, <1>3, <1>4, <1>5

\* What a step leaves alone keeps its part of the invariant.
LEMMA InwardsKept ==
    ASSUME IndInv, pc = "dispatch", pc' = "dispatch",
           UNCHANGED <<inbound, came, cameEnd, cameRead>>, shut'.inbound = shut.inbound,
           fd'["socket"].eof = fd["socket"].eof, fd'["output"].closed = fd["output"].closed,
           NEW r \in {InputIn, SocketOut},
           loop'.rules \in {loop.rules, loop.rules \ {r}},
           loop'.ready = loop.ready \ {r}, loop'.hung = loop.hung \ {r}
    PROVE  Inwards'
<1>1. r # SocketIn /\ r # OutputOut
  BY DEF InputIn, SocketOut, SocketIn, OutputOut
<1> QED BY <1>1 DEF IndInv, Inwards, SocketDone, Eof

LEMMA OutwardsKept ==
    ASSUME IndInv, pc = "dispatch", pc' = "dispatch",
           UNCHANGED <<outbound, typed, typedEnd, typedRead, failed>>,
           shut'.outbound = shut.outbound, fd'["input"].eof = fd["input"].eof,
           NEW r \in {SocketIn, OutputOut},
           loop'.rules = loop.rules, loop'.ready = loop.ready \ {r}, loop'.hung = loop.hung \ {r}
    PROVE  Outwards'
<1>1. r # InputIn /\ r # SocketOut
  BY DEF InputIn, SocketOut, SocketIn, OutputOut
<1> QED BY <1>1 DEF IndInv, Outwards, InputDone, Eof

\* The callback of rule 1: the standard input is read.
LEMMA ReadInputStep ==
    ASSUME IndInv, pc = "dispatch", InputIn \in loop.ready, ReadInput
    PROVE  IndInv'
<1> USE DEF IndInv
<1>1. PICK n \in ReadLengths(typed - typedRead, outbound.capacity) :
          LET after == AfterRead(fd["input"], n, outbound.capacity)
          IN /\ outbound' = Filled(outbound, Excerpt(typedRead, typedRead + n), after.eof)
             /\ fd' = [fd EXCEPT !["input"] = after]
             /\ typedRead' = typedRead + n
  BY DEF ReadInput
<1>2. /\ UNCHANGED <<inbound, shut, cameRead, toSocket, toOutput, pc, why, fault>>
      /\ UNCHANGED <<typed, typedEnd, came, cameEnd, failed, deaf>>
      /\ loop' = Handled(loop, InputIn)
  BY DEF ReadInput, Return, worldVars
<1>3. PICK after : after = AfterRead(fd["input"], n, outbound.capacity)
  OBVIOUS
<1>4. ~ fd["input"].eof /\ InputIn \in loop.rules /\ ~ shut.outbound
  BY DEF Outwards, InputDone, Machine
<1>5. /\ after \in [eof : BOOLEAN, closed : BOOLEAN] /\ ~ after.closed
      /\ (after.eof <=> outbound.capacity > 0 /\ n = 0)
  BY <1>3, <1>4 DEF AfterRead, Machine
<1>6. /\ n \in Nat /\ typedRead + n <= typed /\ (n = 0 => typed = typedRead \/ outbound.capacity = 0)
      /\ Account(outbound', typed, typedEnd, typedRead', toSocket)
      /\ (outbound'.end <=> outbound.end \/ after.eof)
  BY <1>1, <1>3, <1>5, AccountFilled
<1>7. /\ loop' \in LoopType(Rules) /\ loop'.rules = loop.rules
      /\ loop'.ready = loop.ready \ {InputIn} /\ loop'.hung = loop.hung \ {InputIn} /\ loop'.error = loop.error
  BY <1>2, HandledMembers DEF Machine, Rules, InputIn
<1>8. /\ fd' \in [{"input", "socket", "output"} -> [eof : BOOLEAN, closed : BOOLEAN]]
      /\ fd'["input"] = after /\ fd'["socket"] = fd["socket"] /\ fd'["output"] = fd["output"]
  BY <1>1, <1>3, <1>5 DEF Machine
<1>9. Machine'
  BY <1>2, <1>5, <1>7, <1>8 DEF Machine
<1>10. after.eof => typedEnd /\ typedRead' = typed
  <2>1. /\ typed \in Nat /\ typedRead \in Nat /\ outbound.capacity \in Nat
        /\ (typedRead < typed \/ typedEnd)
    BY AccountNumbers DEF Outwards
  <2>2. after.eof => n = 0 /\ typed = typedRead
    BY <1>5, <1>6, <2>1
  <2>3. n = 0 => typedRead' = typedRead
    BY <1>1, <2>1
  <2> QED BY <2>1, <2>2, <2>3
<1>11. Outwards'
  <2>1. InputIn \notin loop.hung /\ (outbound.end => SocketOut \notin loop.rules)
    BY <1>4 DEF Machine, Outwards, InputDone
  <2>2. SocketOut # InputIn
    BY DEF SocketOut, InputIn
  <2> QED BY <1>2, <1>4, <1>6, <1>7, <1>8, <1>10, <2>1, <2>2 DEF Outwards, InputDone
<1>12. Inwards'
  BY <1>2, <1>7, <1>8, InwardsKept
<1>13. Endings'
  BY <1>2, <1>7 DEF Endings, FaultsOnlyFromOutside
<1> QED BY <1>2, <1>6, <1>9, <1>11, <1>12, <1>13

\* The callback of rule 3: the socket is read.
LEMMA ReadSocketStep ==
    ASSUME IndInv, pc = "dispatch", SocketIn \in loop.ready, ReadSocket
    PROVE  IndInv'
<1> USE DEF IndInv
<1>1. PICK n \in ReadLengths(came - cameRead, inbound.capacity) :
          LET after == AfterRead(fd["socket"], n, inbound.capacity)
          IN /\ inbound' = Filled(inbound, Excerpt(cameRead, cameRead + n), after.eof)
             /\ fd' = [fd EXCEPT !["socket"] = after]
             /\ cameRead' = cameRead + n
  BY DEF ReadSocket
<1>2. /\ UNCHANGED <<outbound, shut, typedRead, toSocket, toOutput, pc, why, fault>>
      /\ UNCHANGED <<typed, typedEnd, came, cameEnd, failed, deaf>>
      /\ loop' = Handled(loop, SocketIn)
  BY DEF ReadSocket, Return, worldVars
<1>3. PICK after : after = AfterRead(fd["socket"], n, inbound.capacity)
  OBVIOUS
<1>4. ~ fd["socket"].eof /\ SocketIn \in loop.rules /\ ~ shut.inbound /\ ~ inbound.end
  BY DEF Inwards, SocketDone, Machine
<1>5. /\ after \in [eof : BOOLEAN, closed : BOOLEAN] /\ ~ after.closed
      /\ (after.eof <=> inbound.capacity > 0 /\ n = 0)
  BY <1>3, <1>4 DEF AfterRead, Machine
<1>6. /\ n \in Nat /\ cameRead + n <= came /\ (n = 0 => came = cameRead \/ inbound.capacity = 0)
      /\ Account(inbound', came, cameEnd, cameRead', toOutput)
      /\ (inbound'.end <=> inbound.end \/ after.eof)
  BY <1>1, <1>3, <1>5, AccountFilled
<1>7. /\ loop' \in LoopType(Rules) /\ loop'.rules = loop.rules
      /\ loop'.ready = loop.ready \ {SocketIn} /\ loop'.hung = loop.hung \ {SocketIn} /\ loop'.error = loop.error
  BY <1>2, HandledMembers DEF Machine, Rules, SocketIn
<1>8. /\ fd' \in [{"input", "socket", "output"} -> [eof : BOOLEAN, closed : BOOLEAN]]
      /\ fd'["socket"] = after /\ fd'["input"] = fd["input"] /\ fd'["output"] = fd["output"]
  BY <1>1, <1>3, <1>5 DEF Machine
<1>9. Machine'
  BY <1>2, <1>5, <1>7, <1>8 DEF Machine
<1>10. after.eof => cameEnd /\ cameRead' = came
  <2>1. /\ came \in Nat /\ cameRead \in Nat /\ inbound.capacity \in Nat
        /\ (cameRead < came \/ cameEnd)
    BY AccountNumbers DEF Inwards
  <2>2. after.eof => n = 0 /\ came = cameRead
    BY <1>5, <1>6, <2>1
  <2>3. n = 0 => cameRead' = cameRead
    BY <1>1, <2>1
  <2> QED BY <2>1, <2>2, <2>3
<1>11. Inwards'
  <2>1. OutputOut # SocketIn
    BY DEF OutputOut, SocketIn
  <2> QED BY <1>2, <1>4, <1>6, <1>7, <1>8, <1>10, <2>1 DEF Inwards, SocketDone
<1>12. Outwards'
  BY <1>2, <1>7, <1>8, OutwardsKept
<1>13. Endings'
  BY <1>2, <1>7 DEF Endings, FaultsOnlyFromOutside
<1> QED BY <1>2, <1>6, <1>9, <1>11, <1>12, <1>13

\* A write to a descriptor that takes no more, or an error that poll(2) has reported,
\* ends the process.
Dies ==
    \/ BrokenPipe /\ (failed \/ deaf)
    \/ Throw /\ deaf

LEMMA DiesStep ==
    ASSUME IndInv, pc = "dispatch", Dies
    PROVE  IndInv'
<1> USE DEF IndInv
<1>1. /\ UNCHANGED <<outbound, inbound, shut, fd, loop, typedRead, cameRead, toSocket,
                     toOutput, why>>
      /\ UNCHANGED <<typed, typedEnd, came, cameEnd, failed, deaf>>
      /\ pc' = "dead" /\ fault' \in {"broken pipe", "poll error"}
      /\ (fault' = "broken pipe" /\ (failed \/ deaf)) \/ deaf
  BY DEF Dies, BrokenPipe, Throw, Fail, worldVars
<1>2. Account(outbound, typed, typedEnd, typedRead, toSocket)'
      /\ Account(inbound, came, cameEnd, cameRead, toOutput)'
  BY <1>1
<1>3. Machine'
  BY <1>1 DEF Machine
<1>4. Outwards' /\ Inwards'
  BY <1>1 DEF Outwards, Inwards, InputDone, SocketDone, Eof
<1>5. Endings'
  BY <1>1 DEF Endings, FaultsOnlyFromOutside
<1> QED BY <1>2, <1>3, <1>4, <1>5

\* The callback of rule 2: the socket is written and perhaps shut down.
LEMMA WriteSocketStep ==
    ASSUME IndInv, pc = "dispatch", SocketOut \in loop.ready, WriteSocket
    PROVE  IndInv'
<1> USE DEF IndInv
<1>1. ~ shut.outbound /\ SocketOut \in loop.rules
  BY DEF Outwards, Machine
<1>2. CASE BrokenPipe /\ (failed \/ shut.outbound)
  <2>1. failed
    BY <1>1, <1>2, Zenon
  <2>2. BrokenPipe
    BY <1>2, Zenon
  <2>3. Dies
    BY <2>1, <2>2 DEF Dies
  <2> QED BY <2>3, DiesStep
<1>3. CASE ~ (Offered(outbound) # <<>> /\ (failed \/ shut.outbound))
  <2>1. PICK n \in WriteLengths(Len(Offered(outbound)), SocketRoom) :
            /\ outbound' = Popped(outbound, n)
            /\ toSocket' = toSocket \o SubSeq(Offered(outbound), 1, n)
            /\ shut' = [shut EXCEPT !.outbound = @ \/ Eof(outbound)']
    BY <1>3 DEF WriteSocket
  <2>2. /\ UNCHANGED <<inbound, fd, typedRead, cameRead, toOutput, pc, why, fault>>
        /\ UNCHANGED <<typed, typedEnd, came, cameEnd, failed, deaf>>
        /\ loop' = Handled(loop, SocketOut)
    BY <1>3 DEF WriteSocket, Return, worldVars
  <2>3. /\ Account(outbound', typed, typedEnd, typedRead, toSocket')
        /\ outbound'.end = outbound.end
    <3>1. /\ Account(outbound', typed, typedEnd, typedRead, toSocket')
          /\ Passed(outbound', outbound, typedRead, toSocket, n, toSocket')
      BY <2>1, AccountPopped
    <3> QED BY <3>1 DEF Passed
  <2>4. /\ loop' \in LoopType(Rules) /\ loop'.rules = loop.rules
        /\ loop'.ready = loop.ready \ {SocketOut} /\ loop'.hung = loop.hung \ {SocketOut} /\ loop'.error = loop.error
    BY <2>2, HandledMembers DEF Machine, Rules, SocketOut
  <2>5. /\ shut' \in [outbound : BOOLEAN, inbound : BOOLEAN]
        /\ shut'.inbound = shut.inbound /\ (shut'.outbound <=> Eof(outbound)')
    <3>1. Eof(outbound)' \in BOOLEAN
      BY <2>3, AccountNumbers DEF Eof
    <3> QED BY <1>1, <2>1, <3>1 DEF Machine
  <2>6. Machine'
    BY <2>2, <2>4, <2>5 DEF Machine
  <2>7. Outwards'
    <3>1. SocketOut # InputIn
      BY DEF SocketOut, InputIn
    <3> QED BY <1>1, <2>2, <2>3, <2>4, <2>5, <3>1 DEF Outwards, InputDone, Eof, Machine
  <2>8. Inwards'
    BY <2>2, <2>4, <2>5, InwardsKept
  <2>9. Endings'
    BY <2>2, <2>4 DEF Endings, FaultsOnlyFromOutside, Machine
  <2> QED BY <2>2, <2>3, <2>6, <2>7, <2>8, <2>9
<1> QED BY <1>2, <1>3 DEF WriteSocket

\* The callback of rule 4: the standard output is written and perhaps closed.
LEMMA WriteOutputStep ==
    ASSUME IndInv, pc = "dispatch", OutputOut \in loop.ready, WriteOutput
    PROVE  IndInv'
<1> USE DEF IndInv
<1>1. ~ shut.inbound /\ OutputOut \in loop.rules
  BY DEF Inwards, Machine
<1>2. CASE BrokenPipe /\ deaf
  <2>1. Dies
    BY <1>2 DEF Dies
  <2> QED BY <2>1, DiesStep
<1>3. CASE ~ (Offered(inbound) # <<>> /\ deaf)
  <2>1. PICK n \in WriteLengths(Len(Offered(inbound)), OutputRoom) :
            /\ inbound' = Popped(inbound, n)
            /\ toOutput' = toOutput \o SubSeq(Offered(inbound), 1, n)
            /\ shut' = [shut EXCEPT !.inbound = @ \/ Eof(inbound)']
            /\ fd' = [fd EXCEPT !["output"] = IF Eof(inbound)' THEN AfterClose(@) ELSE @]
    BY <1>3 DEF WriteOutput
  <2>2. /\ UNCHANGED <<outbound, typedRead, cameRead, toSocket, pc, why, fault>>
        /\ UNCHANGED <<typed, typedEnd, came, cameEnd, failed, deaf>>
        /\ loop' = Handled(loop, OutputOut)
    BY <1>3 DEF WriteOutput, Return, worldVars
  <2>3. /\ Account(inbound', came, cameEnd, cameRead, toOutput')
        /\ inbound'.end = inbound.end
    <3>1. /\ Account(inbound', came, cameEnd, cameRead, toOutput')
          /\ Passed(inbound', inbound, cameRead, toOutput, n, toOutput')
      BY <2>1, AccountPopped
    <3> QED BY <3>1 DEF Passed
  <2>4. /\ loop' \in LoopType(Rules) /\ loop'.rules = loop.rules
        /\ loop'.ready = loop.ready \ {OutputOut} /\ loop'.hung = loop.hung \ {OutputOut} /\ loop'.error = loop.error
    BY <2>2, HandledMembers DEF Machine, Rules, OutputOut
  <2>5. PICK eof \in BOOLEAN : eof = Eof(inbound)'
    BY <2>3, AccountNumbers DEF Eof
  <2>6. /\ shut' \in [outbound : BOOLEAN, inbound : BOOLEAN]
        /\ shut'.outbound = shut.outbound /\ shut'.inbound = eof
    BY <1>1, <2>1, <2>5 DEF Machine
  <2>7. /\ fd' \in [{"input", "socket", "output"} -> [eof : BOOLEAN, closed : BOOLEAN]]
        /\ fd'["input"] = fd["input"] /\ fd'["socket"] = fd["socket"]
        /\ fd'["output"].closed = eof
    <3>1. PICK out \in [eof : BOOLEAN, closed : BOOLEAN] :
              out = (IF eof THEN AfterClose(fd["output"]) ELSE fd["output"]) /\ out.closed = eof
      <4>1. fd["output"] \in [eof : BOOLEAN, closed : BOOLEAN] /\ fd["output"].closed = FALSE
        BY <1>1 DEF Machine, Inwards
      <4>2. /\ AfterClose(fd["output"]) \in [eof : BOOLEAN, closed : BOOLEAN]
            /\ AfterClose(fd["output"]).closed = TRUE
        BY <4>1 DEF AfterClose
      <4> QED BY <4>1, <4>2
    <3>2. fd' = [fd EXCEPT !["output"] = out]
      BY <2>1, <2>5, <3>1
    <3> QED BY <3>1, <3>2 DEF Machine
  <2>8. Machine'
    BY <2>2, <2>4, <2>6, <2>7 DEF Machine
  <2>9. Inwards'
    <3>1. SocketIn # OutputOut
      BY DEF SocketIn, OutputOut
    <3> QED BY <1>1, <2>2, <2>3, <2>4, <2>5, <2>6, <2>7, <3>1 DEF Inwards, SocketDone, Eof
  <2>10. Outwards'
    BY <2>2, <2>4, <2>6, <2>7, OutwardsKept
  <2>11. Endings'
    BY <2>2, <2>4 DEF Endings, FaultsOnlyFromOutside, Machine
  <2> QED BY <2>2, <2>3, <2>8, <2>9, <2>10, <2>11
<1> QED BY <1>2, <1>3 DEF WriteOutput

\* The stream of a cancelled rule ends.
LEMMA CancelledStreams ==
    ASSUME IndInv, NEW rules, CancelAll(rules)
    PROVE  /\ Account(outbound', typed, typedEnd, typedRead, toSocket)
           /\ outbound'.end <=> outbound.end \/ InputIn \in rules \/ SocketOut \in rules
           /\ outbound'.readsize = outbound.readsize /\ outbound'.capacity = outbound.capacity
           /\ Account(inbound', came, cameEnd, cameRead, toOutput)
           /\ inbound'.end <=> inbound.end \/ SocketIn \in rules \/ OutputOut \in rules
           /\ inbound'.readsize = inbound.readsize /\ inbound'.capacity = inbound.capacity
<1>1. /\ Account(outbound', typed, typedEnd, typedRead, toSocket)
      /\ (outbound'.end <=> outbound.end \/ InputIn \in rules \/ SocketOut \in rules)
      /\ outbound'.readsize = outbound.readsize /\ outbound'.capacity = outbound.capacity
  <2>1. CASE InputIn \in rules \/ SocketOut \in rules
    <3>1. outbound' = EndInput(outbound)
      BY <2>1 DEF CancelAll
    <3>2. /\ Account(outbound', typed, typedEnd, typedRead, toSocket) /\ outbound'.end
          /\ outbound'.readsize = outbound.readsize /\ outbound'.capacity = outbound.capacity
      BY <3>1, AccountEnded DEF IndInv
    <3> QED BY <2>1, <3>2
  <2>2. CASE ~ (InputIn \in rules \/ SocketOut \in rules)
    <3>1. outbound' = outbound
      BY <2>2 DEF CancelAll
    <3> QED BY <2>2, <3>1 DEF IndInv
  <2> QED BY <2>1, <2>2
<1>2. /\ Account(inbound', came, cameEnd, cameRead, toOutput)
      /\ (inbound'.end <=> inbound.end \/ SocketIn \in rules \/ OutputOut \in rules)
      /\ inbound'.readsize = inbound.readsize /\ inbound'.capacity = inbound.capacity
  <2>1. CASE SocketIn \in rules \/ OutputOut \in rules
    <3>1. inbound' = EndInput(inbound)
      BY <2>1 DEF CancelAll
    <3>2. /\ Account(inbound', came, cameEnd, cameRead, toOutput) /\ inbound'.end
          /\ inbound'.readsize = inbound.readsize /\ inbound'.capacity = inbound.capacity
      BY <3>1, AccountEnded DEF IndInv
    <3> QED BY <2>1, <3>2
  <2>2. CASE ~ (SocketIn \in rules \/ OutputOut \in rules)
    <3>1. inbound' = inbound
      BY <2>2 DEF CancelAll
    <3> QED BY <2>2, <3>1 DEF IndInv
  <2> QED BY <2>1, <2>2
<1> QED BY <1>1, <1>2

\* A hangup cancels a rule.  It can only be rule 1 or 2: a socket that hangs up has
\* ended, and its end is readable.
LEMMA CancelStep ==
    ASSUME IndInv, pc = "dispatch", NEW r \in loop.hung, Cancel(r)
    PROVE  IndInv'
<1> USE DEF IndInv
<1>1. r \in Rules /\ (r = InputIn \/ r = SocketOut)
  BY LoopMembers DEF Machine, Inwards, Rules, InputIn, SocketOut, SocketIn, OutputOut
<1>2. /\ UNCHANGED <<shut, fd, pc, typedRead, cameRead, toSocket, toOutput, why, fault>>
      /\ UNCHANGED <<typed, typedEnd, came, cameEnd, failed, deaf>>
      /\ loop' = Handled(Erase(loop, r), r) /\ CancelAll({r})
  BY DEF Cancel, worldVars
<1>3. /\ loop' \in LoopType(Rules) /\ loop'.rules = loop.rules \ {r}
      /\ loop'.ready = loop.ready \ {r} /\ loop'.hung = loop.hung \ {r} /\ loop'.error = loop.error
  BY <1>1, <1>2, ErasedMembers DEF Machine
<1>4. InputIn # SocketOut /\ r # SocketIn /\ r # OutputOut /\ r \in loop.rules /\ r \notin loop.ready
  BY <1>1 DEF InputIn, SocketOut, SocketIn, OutputOut, Machine
<1>5. /\ Account(outbound', typed, typedEnd, typedRead, toSocket) /\ outbound'.end
      /\ outbound'.readsize = outbound.readsize
      /\ Account(inbound', came, cameEnd, cameRead, toOutput)
      /\ (inbound'.end <=> inbound.end) /\ inbound'.readsize = inbound.readsize
  BY <1>1, <1>2, <1>4, CancelledStreams
<1>6. Machine'
  BY <1>2, <1>3 DEF Machine
<1>7. Outwards'
  <2>1. Eof(outbound) => Eof(outbound)'
    BY <1>2, <1>5, AccountNumbers DEF Eof, Account
  <2>2. CASE r = InputIn
    BY <1>2, <1>3, <1>4, <1>5, <2>1, <2>2 DEF Outwards, InputDone
  <2>3. CASE r = SocketOut
    BY <1>2, <1>3, <1>4, <1>5, <2>1, <2>3 DEF Outwards, InputDone
  <2> QED BY <1>1, <2>2, <2>3
<1>8. Inwards'
  <2>1. Eof(inbound) => Eof(inbound)'
    BY <1>2, <1>5 DEF Eof, Account
  <2> QED BY <1>2, <1>3, <1>4, <1>5, <2>1 DEF Inwards, SocketDone
<1>9. Endings'
  BY <1>2, <1>3 DEF Endings, FaultsOnlyFromOutside
<1> QED BY <1>2, <1>5, <1>6, <1>7, <1>8, <1>9

\* One answer of poll(2) is gone through.
LEMMA DispatchStep ==
    ASSUME IndInv, Dispatch
    PROVE  IndInv'
<1>1. pc = "dispatch"
  BY DEF Dispatch
<1>2. PICK r : /\ r = Current(loop)
               /\ \/ r \in loop.error /\ Throw
                  \/ r \in loop.hung /\ Cancel(r)
                  \/ r \in loop.ready /\ Callback(r)
  BY DEF Dispatch
<1>3. CASE r \in loop.error /\ Throw
  <2>1. Dies
    BY <1>3 DEF Dies, IndInv, Endings
  <2> QED BY <1>1, <2>1, DiesStep
<1>4. CASE r \in loop.hung /\ Cancel(r)
  BY <1>1, <1>4, CancelStep
<1>5. CASE r \in loop.ready /\ Callback(r)
  BY <1>1, <1>5, ReadInputStep, WriteSocketStep, ReadSocketStep, WriteOutputStep
     DEF Callback
<1> QED BY <1>2, <1>3, <1>4, <1>5

\* poll(2) answers.
LEMMA PollStep ==
    ASSUME IndInv, NEW inputIsPipe \in BOOLEAN, Poll(inputIsPipe)
    PROVE  IndInv'
<1> USE DEF IndInv
<1> DEFINE ready == {r \in Rules : Ready(r, inputIsPipe)}
           hangup == {r \in Rules : Hangup(r, inputIsPipe)}
           errors == {r \in Rules : PollError(r)}
<1>1. /\ pc = "poll"
      /\ UNCHANGED <<outbound, inbound, shut, fd, typedRead, cameRead, toSocket, toOutput, why>>
      /\ UNCHANGED <<typed, typedEnd, came, cameEnd, failed, deaf>>
  BY DEF Poll, worldVars
<1>2. Account(outbound, typed, typedEnd, typedRead, toSocket)'
      /\ Account(inbound, came, cameEnd, cameRead, toOutput)'
  BY <1>1
<1>3. Defunct = {} /\ loop.events \subseteq loop.rules /\ loop.ready = {} /\ loop.hung = {}
      /\ why = "running" /\ fault = "none" /\ loop \in LoopType(Rules)
  BY <1>1 DEF Machine
<1>4. loop' = Polled(loop, ready, hangup, errors) /\ pc' = "dispatch" /\ fault' = fault
  BY DEF Poll
<1>5. /\ loop' \in LoopType(Rules) /\ loop'.rules = loop.rules
      /\ loop'.ready = loop.events \cap ready
      /\ loop'.hung = loop.events \cap (hangup \ ready) /\ loop'.error = loop.rules \cap errors
  <2> HIDE DEF ready, hangup, errors
  <2> QED BY <1>3, <1>4, PolledMembers
<1>6. /\ InputIn \in Rules /\ SocketOut \in Rules /\ SocketIn \in Rules /\ OutputOut \in Rules
      /\ SocketOut # InputIn /\ SocketIn # InputIn /\ OutputOut # InputIn
      /\ SocketIn # SocketOut /\ OutputOut # SocketOut /\ OutputOut # SocketIn
  BY DEF Rules, InputIn, SocketOut, SocketIn, OutputOut
<1>7. /\ InputIn \in ready <=> typedRead < typed \/ (typedEnd /\ ~ inputIsPipe)
      /\ InputIn \in hangup <=> typedEnd /\ inputIsPipe
      /\ SocketOut \in hangup <=> failed \/ (shut.outbound /\ cameEnd)
      /\ SocketIn \in ready <=> cameRead < came \/ cameEnd
      /\ SocketIn \in hangup <=> failed \/ (shut.outbound /\ cameEnd)
      /\ OutputOut \notin hangup
  BY <1>6 DEF Ready, Hangup
<1>8. Machine'
  BY <1>1, <1>3, <1>4, <1>5 DEF Machine
<1>9. InputIn \in loop'.rules => ~ fd["input"].eof
  BY <1>3, <1>5, DefunctRules
<1>10. Outwards'
  <2>1. typed \in Nat /\ typedRead \in Nat /\ typedRead <= typed
    BY DEF Account
  <2>2. InputIn \in hangup \ ready => typedEnd /\ typedRead = typed
    BY <1>7, <2>1
  <2>3. InputIn \in ready => typedRead < typed \/ typedEnd
    BY <1>7
  <2> HIDE DEF ready, hangup
  <2> QED BY <1>1, <1>3, <1>4, <1>5, <1>7, <1>8, <1>9, <2>2, <2>3
          DEF Outwards, InputDone, Eof, Machine
<1>11. Inwards'
  <2>1. SocketIn \in hangup => SocketIn \in ready
    BY <1>7 DEF Machine
  <2>2. SocketIn \in loop'.rules => ~ fd["socket"].eof
    BY <1>3, <1>5, DefunctRules
  <2>3. SocketIn \in ready => cameRead < came \/ cameEnd
    BY <1>7
  <2> HIDE DEF ready, hangup
  <2> QED BY <1>1, <1>3, <1>4, <1>5, <1>7, <1>8, <2>1, <2>2, <2>3
          DEF Inwards, SocketDone, Eof, Machine
<1>12. loop'.error # {} => deaf
  <2> SUFFICES ASSUME NEW r \in loop.rules, r \in errors PROVE deaf
    BY <1>5
  <2>1. ~ fd[FdOf[r]].closed
    BY <1>3 DEF Defunct
  <2> QED BY <2>1 DEF PollError
<1>13. Endings'
  BY <1>1, <1>4, <1>12 DEF Endings, FaultsOnlyFromOutside
<1> QED BY <1>2, <1>8, <1>10, <1>11, <1>13

\* wait_next_event() before poll(2): rules are cancelled, the others say whether they
\* are interested, and the loop ends if none is.
LEMMA PrepareStep ==
    ASSUME IndInv, Prepare
    PROVE  IndInv'
<1> USE DEF IndInv
<1> DEFINE interested == {r \in Rules : Interested(r)}
<1>1. /\ UNCHANGED <<shut, fd, typedRead, cameRead, toSocket, toOutput, fault>>
      /\ UNCHANGED <<typed, typedEnd, came, cameEnd, failed, deaf>>
      /\ pc = "setup" /\ CancelAll(Defunct)
      /\ loop' = SetUp([loop EXCEPT !.rules = @ \ Defunct], interested)
      /\ IF loop'.events = {} THEN pc' = "done" /\ why' = "exit" ELSE pc' = "poll" /\ why' = why
  BY DEF Prepare, worldVars, NothingToPoll
<1>2. /\ loop' \in LoopType(Rules) /\ loop'.rules = loop.rules \ Defunct
      /\ loop'.events = (loop.rules \ Defunct) \cap interested
      /\ loop'.ready = {} /\ loop'.hung = {} /\ loop'.error = loop.error
      /\ why = "running" /\ fault = "none"
  <2> HIDE DEF interested
  <2>1. loop \in LoopType(Rules) /\ loop.ready = {} /\ loop.hung = {}
        /\ why = "running" /\ fault = "none"
    BY <1>1 DEF Machine
  <2>2. PICK D, I : D = Defunct /\ I = interested
    OBVIOUS
  <2>3. PICK h : h = loop' /\ h = SetUp([loop EXCEPT !.rules = @ \ D], I)
    BY <1>1, <2>2
  <2>4. /\ h \in LoopType(Rules) /\ h.rules = loop.rules \ D
        /\ h.events = (loop.rules \ D) \cap I
        /\ h.ready = loop.ready /\ h.hung = loop.hung /\ h.error = loop.error
    BY <2>1, <2>3 DEF LoopType, SetUp
  <2> QED BY <2>1, <2>2, <2>3, <2>4
<1>3. /\ SocketOut \notin Defunct
      /\ InputIn \in Defunct <=> InputIn \in loop.rules /\ fd["input"].eof
      /\ SocketIn \in Defunct <=> SocketIn \in loop.rules /\ fd["socket"].eof
      /\ OutputOut \in Defunct <=> OutputOut \in loop.rules /\ fd["output"].closed
  BY DefunctRules
<1>4. /\ Account(outbound', typed, typedEnd, typedRead, toSocket)
      /\ (outbound'.end <=> outbound.end \/ InputIn \in Defunct)
      /\ outbound'.readsize = outbound.readsize
      /\ Account(inbound', came, cameEnd, cameRead, toOutput)
      /\ (inbound'.end <=> inbound.end \/ SocketIn \in Defunct \/ OutputOut \in Defunct)
      /\ inbound'.readsize = inbound.readsize
  BY <1>1, <1>3, CancelledStreams
<1>5. /\ outbound'.capacity \in Nat /\ (outbound'.capacity = 0 => ~ BufferEmpty(outbound)')
      /\ (Eof(outbound)' <=> outbound'.end /\ BufferEmpty(outbound)')
      /\ (Eof(outbound) => Eof(outbound)')
  BY <1>4, AccountNumbers
<1>6. /\ inbound'.capacity \in Nat /\ (inbound'.capacity = 0 => ~ BufferEmpty(inbound)')
      /\ (Eof(inbound)' <=> inbound'.end /\ BufferEmpty(inbound)')
      /\ (Eof(inbound) => Eof(inbound)' /\ inbound.end)
  BY <1>4, AccountNumbers
<1>7. /\ InputIn \in interested <=> outbound'.capacity > 0
      /\ SocketOut \in interested
           <=> ~ BufferEmpty(outbound)' \/ (Eof(outbound)' /\ ~ shut.outbound)
      /\ SocketIn \in interested <=> inbound'.capacity > 0
      /\ OutputOut \in interested
           <=> ~ BufferEmpty(inbound)' \/ (Eof(inbound)' /\ ~ shut.inbound)
  <2>1. /\ InputIn \in Rules /\ SocketOut \in Rules /\ SocketIn \in Rules /\ OutputOut \in Rules
        /\ SocketOut # InputIn /\ SocketIn # InputIn /\ OutputOut # InputIn
        /\ SocketIn # SocketOut /\ OutputOut # SocketOut /\ OutputOut # SocketIn
    BY DEF Rules, InputIn, SocketOut, SocketIn, OutputOut
  <2>2. shut' = shut
    BY <1>1
  <2> QED BY <2>1, <2>2 DEF Interested, SocketOutInterested, OutputOutInterested
<1>8. /\ InputIn \in interested \/ ~ BufferEmpty(outbound)'
      /\ SocketIn \in interested \/ ~ BufferEmpty(inbound)'
  BY <1>5, <1>6, <1>7
<1> HIDE DEF interested
<1>9. Machine'
  <2>1. Defunct' = {}
    BY <1>1, <1>2 DEF Defunct
  <2>2. pc' \in {"poll", "done"} /\ (pc' = "poll" => why' = "running" /\ fault' = "none")
    BY <1>1, <1>2
  <2> QED BY <1>1, <1>2, <2>1, <2>2 DEF Machine
<1>10. Outwards'
  BY <1>1, <1>2, <1>3, <1>4, <1>5, <1>7 DEF Outwards, InputDone
<1>11. Inwards'
  BY <1>1, <1>2, <1>3, <1>4, <1>6, <1>7 DEF Inwards, SocketDone
<1>12. Endings'
  <2>1. CASE loop'.events # {}
    BY <1>1, <1>2, <2>1 DEF Endings, FaultsOnlyFromOutside
  <2>2. CASE loop'.events = {}
    <3>1. shut'.inbound
      BY <1>1, <1>2, <1>6, <1>7, <1>8, <1>11, <2>2 DEF Inwards
    <3>2. failed' \/ shut'.outbound
      BY <1>1, <1>2, <1>5, <1>7, <1>8, <1>10, <2>2 DEF Outwards
    <3> QED BY <1>1, <1>2, <3>1, <3>2 DEF Endings, FaultsOnlyFromOutside
  <2> QED BY <2>1, <2>2
<1> QED BY <1>1, <1>4, <1>9, <1>10, <1>11, <1>12

\* poll(2) is interrupted, or all its answers have been gone through.
LEMMA LeaveStep ==
    ASSUME IndInv, Interrupted \/ Again
    PROVE  IndInv'
<1> USE DEF IndInv
<1>1. /\ UNCHANGED <<outbound, inbound, shut, fd, loop, typedRead, cameRead, toSocket,
                     toOutput, fault>>
      /\ UNCHANGED <<typed, typedEnd, came, cameEnd, failed, deaf>>
      /\ \/ pc' = "done" /\ why' = "signal"
         \/ pc = "dispatch" /\ pc' = "setup" /\ why' = why /\ loop.ready \cup loop.hung = {}
  BY DEF Interrupted, Again, AllHandled, worldVars
<1>2. Account(outbound, typed, typedEnd, typedRead, toSocket)'
      /\ Account(inbound, came, cameEnd, cameRead, toOutput)'
  BY <1>1
<1>3. Machine'
  BY <1>1 DEF Machine
<1>4. Outwards' /\ Inwards'
  BY <1>1 DEF Outwards, Inwards, InputDone, SocketDone, Eof
<1>5. Endings'
  BY <1>1 DEF Endings, FaultsOnlyFromOutside
<1> QED BY <1>2, <1>3, <1>4, <1>5

\* Every step keeps the invariant.
LEMMA NextInv == IndInv /\ [Next]_vars => IndInv'
<1> SUFFICES ASSUME IndInv, [Next]_vars PROVE IndInv'
  OBVIOUS
<1>1. CASE Copy
  BY <1>1, PrepareStep, PollStep, DispatchStep, LeaveStep DEF Copy
<1>2. CASE Interrupted
  BY <1>2, LeaveStep
<1>3. CASE World
  BY <1>3, WorldStep
<1> QED BY <1>1, <1>2, <1>3 DEF Next, World

LEMMA Invariance == Spec => []IndInv
BY InitInv, NextInv, PTL DEF Spec

\* The loop acts on no descriptor that it has closed or shut down itself: only the
\* world outside can make it fail.
THEOREM FaultsOnlyFromOutsideHolds == Spec => []FaultsOnlyFromOutside
<1>1. IndInv => FaultsOnlyFromOutside
  BY DEF IndInv, Endings
<1> QED BY <1>1, Invariance, PTL

\* A loop that ends by itself has copied everything, both ends included, but for what
\* a failed connection could not take.
THEOREM ExitMeansCopiedHolds == Spec => []ExitMeansCopied
<1>1. IndInv => ExitMeansCopied
  <2> SUFFICES ASSUME IndInv, why = "exit"
               PROVE  /\ fd["output"].closed /\ toOutput = Excerpt(0, came)
                      /\ failed \/ (shut.outbound /\ toSocket = Excerpt(0, typed))
    BY DEF ExitMeansCopied
  <2> USE DEF IndInv
  <2>1. shut.inbound /\ (failed \/ shut.outbound)
    BY DEF Endings
  <2>2. fd["output"].closed /\ toOutput = Excerpt(0, came)
    <3>1. fd["output"].closed /\ Eof(inbound) /\ cameRead = came
      BY <2>1 DEF Inwards
    <3>2. came \in Nat /\ inbound.readsize = came
      BY <3>1, AccountNumbers
    <3>3. Bytes(toOutput, 0, came)
      BY <3>2 DEF Account
    <3>4. toOutput = Excerpt(0, 0 + came)
      BY <3>2, <3>3, ExcerptOfBytes
    <3> QED BY <3>1, <3>2, <3>4
  <2>3. shut.outbound => toSocket = Excerpt(0, typed)
    <3>0. HAVE shut.outbound
    <3>1. Eof(outbound) /\ typedRead = typed
      BY <3>0 DEF Outwards
    <3>2. typed \in Nat /\ outbound.readsize = typed
      BY <3>1, AccountNumbers
    <3>3. Bytes(toSocket, 0, typed)
      BY <3>2 DEF Account
    <3>4. toSocket = Excerpt(0, 0 + typed)
      BY <3>2, <3>3, ExcerptOfBytes
    <3> QED BY <3>2, <3>4
  <2> QED BY <2>1, <2>2, <2>3
<1> QED BY <1>1, Invariance, PTL

-----------------------------------------------------------------------------
(* The refinement: each direction is a ReliableStream. *)

\* What a step is to the two reliable streams.
Quiet == UNCHANGED <<toSocket, toOutput, shut.outbound, fd["output"].closed, Over>>

GivesUp ==
    /\ UNCHANGED <<typed, typedEnd, came, cameEnd, toSocket, toOutput, shut, fd>>
    /\ Over' = TRUE

Sends(n) ==
    /\ ~ Over /\ ~ shut.outbound
    /\ UNCHANGED <<typed, typedEnd, came, cameEnd, toOutput, fd["output"].closed, Over>>
    /\ Passed(outbound', outbound, typedRead, toSocket, n, toSocket')
    /\ typedRead <= typed /\ shut'.outbound \in BOOLEAN
    /\ shut'.outbound => typedEnd /\ Len(toSocket) + n = typed

Shows(n) ==
    /\ ~ Over /\ ~ fd["output"].closed
    /\ UNCHANGED <<typed, typedEnd, came, cameEnd, toSocket, shut.outbound, Over>>
    /\ Passed(inbound', inbound, cameRead, toOutput, n, toOutput')
    /\ cameRead <= came /\ fd'["output"].closed \in BOOLEAN
    /\ fd'["output"].closed => cameEnd /\ Len(toOutput) + n = came

\* Between setting up and going through the answers the process is alive.
LEMMA Alive ==
    ASSUME IndInv, pc \in {"setup", "poll", "dispatch"}
    PROVE  ~ Over
BY DEF IndInv, Machine, Over

LEMMA WriteSocketSends ==
    ASSUME IndInv, IndInv', pc = "dispatch", SocketOut \in loop.ready, WriteSocket
    PROVE  GivesUp \/ \E n : Sends(n)
<1>0. ~ shut.outbound /\ ~ Over
  BY Alive DEF IndInv, Outwards
<1>1. CASE BrokenPipe
  BY <1>1 DEF BrokenPipe, Fail, GivesUp, Over, worldVars
<1>2. CASE ~ (Offered(outbound) # <<>> /\ (failed \/ shut.outbound))
  <2>1. PICK n \in WriteLengths(Len(Offered(outbound)), SocketRoom) :
            /\ outbound' = Popped(outbound, n)
            /\ toSocket' = toSocket \o SubSeq(Offered(outbound), 1, n)
    BY <1>2 DEF WriteSocket
  <2>2. /\ UNCHANGED <<fd, typedRead, toOutput, why, fault>>
        /\ UNCHANGED <<typed, typedEnd, came, cameEnd>>
    BY <1>2 DEF WriteSocket, Return, worldVars
  <2>3. Passed(outbound', outbound, typedRead, toSocket, n, toSocket')
    BY <2>1, AccountPopped DEF IndInv
  <2>4. shut'.outbound => typedEnd /\ Len(toSocket) + n = typed
    <3>0. HAVE shut'.outbound
    <3>1. Eof(outbound)' /\ typedEnd' /\ typedRead' = typed'
      BY <3>0 DEF IndInv, Outwards
    <3>2. outbound'.readsize = typedRead'
      BY <3>1, AccountNumbers DEF IndInv
    <3> QED BY <2>2, <2>3, <3>1, <3>2 DEF Passed
  <2>5. typedRead <= typed /\ shut'.outbound \in BOOLEAN
    BY DEF IndInv, Account, Machine
  <2>6. UNCHANGED <<fd["output"].closed, Over>>
    BY <2>2 DEF Over
  <2>7. Sends(n)
    BY <1>0, <2>2, <2>3, <2>4, <2>5, <2>6 DEF Sends
  <2> QED BY <2>7
<1> QED BY <1>1, <1>2 DEF WriteSocket

LEMMA WriteOutputShows ==
    ASSUME IndInv, IndInv', pc = "dispatch", OutputOut \in loop.ready, WriteOutput
    PROVE  GivesUp \/ \E n : Shows(n)
<1>0. ~ fd["output"].closed /\ ~ Over
  BY Alive DEF IndInv, Inwards
<1>1. CASE BrokenPipe
  BY <1>1 DEF BrokenPipe, Fail, GivesUp, Over, worldVars
<1>2. CASE ~ (Offered(inbound) # <<>> /\ deaf)
  <2>1. PICK n \in WriteLengths(Len(Offered(inbound)), OutputRoom) :
            /\ inbound' = Popped(inbound, n)
            /\ toOutput' = toOutput \o SubSeq(Offered(inbound), 1, n)
            /\ shut' = [shut EXCEPT !.inbound = @ \/ Eof(inbound)']
    BY <1>2 DEF WriteOutput
  <2>2. /\ UNCHANGED <<cameRead, toSocket, why, fault>>
        /\ UNCHANGED <<typed, typedEnd, came, cameEnd>>
    BY <1>2 DEF WriteOutput, Return, worldVars
  <2>3. Passed(inbound', inbound, cameRead, toOutput, n, toOutput')
    BY <2>1, AccountPopped DEF IndInv
  <2>4. fd'["output"].closed => cameEnd /\ Len(toOutput) + n = came
    <3>0. HAVE fd'["output"].closed
    <3>1. Eof(inbound)' /\ cameEnd' /\ cameRead' = came'
      BY <3>0 DEF IndInv, Inwards
    <3>2. inbound'.readsize = cameRead'
      BY <3>1, AccountNumbers DEF IndInv
    <3> QED BY <2>2, <2>3, <3>1, <3>2 DEF Passed
  <2>5. cameRead <= came /\ fd'["output"].closed \in BOOLEAN
    BY DEF IndInv, Account, Machine
  <2>6. UNCHANGED <<shut.outbound, Over>>
    BY <2>1, <2>2 DEF Over, IndInv, Machine
  <2>7. Shows(n)
    BY <1>0, <2>2, <2>3, <2>4, <2>5, <2>6 DEF Shows
  <2> QED BY <2>7
<1> QED BY <1>1, <1>2 DEF WriteOutput

\* Every step is one of these.
LEMMA StepEffect ==
    ASSUME IndInv, IndInv', [Next]_vars
    PROVE  \/ World /\ Quiet
           \/ Quiet /\ UNCHANGED <<typed, typedEnd, came, cameEnd>>
           \/ GivesUp
           \/ \E n : Sends(n)
           \/ \E n : Shows(n)
<1>1. CASE World
  BY <1>1, WorldMoves DEF Quiet, copyVars, Over
<1>2. CASE Prepare
  <2>1. /\ UNCHANGED <<shut, fd, toSocket, toOutput, fault>>
        /\ UNCHANGED <<typed, typedEnd, came, cameEnd>>
        /\ pc = "setup" /\ (why' = "exit" \/ why' = why)
    BY <1>2 DEF Prepare, worldVars
  <2>2. ~ Over
    BY <2>1, Alive
  <2> QED BY <2>1, <2>2 DEF Quiet, Over
<1>3. CASE \E inputIsPipe \in BOOLEAN : Poll(inputIsPipe)
  <2>1. /\ UNCHANGED <<shut, fd, toSocket, toOutput, why>>
        /\ UNCHANGED <<typed, typedEnd, came, cameEnd>>
        /\ fault' = fault
    BY <1>3 DEF Poll, worldVars
  <2> QED BY <2>1 DEF Quiet, Over
<1>4. CASE Interrupted
  BY <1>4 DEF Interrupted, GivesUp, Over, worldVars
<1>5. CASE Again
  BY <1>5 DEF Again, Quiet, Over, worldVars
<1>6. CASE Dispatch
  <2>1. pc = "dispatch"
    BY <1>6 DEF Dispatch
  <2>2. PICK r : Throw \/ Cancel(r) \/ (r \in loop.ready /\ Callback(r))
    BY <1>6 DEF Dispatch
  <2>3. CASE Throw
    BY <2>3 DEF Throw, Fail, GivesUp, Over, worldVars
  <2>4. CASE Cancel(r)
    BY <2>4 DEF Cancel, Quiet, Over, worldVars
  <2>5. CASE r \in loop.ready /\ r = InputIn /\ ReadInput
    <3>1. /\ UNCHANGED <<shut, toSocket, toOutput, why, fault, typed, typedEnd, came, cameEnd>>
          /\ \E after : fd' = [fd EXCEPT !["input"] = after]
      BY <2>5 DEF ReadInput, Return, worldVars
    <3>2. fd'["output"] = fd["output"]
      BY <3>1 DEF IndInv, Machine
    <3> QED BY <3>1, <3>2 DEF Quiet, Over
  <2>6. CASE r \in loop.ready /\ r = SocketIn /\ ReadSocket
    <3>1. /\ UNCHANGED <<shut, toSocket, toOutput, why, fault, typed, typedEnd, came, cameEnd>>
          /\ \E after : fd' = [fd EXCEPT !["socket"] = after]
      BY <2>6 DEF ReadSocket, Return, worldVars
    <3>2. fd'["output"] = fd["output"]
      BY <3>1 DEF IndInv, Machine
    <3> QED BY <3>1, <3>2 DEF Quiet, Over
  <2>7. CASE r \in loop.ready /\ r = SocketOut /\ WriteSocket
    BY <2>1, <2>7, WriteSocketSends
  <2>8. CASE r \in loop.ready /\ r = OutputOut /\ WriteOutput
    BY <2>1, <2>8, WriteOutputShows
  <2> QED BY <2>2, <2>3, <2>4, <2>5, <2>6, <2>7, <2>8 DEF Callback
<1> QED BY <1>1, <1>2, <1>3, <1>4, <1>5, <1>6 DEF Next, Copy, World

\* From the standard input to the socket.
LEMMA OutwardsRefines ==
    ASSUME IndInv, IndInv', [Next]_vars
    PROVE  [InputToSocket!Next]_(InputToSocket!vars)
<1>1. CASE World /\ Quiet
  <2>1. /\ typed' \in Nat /\ typed' >= typed /\ typedEnd' \in BOOLEAN
        /\ (typedEnd => typedEnd') /\ (typedEnd => typed' = typed) /\ typedEnd \in BOOLEAN
    BY <1>1, WorldMoves DEF IndInv, Account
  <2>2. CASE ~ typedEnd
    <3>1. InputToSocket!Write
      BY <1>1, <2>1, <2>2 DEF InputToSocket!Write, Quiet
    <3> QED BY <3>1 DEF InputToSocket!Next
  <2>3. CASE typedEnd
    BY <1>1, <2>1, <2>3 DEF InputToSocket!vars, Quiet
  <2> QED BY <2>2, <2>3
<1>2. CASE Quiet /\ UNCHANGED <<typed, typedEnd, came, cameEnd>>
  BY <1>2 DEF InputToSocket!vars, Quiet
<1>3. CASE GivesUp
  BY <1>3 DEF InputToSocket!Next, InputToSocket!Fail, GivesUp
<1>4. CASE \E n : Sends(n)
  <2>1. PICK n : Sends(n)
    BY <1>4
  <2>2. typedRead \in Nat /\ typed \in Nat /\ Len(toSocket) \in Nat
    BY AccountNumbers DEF IndInv
  <2>3. n \in 0 .. typed - Len(toSocket)
    BY <2>1, <2>2 DEF Sends, Passed
  <2>4. shut'.outbound \in {FALSE, typedEnd /\ Len(toSocket) + n = typed}
    BY <2>1 DEF Sends
  <2>5. InputToSocket!Deliver(n)
    BY <2>1, <2>4 DEF InputToSocket!Deliver, Sends, Passed
  <2> QED BY <2>3, <2>5 DEF InputToSocket!Next
<1>5. CASE \E n : Shows(n)
  BY <1>5 DEF InputToSocket!vars, Shows
<1> QED BY <1>1, <1>2, <1>3, <1>4, <1>5, StepEffect

\* From the socket to the standard output.
LEMMA InwardsRefines ==
    ASSUME IndInv, IndInv', [Next]_vars
    PROVE  [SocketToOutput!Next]_(SocketToOutput!vars)
<1>1. CASE World /\ Quiet
  <2>1. /\ came' \in Nat /\ came' >= came /\ cameEnd' \in BOOLEAN
        /\ (cameEnd => cameEnd') /\ (cameEnd => came' = came) /\ cameEnd \in BOOLEAN
    BY <1>1, WorldMoves DEF IndInv, Account
  <2>2. CASE ~ cameEnd
    <3>1. SocketToOutput!Write
      BY <1>1, <2>1, <2>2 DEF SocketToOutput!Write, Quiet
    <3> QED BY <3>1 DEF SocketToOutput!Next
  <2>3. CASE cameEnd
    BY <1>1, <2>1, <2>3 DEF SocketToOutput!vars, Quiet
  <2> QED BY <2>2, <2>3
<1>2. CASE Quiet /\ UNCHANGED <<typed, typedEnd, came, cameEnd>>
  BY <1>2 DEF SocketToOutput!vars, Quiet
<1>3. CASE GivesUp
  BY <1>3 DEF SocketToOutput!Next, SocketToOutput!Fail, GivesUp
<1>4. CASE \E n : Shows(n)
  <2>1. PICK n : Shows(n)
    BY <1>4
  <2>2. cameRead \in Nat /\ came \in Nat /\ Len(toOutput) \in Nat
    BY AccountNumbers DEF IndInv
  <2>3. n \in 0 .. came - Len(toOutput)
    BY <2>1, <2>2 DEF Shows, Passed
  <2>4. fd'["output"].closed \in {FALSE, cameEnd /\ Len(toOutput) + n = came}
    BY <2>1 DEF Shows
  <2>5. SocketToOutput!Deliver(n)
    BY <2>1, <2>4 DEF SocketToOutput!Deliver, Shows, Passed
  <2> QED BY <2>3, <2>5 DEF SocketToOutput!Next
<1>5. CASE \E n : Sends(n)
  BY <1>5 DEF SocketToOutput!vars, Sends
<1> QED BY <1>1, <1>2, <1>3, <1>4, <1>5, StepEffect

\* The copy is a reliable stream in each direction, however reads, writes, hangups,
\* cancellations and failures fall.
THEOREM CopiesBothWaysHolds == Spec => CopiesBothWays
<1>1. Init => InputToSocket!Init /\ SocketToOutput!Init
  BY DEF Init, InputToSocket!Init, SocketToOutput!Init, Over, NewFd
<1>2. IndInv /\ IndInv' /\ [Next]_vars
        => [InputToSocket!Next]_(InputToSocket!vars) /\ [SocketToOutput!Next]_(SocketToOutput!vars)
  BY OutwardsRefines, InwardsRefines
<1> QED BY <1>1, <1>2, Invariance, PTL
        DEF Spec, CopiesBothWays, InputToSocket!Spec, SocketToOutput!Spec
=============================================================================
