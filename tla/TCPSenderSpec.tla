---------------------------- MODULE TCPSenderSpec ----------------------------
(***************************************************************************)
(* A TCPSender driven as TCPConnection drives it: every write, end of      *)
(* input and acknowledgment is followed by fill_window(), and every        *)
(* handler ends by moving the sender's queue to the connection's.  The     *)
(* peer acknowledges what it has received, in answer to a segment that     *)
(* reached it, and advertises a right edge that never moves back.  Its     *)
(* answers may be lost and, when several may be under way (MaxAcks > 1),   *)
(* overtake each other; with Bogus, acknos beyond what was sent arrive.    *)
(***************************************************************************)
EXTENDS TCPSender

CONSTANTS Isn,        \* the initial sequence number
          Capacity,   \* TCPConfig::send_capacity
          StreamLen,  \* bound: bytes the application writes
          MaxWin,     \* bound on the advertised window
          Rto,        \* TCPConfig::rt_timeout
          MaxRetx,    \* TCPConfig::MAX_RETX_ATTEMPTS, 8 in the code
          MaxAcks,    \* bound on the answers under way
          Bogus       \* do acknos beyond what was sent arrive?

ASSUME SenderAssumption ==
    /\ Isn \in Uint32
    /\ Capacity \in Nat /\ StreamLen \in Nat /\ MaxWin \in Nat
    /\ Rto \in Nat /\ Rto > 0
    /\ MaxRetx \in Nat /\ MaxAcks \in Nat
    /\ StreamLen + 3 < Half32
    /\ Bogus \in BOOLEAN

VARIABLES snd,      \* the TCPSender
          heard,    \* has a segment been sent that the peer may answer?
          peerAck,  \* the peer's ackno, absolute
          peerEdge, \* the right edge of the window the peer has advertised
          acks,     \* answers under way: <<absolute ackno, window>>
          misled    \* has an ackno beyond what was sent arrived?

vars == <<snd, heard, peerAck, peerEdge, acks, misled>>
peerVars == <<peerAck, peerEdge>>

\* The application is given up once the connection aborts.
Alive == snd.consecutive_transmit_num <= MaxRetx

\* TCPConnection::send_segments() at the end of a handler, which leaves the
\* sender as s.  (The handlers bind s by a singleton set, for TLC's sake.)
Flush(s) == /\ snd' = [s EXCEPT !.segments_out = <<>>]
            /\ heard' = (heard \/ s.segments_out # <<>>)

Init == /\ snd = NewSender(Capacity, Rto, Isn)
        /\ heard = FALSE
        /\ peerAck = 0
        /\ peerEdge = 1
        /\ acks = {}
        /\ misled = FALSE

\* connect(), and write() of the next n bytes of the stream.
DoWrite(n) ==
    /\ Alive
    /\ ~ snd.stream.end
    /\ snd.stream.writtensize + n <= StreamLen
    /\ LET data == [i \in 1 .. n |-> snd.stream.writtensize + i - 1]
       IN \E s1 \in {[snd EXCEPT !.stream = Write(@, data)]} :
            \E s2 \in {FillWindow(s1)} : Flush(s2)
    /\ UNCHANGED <<peerVars, acks, misled>>

DoEndInput ==
    /\ Alive
    /\ ~ snd.stream.end
    /\ \E s1 \in {[snd EXCEPT !.stream = EndInput(@)]} :
         \E s2 \in {FillWindow(s1)} : Flush(s2)
    /\ UNCHANGED <<peerVars, acks, misled>>

\* tick(1): one unit of time.
DoTick ==
    /\ Alive
    /\ \E s1 \in {SenderTick(snd, 1)} : Flush(s1)
    /\ UNCHANGED <<peerVars, acks, misled>>

\* TCPConnection::segment_received(): the ack, then whatever the window allows.
DoAck(a, win) ==
    /\ Alive
    /\ <<a, win>> \in acks
    /\ \E s1 \in {AckReceived(snd, wrap(a, Isn), win)} :
         \E s2 \in {FillWindow(s1)} : Flush(s2)
    /\ acks' = acks \ {<<a, win>>}
    /\ UNCHANGED <<peerVars, misled>>

\* The peer answers a segment: it has everything up to a and room up to e.
PeerAnswer(a, e) ==
    /\ heard
    /\ Cardinality(acks) < MaxAcks
    /\ peerAck <= a /\ a <= snd.next_seqno /\ a > 0
    /\ peerEdge <= e /\ a <= e /\ e - a <= MaxWin
    /\ heard' = FALSE
    /\ peerAck' = a
    /\ peerEdge' = e
    /\ acks' = acks \cup {<<a, e - a>>}
    /\ UNCHANGED <<snd, misled>>

\* The answer, or the segment it would answer, is lost.
Lose ==
    \/ heard /\ heard' = FALSE /\ UNCHANGED <<snd, peerVars, acks, misled>>
    \/ \E m \in acks : acks' = acks \ {m} /\ UNCHANGED <<snd, heard, peerVars, misled>>

\* An ackno beyond what was sent arrives, with some window.
BogusAck(win) ==
    /\ Bogus /\ Alive
    /\ \E s1 \in {AckReceived(snd, wrap(snd.next_seqno + 1, Isn), win)} :
         \E s2 \in {FillWindow(s1)} : Flush(s2)
    /\ misled' = TRUE
    /\ UNCHANGED <<peerVars, acks>>

Next == \/ \E n \in 0 .. Capacity : DoWrite(n)
        \/ DoEndInput
        \/ DoTick
        \/ \E m \in acks : DoAck(m[1], m[2])
        \/ \E a \in 0 .. StreamLen + 2, e \in 0 .. StreamLen + 2 + MaxWin : PeerAnswer(a, e)
        \/ Lose
        \/ \E win \in 1 .. MaxWin : BogusAck(win)

Spec == Init /\ [][Next]_vars

-----------------------------------------------------------------------------
TypeOK == /\ snd \in SenderType(Nat)
          /\ heard \in BOOLEAN
          /\ peerAck \in Nat /\ peerEdge \in Nat
          /\ acks \subseteq (Nat \X Nat)
          /\ misled \in BOOLEAN

AbsSeqno(seg) == unwrap(seg.seqno, Isn, snd.next_seqno)

\* The unacknowledged segments are the stretch of the sequence space that
\* ends at _next_seqno: no hole, no overlap, no empty segment, _flight_bytes is
\* its length, and every segment carries the bytes of the stream at its place.
OutstandingContiguous ==
    LET w == snd.wait_ack
        End(k) == AbsSeqno(w[k]) + LengthInSequenceSpace(w[k])
    IN /\ \A k \in DOMAIN w :
            /\ LengthInSequenceSpace(w[k]) > 0
            /\ End(k) = IF k = Len(w) THEN snd.next_seqno ELSE AbsSeqno(w[k + 1])
            /\ \A i \in DOMAIN w[k].payload :
                 w[k].payload[i] = AbsSeqno(w[k]) + BoolToNat(w[k].syn) + i - 2
       /\ snd.flight_bytes =
            IF w = <<>> THEN 0 ELSE snd.next_seqno - AbsSeqno(w[1])

\* Whenever something is unacknowledged the timer runs, and it does not run
\* for nothing: nothing that was sent can be forgotten, and no expiry is left
\* unhandled.
RetransmissionArmed ==
    /\ snd.timer.active <=> snd.wait_ack # <<>>
    /\ ~ snd.timer.expired

\* The sequence space is used up as the stream is read: SYN first, every byte
\* taken from the stream once, FIN last and only after the end of the stream.
SequenceAccounting ==
    /\ snd.next_seqno =
         BoolToNat(snd.next_seqno > 0) + snd.stream.readsize + BoolToNat(snd.set_fin)
    /\ snd.set_fin => Eof(snd.stream)

\* The timeout after n doublings: Rto * 2^n.
Backoff[n \in Nat] == IF n = 0 THEN Rto ELSE 2 * Backoff[n - 1]

\* The timeout is doubled once per counted retransmission and goes back to the
\* initial value with the count: the two are reset together.
BackoffLaw == snd.timer.timeout = Backoff[snd.consecutive_transmit_num]

\* The sender never goes beyond the right edge the peer has advertised, but
\* for the one byte of a zero-window probe, even if acknowledgments arrive in
\* another order than they were sent.  (A peer that acknowledges what was not
\* sent does mislead it: ack_received() keeps such an ackno.)
NeverBeyondWindow ==
    ~ misled => snd.next_seqno <= MaxOf(peerEdge, peerAck + 1)

\* A segment leaves _wait_ack only when the peer has all of it, whatever part of
\* it the peer acknowledges, in whatever order the answers come, and whatever is
\* acknowledged beyond what was sent.
ForgetsOnlyAcked == snd.next_seqno - snd.flight_bytes <= peerAck

-----------------------------------------------------------------------------
\* The peer has taken everything that was sent and opens its window, and its
\* answer arrives: an application that reads, and a network that does not lose
\* every segment.
PeerCatchesUp == PeerAnswer(snd.next_seqno, snd.next_seqno + MaxWin)

Fairness ==
    /\ WF_vars(DoTick)
    /\ WF_vars(\E n \in 1 .. Capacity : DoWrite(n))
    /\ WF_vars(DoEndInput)
    /\ SF_vars(PeerCatchesUp)
    /\ SF_vars(\E m \in acks : DoAck(m[1], m[2]))

FairSpec == Spec /\ Fairness

AllAcked == /\ snd.set_fin
            /\ snd.wait_ack = <<>>

\* tests/send_extra.cc says that "Repeated ACKs and outdated ACKs are harmless":
\* unless the connection is given up after too many retransmissions, the whole
\* stream and FIN are sent and acknowledged.
OutdatedAcksHarmless == <>(AllAcked \/ ~ Alive)
=============================================================================
