------------------------ MODULE WrappingIntegersSpec ------------------------
(***************************************************************************)
(* A sequence number on its way: the sender wraps an absolute number, the  *)
(* peer unwraps what is on the wire against a checkpoint of its own        *)
(* (_next_seqno in TCPSender, bytes_written() in TCPReceiver).  Any isn,   *)
(* any absolute number and any checkpoint.                                 *)
(***************************************************************************)
EXTENDS WrappingIntegers

CONSTANT MaxCheckpoint   \* the furthest a stream gets, at least one 32-bit
                         \* lap below the end of the 64-bit space
ASSUME CheckpointAssumption ==
    MaxCheckpoint \in Nat /\ MaxCheckpoint + Wrap32 < Wrap64

VARIABLES isn, abs, checkpoint, phase, wire, result

vars == <<isn, abs, checkpoint, phase, wire, result>>

Init == /\ isn \in Uint32
        /\ abs \in Uint64
        /\ checkpoint \in 0 .. MaxCheckpoint
        /\ phase = "start"
        /\ wire = 0
        /\ result = 0

DoWrap == /\ phase = "start"
          /\ phase' = "sent"
          /\ wire' = wrap(abs, isn)
          /\ UNCHANGED <<isn, abs, checkpoint, result>>

DoUnwrap == /\ phase = "sent"
            /\ phase' = "received"
            /\ result' = unwrap(wire, isn, checkpoint)
            /\ UNCHANGED <<isn, abs, checkpoint, wire>>

Next == DoWrap \/ DoUnwrap

Spec == Init /\ [][Next]_vars

-----------------------------------------------------------------------------
TypeOK == /\ isn \in Uint32
          /\ abs \in Uint64
          /\ checkpoint \in 0 .. MaxCheckpoint
          /\ phase \in {"start", "sent", "received"}
          /\ wire \in Uint32
          /\ result \in Uint64

\* The peer recovers the number that was sent from its low 32 bits, as long as
\* the two ends are less than half a 32-bit lap apart, whatever the isn and
\* however often the 32-bit counter has wrapped.
RoundTrip ==
    (phase = "received" /\ -Half32 <= abs - checkpoint /\ abs - checkpoint < Half32)
        => result = abs

Distance(a, b) == IF a >= b THEN a - b ELSE b - a

\* wrapping_integers.cc:44: unwrap returns "the 64-bit sequence number that
\* wraps to `n` and is closest to `checkpoint`", also next to zero, where the
\* closest 32-bit neighbour would be negative.
ClosestToCheckpoint ==
    phase = "received" =>
        /\ wrap(result, isn) = wire
        /\ \A x \in Uint64 : wrap(x, isn) = wire =>
              Distance(result, checkpoint) <= Distance(x, checkpoint)
=============================================================================
