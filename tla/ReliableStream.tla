--------------------------- MODULE ReliableStream ---------------------------
(***************************************************************************)
(* What every part of the system promises about one direction of a         *)
(* transfer: the bytes written at one end come out at the other, in order, *)
(* each of them once, and the end of the stream comes after the last byte. *)
(* The bytes are numbered in the order in which they are written.  The     *)
(* transfer may fail at any time; then nothing more comes out.             *)
(***************************************************************************)
EXTENDS Naturals, Sequences

VARIABLES sent,     \* how many bytes have been written
          closed,   \* has the writer ended the stream?
          arrived,  \* the bytes that have come out
          ended,    \* has the end of the stream come out?
          failed    \* has the transfer failed?

vars == <<sent, closed, arrived, ended, failed>>

Init == /\ sent = 0
        /\ closed = FALSE
        /\ arrived = <<>>
        /\ ended = FALSE
        /\ failed = FALSE

\* Writing, and ending the stream with the last write or after it.
Write == /\ ~ closed
         /\ sent' \in Nat /\ sent' >= sent
         /\ closed' \in BOOLEAN
         /\ UNCHANGED <<arrived, ended, failed>>

\* The next n bytes come out, and the end with them if they are the last.
Deliver(n) ==
    /\ ~ ended /\ ~ failed
    /\ arrived' = arrived \o [i \in 1 .. n |-> Len(arrived) + i - 1]
    /\ ended' \in {FALSE, closed /\ Len(arrived) + n = sent}
    /\ UNCHANGED <<sent, closed, failed>>

Fail == /\ failed' = TRUE
        /\ UNCHANGED <<sent, closed, arrived, ended>>

Next == \/ Write
        \/ \E n \in 0 .. sent - Len(arrived) : Deliver(n)
        \/ Fail

Spec == Init /\ [][Next]_vars
=============================================================================
