--------------------------- MODULE FileDescriptor ---------------------------
(***************************************************************************)
(* libsponge/util/file_descriptor.{hh,cc}: the handle that the rules of an *)
(* event loop share with the owner of a descriptor.  read() and write()    *)
(* give any length the system calls may give; a read or write always       *)
(* counts as one (service_count), also of length 0.                        *)
(***************************************************************************)
EXTENDS Integers

NewFd == [eof |-> FALSE, closed |-> FALSE]

\* What ::read returns of the bytes that are there, 0 at the end of the file.
ReadLengths(there, limit) ==
    IF there = 0 \/ limit = 0 THEN {0}
    ELSE {n \in 1 .. there : n <= limit}

\* FileDescriptor::read: nothing, although something was asked for, is the end.
AfterRead(fd, n, limit) == [fd EXCEPT !.eof = @ \/ (limit > 0 /\ n = 0)]

\* What ::writev takes if poll(2) has found the descriptor writable.
WriteLengths(offered, room) ==
    IF offered = 0 THEN {0}
    ELSE {n \in 1 .. offered : n <= room}

AfterClose(fd) == [fd EXCEPT !.eof = TRUE, !.closed = TRUE]
=============================================================================
