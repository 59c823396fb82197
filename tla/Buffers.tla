------------------------------ MODULE Buffers ------------------------------
(***************************************************************************)
(* libsponge/util/buffer.{hh,cc}: a Buffer is a string of which a prefix   *)
(* may have been discarded (the storage it shares is never changed, so     *)
(* only what is left of it counts), a BufferList a packet in several       *)
(* Buffers: every layer puts its header before the BufferList of the layer *)
(* above, and writev(2) or sendmsg(2) sends them as one.                   *)
(***************************************************************************)
EXTENDS Integers, SequencesExt

\* Buffer::remove_prefix, n being at most the size.
Discard(buffer, n) == SubSeq(buffer, n + 1, Len(buffer))

\* BufferList::append.
AppendBuffers(list, other) == list \o other

BuffersSize(list) == FoldLeft(LAMBDA n, buffer : n + Len(buffer), 0, list)

\* The conversion to a Buffer.  Several Buffers are an exception, but what has been
\* parsed is always in one.
AsBuffer(list) == IF list = <<>> THEN <<>> ELSE list[1]

\* What the system call makes of the iovecs.
Gathered(list) == FoldLeft(LAMBDA bytes, buffer : bytes \o buffer, <<>>, list)
=============================================================================
