---------------------------- MODULE MCByteStream ----------------------------
EXTENDS ByteStreamSpec

\* Every string of at most three bytes: the empty one, some that fit the room
\* that is left, and some that do not.
MCStrings == {<<>>} \cup (UNION {[1 .. n -> Byte] : n \in 1 .. 3})
=============================================================================
