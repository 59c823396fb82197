# TLA+ verification of sponge, a user-space TCP

`src/libsponge` is a TCP implementation in C++ (the CS144 "sponge" labs): a
byte stream, a reassembler, a receiver, a sender and a connection, wrapped by a
socket class that runs the connection in an event-loop thread. This directory
holds TLA+ modules translated from that code, TLC configurations that check
them on small instances, and TLAPS proofs that hold for every instance.

`PROJECT.json` is the machine-readable index: components, runs, the source lines
of every definition, the mutants that show each property can fail, the findings,
the hazards and the theorems.

    tlc -config MCTCPSender.cfg MCTCPSender      # one run
    tlapm ByteStreamProofs.tla                   # one module of proofs

## 1. Inventory

### Parts, state, operations

| Part | State | Operations | What makes it correct |
|---|---|---|---|
| `ByteStream` (byte_stream) | deque, room left, bytes written and read, end and error flags | `write`, `peek_output`, `pop_output`, `read`, `end_input`, `set_error` | bytes come out once, in order; the counters, the deque and the room agree; `eof()` only after the last byte |
| `WrappingInt32` (wrapping_integers) | none | `wrap`, `unwrap`, `+`, `-` | `unwrap` finds the 64-bit number that was meant |
| `StreamReassembler` (stream_reassembler) | an output `ByteStream`, a sorted linked list of stored substrings, the room left in it | `push_substring` (with `insert_to_linklist` and `fetch_valid_data`), `unassembled_bytes`, `empty` | the output is the stream whatever arrives in whatever order; the list stays sorted and bounded; the end is neither early nor lost |
| `TCPReceiver` (tcp_receiver) | a reassembler, the peer's isn | `segment_received`, `ackno`, `window_size` | every byte in its place; the ackno says what is missing; the window is a promise |
| `TCPSender` (tcp_sender) | outgoing stream, next sequence number, `_ackno` and window last heard, unacknowledged segments, timer, retransmission count | `fill_window`, `ack_received`, `tick`, `send_empty_segment` | nothing outside the window, nothing forgotten, the timer on whenever something is outstanding, all is sent in the end |
| `TCPConnection` (tcp_connection) | a sender, a receiver, the outgoing queue, the active and linger flags, the time since the last segment | `connect`, `write`, `end_input_stream`, `segment_received`, `tick`, destructor | both streams arrive whole; the connection is over only when they have; one side lingers; both sides get there |
| `TCPState` (tcp_helpers/tcp_state) | a summary of the three objects above | constructors, comparison | one of the official states at every moment |
| `TCPSpongeSocket` (tcp_helpers/tcp_sponge_socket) | a connection, a socket pair to the owner, an event loop, a thread, `_abort` | the four rules of the event loop, `connect`, `listen_and_accept`, `wait_until_closed`, destructor | every byte crosses, the thread ends |
| `EventLoop` (util/eventloop) | rules with direction, interest and callbacks | `add_rule`, `wait_next_event` | a rule fires when it is interested and ready; no busy wait |
| adapters (fd_adapter, lossy_fd_adapter, tcp_over_ip, tuntap_adapter) | source and destination, the listening flag | `read`, `write` | what the peer's connection wrote arrives unchanged, and nothing else does |
| headers, parser, buffers | what is left to parse, the first error | parse, serialise, checksum | a round trip, and damage is noticed |
| `FileDescriptor`, sockets (util) | end of file, closed, counts of reads and writes | `read`, `write`, `close`, `shutdown` | partial reads and writes are accounted for |
| `bidirectional_stream_copy` (apps) | two `ByteStream`s, two flags, an event loop | four rules | all of both inputs is copied, then it ends |
| `tcp_benchmark` (apps) | two connections | a loop: write, exchange, read, tick | the string arrives, the loop ends |
| `NetworkInterface`, `Router` | unimplemented skeletons in this repository | | |
| other applications | none of their own | | |

### How they interact

Everything below `TCPSpongeSocket` is called synchronously, by one thread at a
time: first the owner's (`connect()` and `listen_and_accept()` run the event loop
until the handshake is over), then the event-loop thread (`_tcp_main`). The
objects are nested: a connection owns a sender and a receiver, a receiver owns a
reassembler, and sender and reassembler own a `ByteStream` each. Two endpoints
interact by segments, which a network (or `LossyFdAdapter`) may lose, repeat and
reorder. Inside an endpoint sender and receiver meet only in the connection:
`segment_received()` shows the receiver the data and the sender the ackno, and
`send_segments()` stamps what the sender queues with the receiver's ackno and
window. Time comes from `_tcp_loop`, which calls `tick()` after every event or
after 10 ms, whichever comes first. On the outside, the socket's event loop reads
and writes segments through an adapter, which turns them into UDP payloads or IPv4
datagrams and filters what arrives; on the inside, the owner's own event loop
(`bidirectional_stream_copy`) moves bytes between its terminal and the socket pair.

### What is hard

Orders of segments and acknowledgments nobody wrote a test for; the edges of the
window, of the 32-bit lap and of the buffers; three redundant records of what is
outstanding; a timer driven from three handlers; the decision of each side, alone,
whether to linger; the two threads of the socket; who the peer of a listening
adapter is; parsers whose verdict nobody asks for; descriptors that are closed, hung
up or shut down under an event loop. `PROJECT.json` lists these
hazards at their lines with the properties that watch them.

## 2. Modules

A C++ object is a record with the members of the class, and a method is an
operator from the record to the record it leaves. An operator module has no
variables, so that the objects nest as in the code; the `...Spec` module declares
the variables, the environment and the properties; the `MC...` module and the
`.cfg` files choose the instance; `...Proofs` holds the theorems.

| Module | Models | Notes |
|---|---|---|
| `ByteStream`, `...Spec`, `...Proofs` | `ByteStream` | a byte is an element of a small set; all calls in any order, strings and lengths beyond the room included |
| `WrappingIntegers`, `...Spec`, `...Proofs` | `wrap`, `unwrap` | both widths are parameters (`Wrap32` = 2^32, `Wrap64` = 2^64 in the code); a sender wraps a number, a receiver unwraps it against any checkpoint |
| `StreamReassembler`, `...Spec`, `...Proofs` | `StreamReassembler` | the linked list is a sequence of nodes; `InsertCall` is one activation of the recursive `insert_to_linklist`, `FetchRound` one turn of the loop of `fetch_valid_data`, and `Iterate` runs them |
| `TCPSegment` | `TCPSegment`, `TCPHeader` | the fields the state machines read |
| `TCPReceiver`, `...Spec`, `...Proofs` | `TCPReceiver` | |
| `StreamLemmas` | | what the operators of the modules above do, for every argument: the event loop's list of rules included: the lemmas that all the `...Proofs` modules share |
| `TCPSender`, `...Spec`, `...Proofs` | `TCPSender` and its `Timer` | the loop of `fill_window` in closed form; the peer is an honest receiver whose window edge never moves back |
| `TCPConnection`, `...Spec` | `TCPConnection`, twice, and a network | a segment is under way while it is in the `_segments_out` of the side that made it |
| `ReliableStream` | | the abstract specification: one direction of a transfer, which delivers the bytes written, once and in order, and the end after them, or fails |
| `TCPState` | `TCPState` | the summary of a connection, and the official states as summaries |
| `EventLoop` | `EventLoop` | the list of rules and the three parts of `wait_next_event`; the callbacks of the rules before one with an error run before its exception is thrown |
| `TCPSpongeSocket`, `...Proofs` | `TCPSpongeSocket`, its thread and its owner | the connection is abstracted to what the rules see of it |
| `FileDescriptor`, `StreamCopy`, `StreamCopyProofs` | `FileDescriptor`, `bidirectional_stream_copy` | a second client of `EventLoop`, with the socket, the terminal and the connection behind the socket as its environment |
| `Buffers`, `Parser`, `Headers` | `Buffer`, `BufferList`, `NetParser`, `InternetChecksum`, `TCPHeader`, `TCPSegment`, `IPv4Header`, `IPv4Datagram` | byte by byte; a 32-bit number is the pair of its halves, since TLC counts with 31 bits |
| `FdAdapter`, `FdAdapterSpec` | `TCPOverUDPSocketAdapter`, `TCPOverIPv4Adapter`, the TUN adapter, `LossyFdAdapter` | three programs on one network that damages and truncates datagrams |

`TCPConnection` extends `TCPSender` and `TCPReceiver`, which extends
`StreamReassembler`, which extends `ByteStream`: the connection runs check the
composition of all of them. `TCPSpongeSocket` extends `ByteStream` and `EventLoop`;
its connection is a record of the two streams, the number of queued segments, the
handshake and `active()`, and a call of the connection takes it to any state that
`TCPConnection` could leave (`AfterSegment`, `AfterWrite`, `AfterTick`, ...): when
acknowledgments come, and what they acknowledge, is left open, and one segment may
finish the handshake and bring bytes or the end with it. `FdAdapterSpec`
extends `FdAdapter`, `Headers`, `Parser` and `Buffers`; what it shows of a segment on
its way (unchanged, dropped, from the one peer) is what `TCPConnectionSpec` assumes of
its network. `TCPConnectionSpec` and `StreamCopy` are each shown to implement
`ReliableStream` twice, once in each direction: the same promise, first of the
connection and then of the loop that feeds it.

Reading the models beside the code:

* Stream contents are the numbers 0, 1, 2, ... (`Excerpt(lo, hi)` is the stream
  from `lo` to `hi`), so a misplaced byte shows as a wrong number.
* `push_substring` with a recursive insertion, a loop that fetches, and the
  early returns at lines 35, 41 and 57 are one step, as in the code.
* `TCPSender::fill_window` takes as many bytes as stream and window allow, at
  most `MaxPayload` a segment, and sets FIN on the segment that empties an ended
  stream if there is room: `Burst` gives the segments of all rounds at once.
* `ack_received` writes `_ackno` before it tests whether the ackno is possible
  (line 108), and takes `_ackno` and `_window_sz` from old acknowledgments too;
  both are kept in the model.
* `TCPConnection::tick` that gives up leaves the segment the sender has just
  retransmitted in the sender's queue; `Tick` does too.
* The destructor's RST is queued in an object that dies with its queue;
  `DoDestruct` drops it, as `_tcp.reset()` does in `_tcp_main`.
* `Then(x, f)` is `f(x)`. It binds `x` to a value where TLC would otherwise
  evaluate the argument again at every occurrence.
* In `TCPSpongeSocket` a step of the thread is what it does between two points
  where the owner's system calls can be noticed: setting up the poll (which reads
  only the thread's own state), `poll(2)`, each callback, the tick. The kernel's
  part (`Ready`, `Hangup`) is that of an AF_UNIX stream socket pair: a hangup is
  both directions shut down, bytes already in the pipe are read before the end is,
  and a write after a shutdown is SIGPIPE. `poll(2)` may be interrupted.
* `TCPConnectionSpec` has a variable `scenario`, chosen at the start: how much each
  side sends, who opens, who ends its input before the opening, who destructs, the
  receive capacity. A scenario is either interleaved freely with the network, or it is
  the loop of `tcp_benchmark`: a single thread that writes, moves all segments from x to
  y (in order or reversed) and back, reads, and lets a whole timeout pass. It calls
  connections that are over, too.
* `parse()` of a header returns an error that `TCPSegment::parse` and
  `IPv4Datagram::parse` ignore; they ask only whether the parser ran out of bytes. The
  model keeps both, the result and the parser left behind, and ignores the same one.
* A damage in `FdAdapterSpec` is that of one byte, or a datagram cut short; UDP
  datagrams are not cut. The kernel reports the true source of a UDP datagram.
  `LossyFdAdapter::read` drops a segment after the adapter has read it and perhaps
  taken its sender for the peer; the action `Read` has that order.
* In `StreamCopy` the standard input may be a pipe (whose end is a hangup without an
  event) or a file or terminal (readable at its end), which `poll(2)` decides anew each
  time; the output may lose its reader; the connection may fail, which shuts the socket
  down both ways. Reads and writes are of any length the kernel may give.
* Time is counted in units; `_wait_segment_time` is only ever compared with the
  linger time and is cut there.

Operators whose comment begins with "Mutant:" are not part of the system. Each is
a plausible error in the definition that follows it, and putting it in the place
of that definition makes TLC report the property named for it in `PROJECT.json`.

## 3. Runs

The passing runs:

| Run | Question | Bounds |
|---|---|---|
| `byte_stream` | does every mix of calls deliver the accepted bytes in order and keep the counters in step? | capacity 2, strings up to length 3, 5 bytes written: partial writes, refused writes and over-long reads all happen |
| `wrapping` | does `unwrap` invert `wrap`, and give the closest candidate? | 8 for 2^32, 32 for 2^64, every isn, every number, checkpoints over three laps: exact half laps and the neighbourhood of zero included |
| `reassembler` | is the output the stream, and the list well formed, when substrings stay in the window, and does the end come, whatever else is pushed? | stream of 7, capacity 4, 6 nodes: every substring and eof flag in every order |
| `receiver` | bytes in their place across a wrap, ackno read back right, in-window bytes kept, window never taken back? | lap of 12, stream of 14 (the numbers wrap in the stream), capacity 3, three isns, segments up to 4 bytes late |
| `sender` | do the records of what is outstanding, the timer and the backoff agree, does the sender stay in the window and keep what is not acknowledged? | stream of 3, payload 2, window 3, two acknowledgments under way that may be lost or reordered and may cut a segment, and acknowledgments of what was never sent |
| `connection` | do two connections implement a reliable stream each way, from the opening to the closing, is nothing forgotten, is a clean close a delivery, do they move along TCP's state diagram? | four scenarios (two bytes with a window of two; a destruction at any moment; either or both open; an end of input before the opening) with one fault (loss, repetition, overtaking) anywhere and aborts; and `tcp_benchmark` with streams of 1 to 4 bytes and windows of 1 to 3 |
| `socket` | do bytes cross the thread in order, does no exception leave the loop but the two that `NoFault` names, is an end of stream a real one, does the thread end? | two bytes each way, a pipe of one byte (so writes are partial), an outbound buffer of one, resets, losses, signals, the destructor at any moment |
| `connection_close` | do both sides close without giving up, and does one of them linger? | one byte one way, a receive capacity of one (so FIN waits for a closed window), a linger of 10 timeouts as in the code, three retransmissions where the code allows 8 (the claim is the stronger), any two losses; and `tcp_benchmark` as above |
| `datagrams` | is what a connection is given what its one peer wrote, whatever byte was damaged? | three programs in every arrangement of addresses and ports on two or three machines, over UDP and TUN; four segments with all flags, all kinds of field values at their ends (0, 255, 65535, halves alike and different), payloads of 0, 2 and 3 bytes; one damage of any byte by 1, 16 or 128, or a cut at any length; one datagram under way |
| `stream_copy` | is the copy a reliable stream both ways, does it end, and only when all is copied, and does it fail only if something outside does? | 3 and 2 bytes, buffers of 3, at most 2 bytes copied at a time, a socket and an output of one byte: full, partial and empty reads and writes, hangups and failures at any moment |

The bounds are small but not too small for the cases: the reassembler can hold
several separate nodes and fill up; the receiver's numbers wrap; the sender has
several segments outstanding, partial acknowledgments, closed windows and
retransmissions up to the limit; the connection goes through opening (also
simultaneous), transfer, half-close, both orders of closing, lingering and abort.
Deadlock is checked where calls are always possible. It is not for `wrapping`
(two steps and done), and for the sender and the connection, which stop when the
connection has been given up or is over, and for the socket and the stream copy,
whose loops end. It is for `datagrams`.

The runs that show a disagreement between the code and what the repository says
of it (section 6) are `receiver_overrun` and `sender_outdated`.

## 4. Fairness

* `reassembler`: weak fairness of the retransmission of the first missing
  byte (a sender repeats what is not acknowledged) and of reading.
* `sender_outdated`: weak fairness of `tick` (the event loop calls
  it at least every 10 ms), of the application's writes and of its end; strong
  fairness of a peer that takes everything and opens its window and of the
  arrival of an acknowledgment: a network that loses segments, but not all of
  them. The property excepts a sender that has given up.
* `socket`: weak fairness of the thread (the operating system runs it, and poll has
  a timeout) and of the owner's reading, where it reads at all. The destructor's
  half of `ThreadEnds` needs only the first. Nothing is assumed of peer and network.
  `Delivered` begins when `connect()` or `listen_and_accept()` has returned: until then
  the owner is in the loop of the handshake, which a silent peer may keep going.
* `connection_close`: weak fairness of ticks, of the applications (taken together:
  some pending call of some application is made) and of the delivery of some
  segment, with a bounded number of losses. The loop of `tcp_benchmark` is one of the
  applications.
  `Prompt` says that no unit of time passes while a segment is under way: the
  round trip is short compared with the retransmission timeout. Without it the
  statement is false, for the code as for any TCP: linger times measure against
  the time a segment may take.

* `stream_copy`: weak fairness of the loop (of which a signal is no part), of the
  connection that takes bytes from the socket, and of the reader of the output, as long
  as they live. Nothing is assumed of who types or of the peer: `CopyEnds` begins when
  both inputs have ended. `poll(2)` has no timeout here, so that an interest that never
  becomes an event would block the loop for ever.

## 5. Proofs

TLAPS proves, for every value of the constants that satisfies the named
assumptions:

* `ByteStreamProofs` (any capacity, alphabet, set of strings, set of read
  lengths): `TypeOK`, `Accounting`, `InOrderDelivery`, `EofMeansAllRead`. The
  inductive invariant is the conjunction of the first three: delivery alone is
  not inductive, since a read moves `min(len, size)` bytes from the deque and the
  counters must agree with its length. The main lemma, `SubstrSplit`, says that
  cutting a string and joining the parts gives it back. `EofMeansAllRead` follows
  from the invariant: `eof()` compares counters, the counters measure the deque,
  and an empty deque leaves `got = log`.
* `WrappingIntegersProofs` (any widths where the half lap is exact and the lap
  divides the 64-bit range, any checkpoint that far from the end of it):
  `TypeOK`, `RoundTrip`, `ClosestToCheckpoint`. The argument: a wrapped number
  differs from isn plus number by a multiple of the lap (`WrapLaps`), so the
  distance on the wire is the true distance modulo the lap (`WireDistance`),
  `unwrap` goes forward by it or backward by its complement (`UnwrapCases`), and
  of two numbers with one wire form the one chosen is the closer
  (`UnwrapClosest`). Everything rests on a few facts on `%` (`ModDef`,
  `ModUnique`, `ModShift`).
* `StreamReassemblerProofs` (any stream, capacity and list): `TypeOK`,
  `OutputIsStream`, `ListWellFormed` and the action property `AssembledAfterPush`, which
  is about the pushes that write something to the output.
  The inductive invariant is `GoodReassembler` of `StreamLemmas`: the output is
  the stream up to what was written, the nodes are stretches of the stream, sorted
  and disjoint, none reaches beyond the right edge of the window, an eof is at the end
  of the stream, and free room and stored bytes make up the capacity. The edge is what the
  properties alone do not say: `fetch_valid_data` may take a node off the list as a
  whole only because the node fits the output. It has a lemma for each level of the
  code: `InsertWalkGood` (the walk along the list), `InsertCallGood` (one activation
  of `insert_to_linklist`), `InsertToLinklistGood` (the recursion, whose bytes left
  shrink), `FetchRoundGood` and `FetchValidDataGood` (the loop, whose list shrinks),
  `PushSubstringGood` (the whole call with its early returns).
* `TCPReceiverProofs` (any widths, isn, stream, capacity, any lag below half a lap):
  `StreamIntact`, `AcknoReadBack`, `InWindowKept` and the action property
  `RightEdgeNeverRetreats`, for a peer that respects the window (`~ Overrun`;
  `receiver_overrun` shows that the first fails without that). The invariant is that of
  the reassembler, and that the isn is the peer's once it is set. `UnwrapWrap` does the
  rest: every segment that the network may still deliver, and every ackno the peer may
  still see, is within half a lap of the checkpoint it is unwrapped against
  (`IndexFound`). The assumption that the stream ends two laps before 2^64 is what keeps
  `unwrap` from going round the 64-bit range. `InWindowKept` follows one byte through
  the reassembler (`Has`, `Pending`): an activation of `insert_to_linklist` that does
  not store it leaves an empty node behind and begins the next activation two nodes
  further in a list that is one node longer (`CallKeeps`), so that the recursion reaches
  the end of the list within the activations the model allows (`InsertKeeps`), and a
  round of `fetch_valid_data` takes a node off only when the output has all of its bytes
  (`RoundKeeps`, `FetchKeeps`).
* `TCPSenderProofs` (any isn, capacity, window, payload size, timeout, any order and
  loss of acknowledgments, impossible ones included): `TypeOK`,
  `RetransmissionArmed`, `SequenceAccounting`, `BackoffLaw`, `OutstandingContiguous`,
  `NeverBeyondWindow` and `ForgetsOnlyAcked`. `SenderAssumption` bounds the stream:
  `StreamLen + 3 < Half32`, that is under 2 GiB, so that every ackno of what was sent is
  within half a lap of the checkpoint it is unwrapped against. The inductive
  invariant `Inv` has three parts. `SenderInv` is about the record alone: types, the
  timer on exactly if `_wait_ack` is not empty, `_flight_bytes` the sum of the
  lengths there, the timeout the initial one doubled once for each consecutive
  retransmission. `Layout` says that `_wait_ack` covers the sequence
  numbers from `next_seqno - flight_bytes` to `next_seqno` without gap or overlap,
  and that the stream holds what comes after them. `Answered` relates the sender to
  the peer: no answer under way is ahead of the peer, the peer is not ahead of the
  sender, and a sender that was not misled by an impossible ackno believes in no window
  beyond the peer's. Each handler has a lemma for each part (`FillWindowInv`,
  `FillWindowLayout`, `AckReceivedInv`, `AckReceivedLayout`, `SenderTickInv`, ...).
  The hard ones are `BurstStretch`, that the segments of a call of `fill_window`
  are laid end to end, and `AckReceivedLayout`, that a cumulative ackno removes
  a prefix of them and subtracts just their lengths.
* `StreamCopyProofs` (any lengths of the two inputs, any buffer, read and kernel buffer
  sizes): `FaultsOnlyFromOutside`, `ExitMeansCopied` and `CopiesBothWays`, the
  refinement of `ReliableStream` in each direction. The inductive invariant accounts
  for every byte of either input (`Account`: unread, in the stream, or written behind
  it), says where the loop is (`Machine`), and ties the state of each rule to what its
  descriptors have told (`Outwards`, `Inwards`). The last is what the properties need
  and do not say: a rule leaves the list, or a direction is shut down, only after an end
  was read or a hangup noticed, and an event that was found before a callback is still
  good after it, although the callback may have closed what another rule polls.
  `Outwards` and `Inwards` are not mirror images: only the socket hangs up while bytes
  wait for it. Each action has a lemma; `StepEffect` then says what any step does to
  inputs, outputs and ends, and `OutwardsRefines` and `InwardsRefines` show that it is a
  step of the abstract stream or a stutter.
* `TCPSpongeSocketProofs` (any stream lengths, capacities, pipe size and bound on queued
  segments): `TypeOK`, `BytesCross`, `NoFault`, `EofHonest`, `CleanExit`, in every
  interleaving of the thread and its owner and for every connection that behaves as
  `AfterSegment`, `AfterWrite`, ... allow. The inductive invariant has, besides the last
  three properties, where the loop is and what the owner can be doing then (`Machine`),
  the connection (`GoodTcp`: one that is over has an inbound stream that has ended or
  failed), the place of every byte (`Crossing`) and `Told`: the pipe is shut down
  towards the owner only at the end of the inbound stream, after an error, or by a
  thread that was stopped. `Told` carries the argument from the callback of rule 3 to
  the owner's read of an end any number of steps later, and to the exit of the loop,
  which needs rule 3 to be gone. The assumption on the widths of sequence numbers comes
  along with `StreamLemmas` and is not used.

The recursions and loops of the code need induction over data, which the library's
induction theorems, with an operator as a parameter, do not give the
provers. `StreamLemmas` does it with sets: a non-empty set of naturals has a least
element (`LeastElement`), so a set that contains 0 and is closed up to a bound
contains all up to it (`InductionUpTo`); the sum that `SumTo` computes and the rounds
that `Iterate` runs are determined by such an induction (`SumToSteps`, `Iteration`).

Only model-checked:

* Liveness under fairness (`EventuallyEof`, `BothCloseCleanly`, `ThreadEnds`,
  `Delivered`, `CopyEnds`), which the prover cannot do.
* Two connections over a network (`NothingForgotten`, `CleanCloseMeansDelivered`,
  `OneSideLingers`, `FollowsDiagram`, the refinement `ReliableBothWays`). The invariant
  would have to relate the sequence numbers of every segment under way to both ends, on
  top of the invariants of sender and receiver; the proofs of those two are the parts
  it would be made of.
* The adapters and formats (`Transparent`, `DamageDetected`, `OnePeer`): a field of a
  header is a fold over bytes and the checksum an arithmetic of carries, both by
  induction over data.

## 6. Findings

Each is a run that violates what a comment or test of the repository says
(`PROJECT.json` quotes the lines):

* `sender_outdated`: an old acknowledgment that arrives while nothing is in
  flight moves `_ackno` back. `fill_window` then sees a window that is used up,
  nothing is outstanding, no timer runs, and the rest of the stream and FIN are
  never sent.
* `receiver_overrun`: a segment beyond the window is stored as long as it begins
  within a capacity of the written bytes. When a stored node does not fit the
  output, `fetch_valid_data` writes what fits, then cuts the node by the room left
  *after* the write (0), so that its bytes are written again later, at the wrong
  place. A peer that respects the window never gets there (`reassembler`,
  `receiver`).

Smaller things the translation shows, without a run of their own: an ackno beyond
what was sent is stored in `_ackno` (tests/send_ack.cc:61 calls it ignored; it has
no effect on what is kept, only on the window); after a reset, rule 3 of the socket
shuts the pipe down even if a partial write has left bytes in the inbound stream,
stays interested in them, and the next write is a SIGPIPE (the exception in
`NoFault`; it takes a pipe smaller than the receive capacity); the RST of a
destructed socket (tcp_sponge_socket.hh:75) is queued in the connection by its
destructor and sent by nobody; the output and
the list of a reassembler are each given the whole capacity, where
stream_reassembler.hh:43 says that it limits both together;
`unassembled_bytes()` counts bytes that are already in the output; a substring
that begins where a stored one begins links an empty node into the list;
`write()` accepts bytes after `end_input()`. A connection whose stream is drained
but whose FIN waits for a closed window, and that has the peer's FIN, is in none
of the official states of `TCPState` (`FIN_PENDING` in `FollowsDiagram`): the code
decides by `eof()` and not by the FIN sent whether it is the passive side, and so
lingers where it need not.

In the outer parts: `IPv4Datagram::parse` and `TCPSegment::parse` ignore what the
parsers of the headers return, so that a wrong version, a header length below the
minimum or a bad IPv4 checksum (ipv4_header.cc:13-22, tcp_header.cc:9-16) is no
error; `DamageDetected` shows that the TCP checksum and its pseudo header still stop
every damage of a byte. The comment at fd_adapter.cc:11-19 says that the ports of a
segment are compared and that the socket is connected; the code compares only the
source of the UDP datagram and does not connect. A SYN that `LossyFdAdapter` drops
has already bound the listening adapter to its sender. `webget` closes its socket
before it waits: both the owner's and later the thread's `shutdown()` of the closed
descriptor throw (the second exception in `NoFault`). `as_string()` of
`ParseResult::Unsupported` is beyond the table of names (parser.cc:7-18).
`EventLoop::wait_next_event` swallows failures of `poll(2)` other than EINTR, and a
hangup of a rule that is not interested makes `poll(2)` return at once, so that the
loop spins until another rule acts.

## 7. Not modelled, and plan

Modelled: the five objects from the byte stream to the connection, the state summary,
the composition of two connections and its refinement of the abstract stream, the
socket with its event loop and two threads, the copy loop of the applications, the
adapters with the formats of TCP and IPv4, the benchmark. Proved: every safety
property of the byte stream, the sequence numbers, the reassembler, the receiver, the
sender, the copy loop and the socket, and the copy loop's refinement of the abstract
stream. In order of importance, what could follow:

1. The safety properties of two connections and their refinement of `ReliableStream`:
   the proofs of sender and receiver, joined by an invariant of the segments under way.
2. `TCPConnection` shown to be one of the connections `TCPSpongeSocket` assumes.
3. The adapters' filters, with the formats reduced to what parsing a serialised
   segment gives.

Left out:

* `NetworkInterface` and `Router`: the repository has only the unimplemented skeletons.
  With them go the TAP adapter, whose `read` can deliver nothing, Ethernet frames and
  ARP messages, which nobody makes, and `lab7` and `network_simulator`, which run them.
* System call wrappers that only pass on a call, command lines, printing,
  `udp_tcpdump`, `tun`, `bouncer`: I/O without state of their own.
* Within what is modelled: segments that survive from an earlier connection between
  the same ports, a receive capacity of 2^16 or more, and the wrapping of the 32-bit
  `_timeout` after 22 doublings (the connection gives up after 8) are excluded by the
  models' assumptions; two damages to one datagram can cancel out in any 16-bit sum and
  are not allowed; a failure of a system call that the code turns into an exception at
  once (out of memory, out of descriptors).
