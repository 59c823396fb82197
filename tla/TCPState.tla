------------------------------ MODULE TCPState ------------------------------
(***************************************************************************)
(* libsponge/tcp_helpers/tcp_state.{hh,cc}: the summary of a sender, a     *)
(* receiver and the two flags of their connection, and the official states *)
(* of TCP as such summaries.                                               *)
(***************************************************************************)
EXTENDS TCPConnection

Summary(sender, receiver, active, linger) ==
    [sender |-> sender, receiver |-> receiver, active |-> active, linger |-> linger]

\* TCPState(State): what each official state looks like.
OfficialStates ==
    [LISTEN      |-> Summary("CLOSED",    "LISTEN",   TRUE,  TRUE),
     SYN_RCVD    |-> Summary("SYN_SENT",  "SYN_RECV", TRUE,  TRUE),
     SYN_SENT    |-> Summary("SYN_SENT",  "LISTEN",   TRUE,  TRUE),
     ESTABLISHED |-> Summary("SYN_ACKED", "SYN_RECV", TRUE,  TRUE),
     CLOSE_WAIT  |-> Summary("SYN_ACKED", "FIN_RECV", TRUE,  FALSE),
     LAST_ACK    |-> Summary("FIN_SENT",  "FIN_RECV", TRUE,  FALSE),
     CLOSING     |-> Summary("FIN_SENT",  "FIN_RECV", TRUE,  TRUE),
     FIN_WAIT_1  |-> Summary("FIN_SENT",  "SYN_RECV", TRUE,  TRUE),
     FIN_WAIT_2  |-> Summary("FIN_ACKED", "SYN_RECV", TRUE,  TRUE),
     TIME_WAIT   |-> Summary("FIN_ACKED", "FIN_RECV", TRUE,  TRUE),
     RESET       |-> Summary("ERROR",     "ERROR",    FALSE, FALSE),
     CLOSED      |-> Summary("FIN_ACKED", "FIN_RECV", FALSE, FALSE)]

ReceiverSummary(rcv) ==
    CASE StreamOut(rcv).error -> "ERROR"
      [] ~ StreamOut(rcv).error /\ ~ HasAckno(rcv) -> "LISTEN"
      [] OTHER -> IF StreamOut(rcv).end THEN "FIN_RECV" ELSE "SYN_RECV"

\* The order of the tests is that of the code: SYN_SENT is said of a sender
\* that has nothing acknowledged, whatever it has sent.
SenderSummary(snd) ==
    IF snd.stream.error THEN "ERROR"
    ELSE IF snd.next_seqno = 0 THEN "CLOSED"
    ELSE IF snd.next_seqno = snd.flight_bytes THEN "SYN_SENT"
    ELSE IF ~ Eof(snd.stream) \/ snd.next_seqno < snd.stream.writtensize + 2
      THEN "SYN_ACKED"
    ELSE IF snd.flight_bytes > 0 THEN "FIN_SENT" ELSE "FIN_ACKED"

\* TCPConnection::state().
State(c) ==
    Summary(SenderSummary(c.sender), ReceiverSummary(c.receiver), c.active,
            c.active /\ c.linger_after_streams_finish)
=============================================================================
