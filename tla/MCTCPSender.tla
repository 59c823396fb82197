---------------------------- MODULE MCTCPSender ----------------------------
EXTENDS TCPSenderSpec
============================================================================
