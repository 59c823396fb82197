--------------------------- MODULE MCTCPReceiver ---------------------------
EXTENDS TCPReceiverSpec
============================================================================
