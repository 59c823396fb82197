------------------------- MODULE MCTCPSpongeSocket -------------------------
EXTENDS TCPSpongeSocket
=============================================================================
