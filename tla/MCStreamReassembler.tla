------------------------ MODULE MCStreamReassembler ------------------------
EXTENDS StreamReassemblerSpec
============================================================================
