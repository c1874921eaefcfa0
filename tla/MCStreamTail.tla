---------------------------- MODULE MCStreamTail ----------------------------
EXTENDS StreamTail, TLC

MCGaps == {1}
MCCodeBits == {1, 3}
=============================================================================
