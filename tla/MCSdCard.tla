------------------------------ MODULE MCSdCard ------------------------------
EXTENDS SdCard
CONSTANTS c1, c2
MCCards == {c1, c2}
MCHigh == {c1}
MCBlocks == 1 .. 2
\* nothing is said of what follows a misread kind
KindsRight == ~misread
=============================================================================
