--------------------------- MODULE MCSignalLocks ---------------------------
EXTENDS SignalLocks, TLC

CONSTANTS c1, c2, c3
=============================================================================
