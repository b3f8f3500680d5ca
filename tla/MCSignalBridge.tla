-------------------------- MODULE MCSignalBridge --------------------------
EXTENDS SignalBridge, TLC

CONSTANTS t1, t2
=============================================================================
