\* One request, two signals, with the code's pipe ends: is a signal received
\* while the launcher runs ever acted on (the liveness of SignalSlot)?
CONSTANTS
    t1 = t1
    t2 = t2
    ClosedFd = ClosedFd
    InUseFd = InUseFd
    Threads = {t1}
    NumArms = 1
    MaxSignals = 2
    PipeCapacity = 1
SPECIFICATION Spec
PROPERTY SignalSlotSpec
