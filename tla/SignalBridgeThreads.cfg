\* Signals handled on two threads at once: is the slot fd still released?
CONSTANTS
    t1 = t1
    t2 = t2
    ClosedFd = ClosedFd
    InUseFd = InUseFd
    Threads = {t1, t2}
    NumArms = 1
    MaxSignals = 2
    PipeCapacity = 1
SPECIFICATION Spec
INVARIANT SlotFdReleased
