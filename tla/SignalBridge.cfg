\* One request, signals delivered to one thread at a time, two signals: the
\* slot protocol never misuses an fd and releases the fd it guards.
CONSTANTS
    t1 = t1
    t2 = t2
    ClosedFd = ClosedFd
    InUseFd = InUseFd
    Threads = {t1}
    NumArms = 1
    MaxSignals = 2
    PipeCapacity = 1
SPECIFICATION Spec
INVARIANT NoFdMisuse
INVARIANT SlotFdReleased
PROPERTY SignalSlotSafety
