\* One request: is every fd of its signal pipe closed afterwards?
CONSTANTS
    t1 = t1
    t2 = t2
    ClosedFd = ClosedFd
    InUseFd = InUseFd
    Threads = {t1}
    NumArms = 1
    MaxSignals = 2
    PipeCapacity = 1
SPECIFICATION Spec
INVARIANT PipeClosedAfterRequest
