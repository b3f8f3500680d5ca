\* A group whose HOME is the acloud compatibility path of another group's
\* id, started beside it on a clean host: is a registered home ever removed?
CONSTANTS
    c1 = c1
    c2 = c2
    c3 = c3
    g1 = g1
    g2 = g2
    h1 = h1
    h2 = h2
    n1 = n1
    r1 = r1
    r2 = r2
    r3 = r3
    None = None
    ClosedFd = ClosedFd
    GroupNames <- MCGroupNames
    Homes <- MCHomesCompat
    InstanceNames <- MCInstanceNames
    Requests <- MCRequests
    Plan <- PlanCompatHome
    InstanceIds = {1, 2}
    MaxGroupSize = 1
    MaxGroups = 2
    AcloudLaunched = {}
    DefaultGroup = {}
    CompatHome <- MCCompatHome2
    InitFs <- MCCleanFs
SPECIFICATION Spec
PROPERTY RegisteredHomeNeverRemoved
