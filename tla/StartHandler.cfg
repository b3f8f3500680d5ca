\* Three start requests racing for the same group name and home: rollback
\* discipline, registry uniqueness and termination.
CONSTANTS
    c1 = c1
    c2 = c2
    c3 = c3
    g1 = g1
    g2 = g2
    h1 = h1
    h2 = h2
    n1 = n1
    r1 = r1
    r2 = r2
    r3 = r3
    None = None
    ClosedFd = ClosedFd
    GroupNames <- MCGroupNames
    Homes <- MCHomes
    InstanceNames <- MCInstanceNames
    Requests <- MCRequests3
    Plan <- PlanSameKey3
    InstanceIds = {1, 2, 3}
    MaxGroupSize = 1
    MaxGroups = 3
    AcloudLaunched = {r3}
    DefaultGroup = {r1, r2}
    CompatHome <- MCCompatHome
    InitFs <- MCInitFs
SPECIFICATION Spec
INVARIANT TypeOK
 
PROPERTY StartLifecycleSafety
