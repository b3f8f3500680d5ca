\* R1 and R2 of the registry under the operations request handlers issue
\* (add, remove, clear, opt-out), the JSON import aside.
CONSTANTS
    g1 = g1
    g2 = g2
    h1 = h1
    h2 = h2
    n1 = n1
    n2 = n2
    None = None
    GroupNames <- MCGroupNames
    Homes <- MCHomes
    InstanceNames <- MCInstanceNames
    InstanceIds = {1, 2, 3}
    MaxGroupSize = 2
    MaxGroups = 3
SPECIFICATION DBSpecNoLoad
INVARIANT DBTypeOK
INVARIANT UniqueGroupKeys
INVARIANT UniqueInstanceIds
