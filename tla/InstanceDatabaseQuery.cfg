\* The query engine against its reference definition, JSON import included.
CONSTANTS
    g1 = g1
    g2 = g2
    h1 = h1
    h2 = h2
    n1 = n1
    n2 = n2
    None = None
    GroupNames <- MCGroupNames
    Homes <- MCHomes
    InstanceNames <- MCInstanceNames
    InstanceIds = {1, 2}
    MaxGroupSize = 2
    MaxGroups = 2
SPECIFICATION DBSpec
INVARIANT QueryEngineAgreesWithSpec
INVARIANT QueriesSelectAsSpecified
