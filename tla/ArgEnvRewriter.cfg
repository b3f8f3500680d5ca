\* The launcher command for every request of up to two arguments, every
\* plan of up to three of the ids 1..3, and every set of accepted flags.
CONSTANTS
    IdPool = {1, 2, 3}
    MaxInstances = 3
    DaemonValues <- MCDaemonValues
    Lower <- MCLower
    CommaValues <- MCCommaValues
    LauncherFlags <- MCLauncherFlags
SPECIFICATION Spec
INVARIANT LaunchedIdsArePlanned
INVARIANT RejectsAsSpecified
