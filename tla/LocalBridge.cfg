INIT Init
NEXT Next
SYMMETRY Symmetry
CONSTANTS
    s1 = s1
    s2 = s2
    Sockets <- MCSockets
    Methods <- MCMethods
    MutationMethods <- MCMutations
    Details <- MCDetails
    Traffic <- MCTraffic
    ConfiguredPending = 3
    ConfiguredReserve = 1
    ReadWeight = 1
    MaxRequests = 4
    MaxFrames = 2
INVARIANTS TypeOK OneDrainTimer NoStrandedWork BacklogOfClientsOnly CancelledMeansNeverRun
PROPERTIES LedgerKept
CHECK_DEADLOCK FALSE
