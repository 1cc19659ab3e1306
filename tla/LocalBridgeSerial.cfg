SPECIFICATION Spec
CONSTANTS
    s1 = s1
    s2 = s2
    Sockets <- MCSockets
    Methods <- MCMethods
    MutationMethods <- MCMutations
    Details <- MCDetails
    Traffic <- MCTraffic
    ConfiguredPending = 3
    ConfiguredReserve = 1
    ReadWeight = 1
    MaxRequests = 3
    MaxFrames = 2
PROPERTIES MutationsSerialized
CHECK_DEADLOCK FALSE
