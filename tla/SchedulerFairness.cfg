SPECIFICATION Spec
CONSTANTS
    Sockets = {s1, s2}
    Methods = {"operation.control", "project.action", "session.snapshot"}
    MutationMethods = {"operation.control", "project.action"}
    Details = {"plain"}
    ConfiguredPending = 4
    ConfiguredReserve = 1
    ReadWeight = 3
    MaxRequests = 7
INVARIANTS TypeOK ReserveKept ControlRefusedOnlyByControl BoundedOvertaking
CHECK_DEADLOCK FALSE
