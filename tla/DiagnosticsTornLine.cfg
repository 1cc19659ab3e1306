SPECIFICATION Spec
CONSTANTS
    HistoryLimit = 1
    CompactAt = 4
    MaxCalls = 4
    MaxDepth = 2
    MaxCrashes = 2
PROPERTIES AcknowledgedReported
CHECK_DEADLOCK FALSE
