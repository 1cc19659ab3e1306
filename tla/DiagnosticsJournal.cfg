SPECIFICATION Spec
CONSTANTS
    HistoryLimit = 1
    CompactAt = 3
    MaxCalls = 3
    MaxDepth = 2
    MaxCrashes = 3
INVARIANTS TypeOK HistoryOnce
PROPERTIES InterruptionsReported NoFalseInterruption SettledNotReportedAgain
CHECK_DEADLOCK FALSE
