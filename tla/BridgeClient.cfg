SPECIFICATION Spec
CONSTANTS
    read = read
    edit = edit
    Nobody = Nobody
    Callers <- MCCallers
    Retryable <- MCRetryable
    Bulky <- MCBulky
    Cancellable <- MCCancellable
    MaxConns = 3
    MaxSessions = 2
INVARIANTS TypeOK AnswersOwnCall NoAbandonedWaiter NoLeakedConnection SentOnce SessionAnnounced
PROPERTIES EveryCallEnds
CHECK_DEADLOCK FALSE
