SPECIFICATION Spec
CONSTANTS
    k1 = k1
    k2 = k2
    k3 = k3
    Keys <- MCKeys
    Calls <- MCCalls
    Pumping <- MCPumping
    Durable <- MCDurable
    Large <- MCDurable
    MaxEntries = 2
    MaxStored = 1
    MaxRequests = 3
    MaxFrames = 2
    MaxCrashes = 1
PROPERTIES SafelyRetried
CHECK_DEADLOCK FALSE
