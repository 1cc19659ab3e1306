SPECIFICATION Spec
SYMMETRY Symmetry
CONSTANTS
    k1 = k1
    k2 = k2
    k3 = k3
    Keys <- MCThreeKeys
    Calls <- MCCalls
    Pumping <- MCPumping
    Durable <- MCDurable
    Large <- MCDurable
    MaxEntries = 2
    MaxStored = 1
    MaxRequests = 4
    MaxFrames = 2
    MaxCrashes = 1
INVARIANTS TypeOK ReplayFaithful SecondEffectOnlyInDoubt WholeUntilRestart
CHECK_DEADLOCK FALSE
