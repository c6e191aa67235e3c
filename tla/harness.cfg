SPECIFICATION FairSpec
CONSTANTS
    w1 = w1
    w2 = w2
    p1 = p1
    p2 = p2
    v1 = v1
    g1 = g1
    k1 = k1
    NoOne = NoOne
    Workers <- MCWorkers
    Probes <- MCProbes
    Checks <- MCChecks
    Commands <- MCCommands
    Keys <- MCKeys
    KeyOf <- MCKeyOf
    Mixes <- MCMixes
    Slots = 2
    MaxFaults = 1
    MaxForks = 1
CHECK_DEADLOCK FALSE
INVARIANTS NothingEscapes OwnedCancelIsFinal
PROPERTIES CallsEnd
