\* Can a stored message be lost?
SPECIFICATION SafetySpec
CONSTANTS
    Workers = {w1, w2}
    NoWorker = NoWorker
    MaxRows = 2
    BatchSize = 2
    MaxFaults = 1
INVARIANT
    NothingLost
CHECK_DEADLOCK FALSE
