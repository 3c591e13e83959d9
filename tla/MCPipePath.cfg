\* Both hosts of the pipe: two processes of serviceApp one after the other, with a
\* Worker that may be absent, stop and reconnect, or a ring of two slots.
SPECIFICATION Spec
CONSTANTS
    PipeCapacity = 1
    MaxItems = 3
    MaxServes = 2
    MaxAttempts = 2
    MaxCaptures = 2
    BufMax = 2
    MaxPackets = 3
    Traffic <- MCTraffic
    StopHosts = {"service"}
INVARIANTS
    RingOrder
    ReadInOrder
    LateReads
PROPERTIES
    WorkerStops
    ReaderIsFed
CHECK_DEADLOCK FALSE
