\* A session whose two-item buffer fills and drains, with a pipe of one message
\* and six items, which wrap the buffer three times; two client threads that call
\* every exported function, for which no device can be opened; and three starts
\* of the gRPC service, the stops between them, three snapshots and one failing
\* call.
SPECIFICATION MCSpec
CONSTANTS
    MaxSize = 2
    PipeCapacity = 1
    MaxItems = 6
    Callers = {c1, c2}
    Functions = {"fnPutdev", "fnStopCapture", "fnStartCapture", "fnCloseApp"}
    DeviceCount = 0
    MaxCalls = 4
    MaxSnapshots = 3
    MaxRuns = 3
    MaxFaults = 1
INVARIANTS
    NoLostWakeup
    Accounting
    GaplessPrefix
    NoUseAfterClose
    NoLostSignal
    OneEnumerator
    CarriedInOrder
    NobodyStuck
PROPERTIES
    ImplementsChannel
    StopEndsOrStrands
    StrandedForGood
    ItemsArrive
    SignalsHeeded
    StopEndsOnTraffic
    Streamed
    ImplementsContract
CHECK_DEADLOCK FALSE
