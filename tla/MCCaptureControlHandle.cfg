\* One client thread puts one device after another; opening may fail.
SPECIFICATION DllSafetySpec
CONSTANTS
    Callers = {c1}
    Functions = {"fnPutdev"}
    DeviceCount = 1
    MaxCalls = 2
INVARIANT
    CapturesFromOpenHandle
CHECK_DEADLOCK FALSE
