\* One client thread puts one device after another.
SPECIFICATION DllSpec
CONSTANTS
    Callers = {c1}
    Functions = {"fnPutdev"}
    DeviceCount = 2
    MaxCalls = 2
PROPERTY
    LatestDeviceCaptured
CHECK_DEADLOCK FALSE
