\* Two messages and one broken connection.
SPECIFICATION Spec
CONSTANTS
    MaxOffset = 2
    NotNotes = {}
    Poison = {}
    MaxBatch = 2
    MaxFaults = 1
PROPERTY
    RetriedAfterIoError
CHECK_DEADLOCK FALSE
