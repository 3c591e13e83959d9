\* Four messages in batches of up to two; MasterNode rejects the second, the
\* subscriber the fourth; any two faults.
SPECIFICATION Spec
CONSTANTS
    MaxOffset = 4
    NotNotes = {2}
    Poison = {4}
    MaxBatch = 2
    MaxFaults = 2
INVARIANTS
    OnlyAuthenticatedWrite
    ReadersServed
PROPERTIES
    ImplementsContract
    ReaderAnswered
CHECK_DEADLOCK FALSE
