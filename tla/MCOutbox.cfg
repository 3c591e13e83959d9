\* The outbox with two replicas, two rows, batches of one or both, and any two
\* faults, among them the death of a replica with a reserved batch.  Replicas are
\* symmetric, but a symmetry set is unsound for liveness and not used.
SPECIFICATION Spec
CONSTANTS
    Workers = {w1, w2}
    NoWorker = NoWorker
    MaxRows = 2
    BatchSize = 2
    MaxFaults = 2
INVARIANTS
    BatchesOwned
    ReservationNeverVisible
    NothingOrphaned
    DuplicatesNeedFaults
PROPERTIES
    ImplementsContract
    StoredEventuallyPublished
CHECK_DEADLOCK FALSE
