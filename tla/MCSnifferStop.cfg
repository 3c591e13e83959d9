\* Does a stop always end the session?
SPECIFICATION Spec
CONSTANTS
    MaxSize = 2
    PipeCapacity = 1
    MaxItems = 4
PROPERTY
    StopCompletes
CHECK_DEADLOCK FALSE
