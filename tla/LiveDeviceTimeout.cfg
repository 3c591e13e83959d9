\* Does a blocking capture with polling end when its time is up?
SPECIFICATION Spec
PROPERTY
    TimeoutKept
CHECK_DEADLOCK FALSE
