\* Does captureActive() say yes only while a capture thread runs?
SPECIFICATION SafetySpec
INVARIANT
    ActiveMeansRunning
CHECK_DEADLOCK FALSE
