SPECIFICATION Spec
CONSTANTS
    Runner = run
    Closers = {cli}
    MaxEntries = 1
    MaxBars = 2
    MaxCloseouts = 2
    MaxTime = 5
INVARIANT OrdersSurviveRecovery
INVARIANT CheckpointVerifies
CHECK_DEADLOCK FALSE
