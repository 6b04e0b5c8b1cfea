SPECIFICATION UploadsSpec
CONSTANTS
    Scenarios <- MCScenarios
    Handlers = {1, 2}
    LeaseTerm = 1  TusLife = 2  Deadline = 2  StuckTimeout = 0
    MaxClock = 2  MaxLeases = 2
    Confirmation = 1  MaxReconcileFaults = 1
INVARIANT UploadsSafe
PROPERTIES JobEnds SuspensionConfirmed DriftSuspends
CHECK_DEADLOCK FALSE
