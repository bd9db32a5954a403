SPECIFICATION WorkerFairSpec
CONSTANTS
    WorkerKinds = {"operation"}
    RollSize = 0
    MaxTasks = 2
    MaxSeconds = 0
PROPERTIES OperationsRun
CHECK_DEADLOCK FALSE
