SPECIFICATION Spec
CONSTANTS
    Jobs = {"d", "e"}
    Downloads = {"d"}
    MayLack = {"e"}
    Lane <- OneLane
    MaxConcurrency = 1
    Cancellable = {"d"}
    Retriable = {"d"}
    Slow = {"d"}
    MayDrop = {"claim", "complete", "reject", "fail", "cancel", "interrupt", "requeue"}
    MayOutlive = {"claim", "complete", "reject", "fail", "cancel", "interrupt", "requeue"}
    MaxCancels = 1
    MaxRetries = 1
    MaxStops = 0
CHECK_DEADLOCK FALSE
INVARIANT AlwaysAttended
