SPECIFICATION Spec
CONSTANTS
    Requests = {"a", "b", "c"}
    Priority <- Urgent
    Capacity = 2
    QueueLimits = {1}
    Timed = {}
    Cancellable = {"b"}
    MaxCancels = 1
    MaxEdits = 0
INVARIANTS ReleaseMatched
