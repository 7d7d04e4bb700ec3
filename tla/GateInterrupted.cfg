SPECIFICATION Spec
CONSTANTS
    Requests = {"a", "b", "c"}
    Priority <- Urgent
    Capacity = 1
    QueueLimits = {2}
    Timed = {}
    Cancellable = {"b"}
    MaxCancels = 2
    MaxEdits = 0
INVARIANTS SlotsComeBack
