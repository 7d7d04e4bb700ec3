SPECIFICATION FairSpec
CONSTANTS
    Requests = {"a", "b", "c"}
    Priority <- Urgent
    Capacity = 2
    QueueLimits = {0, 2}
    Timed = {"a"}
    Cancellable = {"a"}
    MaxCancels = 1
    MaxEdits = 1
INVARIANTS TypeOK GrantsAccounted CapacityRespected NoSlotLost NoIdleSlot
PROPERTIES ImplementsPool RequestsLeave
