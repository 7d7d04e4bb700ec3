SPECIFICATION SnapshotSpec
CONSTANTS
    Streams = {"a", "b"}
    IdOf <- ReusedId
    SessionOf <- NoSessions
    Priority <- SamePriority
    Batchable = {"a"}
    Capacity = 2
    Weights = {1}
    UsageBytes = 1
    TerminalBytes = 1
    TerminalReserve = 1
    MaxQuanta = 1
    EventLimit = 4
    ByteLimit = 5
    Deadlined = {}
    Faults = {"control", "control_backend"}
    Calls <- ControlCalls
    Alternatives = {}
INVARIANTS EndsOnce DuplexExclusive OrderMatchesRequests NoCallerAbandoned SnapshotSettled
