SPECIFICATION LoopSpec
CONSTANTS
    Streams = {"a"}
    IdOf <- OneId
    SessionOf <- OneSession
    Priority <- OnePriority
    Batchable = {}
    Capacity = 1
    Weights = {1, 3, 5}
    UsageBytes = 1
    TerminalBytes = 1
    TerminalReserve = 1
    MaxQuanta = 2
    EventLimit = 4
    ByteLimit = 5
    Deadlined = {"a"}
    Faults = {"request", "backend", "device", "step", "step_backend", "admit", "admit_unknown"}
    Calls <- FlowCalls
    Alternatives = {}
INVARIANTS TypeOK OutboxBounded NothingLost CancelSticks
PROPERTIES CancelOwnsEnd ShutdownCompletes CallsAnswered
