SPECIFICATION LoopSpec
CONSTANTS
    Streams = {"a"}
    IdOf <- OneId
    SessionOf <- OneSession
    Priority <- OnePriority
    Batchable = {}
    Capacity = 1
    Weights = {3}
    UsageBytes = 1
    TerminalBytes = 1
    TerminalReserve = 1
    MaxQuanta = 2
    EventLimit = 4
    ByteLimit = 5
    Deadlined = {}
    Faults = {}
    Calls <- CancelCalls
    Alternatives = {}
PROPERTY CancelCompletes
