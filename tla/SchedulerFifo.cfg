SPECIFICATION FifoSpec
CONSTANTS
    Streams = {"a", "b", "c"}
    IdOf <- ThreeIds
    SessionOf <- ThreeSessions
    Priority <- ThreePriorities
    Batchable = {"a", "b", "c"}
    Capacity = 1
    Weights = {1}
    UsageBytes = 1
    TerminalBytes = 1
    TerminalReserve = 1
    MaxQuanta = 1
    EventLimit = 4
    ByteLimit = 5
    Deadlined = {}
    Faults = {}
    Calls <- SubmitCalls
    Alternatives = {}
PROPERTIES FifoAdmission
