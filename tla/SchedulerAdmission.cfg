SPECIFICATION Spec
CONSTANTS
    Streams = {"a", "b", "c"}
    IdOf <- ThreeIds
    SessionOf <- PairSession
    Priority <- Urgent
    Batchable = {"a", "b"}
    Capacity = 2
    Weights = {3}
    UsageBytes = 1
    TerminalBytes = 1
    TerminalReserve = 1
    MaxQuanta = 1
    EventLimit = 4
    ByteLimit = 5
    Deadlined = {}
    Faults = {"backend", "control"}
    Calls <- AdmissionCalls
    Alternatives = {}
INVARIANTS IInv RunsAlone RunningDistinct
PROPERTIES PriorityRespected
