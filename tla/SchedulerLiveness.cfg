SPECIFICATION FairSpec
CONSTANTS
    Streams = {"a", "b"}
    IdOf <- TwoIds
    SessionOf <- NoSessions
    Priority <- SamePriority
    Batchable = {"a", "b"}
    Capacity = 2
    Weights = {1}
    UsageBytes = 1
    TerminalBytes = 1
    TerminalReserve = 1
    MaxQuanta = 1
    EventLimit = 4
    ByteLimit = 5
    Deadlined = {}
    Faults = {"backend", "reload"}
    Calls <- ReloadCalls
    Alternatives <- SecondCalls
INVARIANTS ReloadQuiescent TeardownFirst
PROPERTIES RequestsEnd ReloadAnswered
