\* An endpoint that fails and answers late but accepts a post again and again; the loop may be stopped, and then stays so.
\* Two processes over one table, one of them replaced, over more days than are kept.
SPECIFICATION AllSpec
CONSTANTS
    ChannelCap = 2
    FlushRows = 2
    MaxBuffered = 3
    Refused = {}
    MaxSamples = 5
    Procs = {p1, p2}
    Samples = {s1, s2}
    Retention = 1
    MaxRange = 1
    Limit = 1
    MaxDay = 2
    MaxStops = 1
CHECK_DEADLOCK FALSE
INVARIANTS
    MemoryBounded
    NoOvertaking
PROPERTIES
    ImplementsQueue
    SamplesSettle
    AnswersComplete
    StoreCatchesUp
