\* One holder's requests and forgeries race for a small window and one permit; a clock finer than seconds.
\* Queries over a scaled-down calendar: 12 seconds are kept, steps of 2 seconds and more.
\* Replies with ties, gaps and values that are no numbers, of queries that may fail.
SPECIFICATION AllSpec
CONSTANTS
    Requests = {r1, r2}
    Subs = {s1}
    Second = 2
    Window = 2
    Limit = 2
    Permits = 1
    MaxQueries = 2
    Expiry = 5
    MaxTime = 6
    Keys = {"infra", "region"}
    Quantiles = {"p50", "p99"}
    DefaultQuantiles <- TwoQuantiles
    MaxPoints = 5
    MaxRange = 12
    MinStep = 2
    DefaultRange = 6
    TargetPoints = 3
    DefaultLimit = 1
    MaxLimit = 2
    Times <- SomeTimes
    Steps = {0, 1, 2, 3, 13}
    Limits = {0, 1, 2, 3}
    QuantileLists <- SomeLists
    MaxGiven = 3
    Providers = {"a", "b"}
    Instants <- SomeInstants
    Readings = {1, 2}
    Asked = {"latency", "win_rate"}
    AskedQuantiles <- TwoQuantiles
INVARIANTS
    LimitsHold
    QueryFits
    AnswersMeant
PROPERTIES
    RefusalEarned
    RetryHonoured
    SeriesAnswered
