\* Ticks of two claims: blocks and transactions on every chain of three slots, or accounts that come, go and move.
\* Rounds over a dishonest provider, the excluded one and an honest one, on a chain
\* that is shallower than the depth at first and skips slots.
SPECIFICATION AllSpec
CONSTANTS
    Window = 1
    Tolerance = 1
    CountTTL = 2
    Settling = 1
    Configs = {{"exact", "window", "tx"}, {"accounts"}}
    TopSlot = 2
    MaxLive = 3
    MaxDue = 2
    f = f
    own = own
    h = h
    Endpoint <- MCEndpoint
    Excluded = own
    Honest = {own, h}
    Depth = 2
    Skipped = {2}
    MaxLag = 2
    Top = 5
INVARIANTS
    BlockVerdictsTrue
    HonestCountsTolerated
    VerdictsDeserved
PROPERTIES
    JudgesAsPromised
    AllAreJudged
