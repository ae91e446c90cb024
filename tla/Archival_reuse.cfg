\* Many rounds over few slots: the used set fills up and forgets.
SPECIFICATION FairSpec
CONSTANTS
    h1 = h1
    h2 = h2
    Provider = {h1, h2}
    Honest = {h1, h2}
    Skipped = {}
    VotesOnly = {1}
    Floor = 1
    MinDepth = 1
    Quorum = 2
    UsedCap = 2
    AnchorMin = 1
    MaxTip = 4
    MaxRounds = 5
INVARIANTS
    RepeatOnlyAfterCap
    
PROPERTIES
    RoundEnds
