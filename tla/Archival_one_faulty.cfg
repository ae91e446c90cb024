\* Three providers, one of them answering anything, and a skipped slot.
SPECIFICATION Spec
CONSTANTS
    h1 = h1
    h2 = h2
    f = f
    Provider = {h1, h2, f}
    Honest = {h1, h2}
    Skipped = {2}
    VotesOnly = {}
    Floor = 1
    MinDepth = 1
    Quorum = 2
    UsedCap = 2
    AnchorMin = 1
    MaxTip = 3
    MaxRounds = 1
SYMMETRY HonestSymmetry
INVARIANTS
    HonestBlockNeverMismatch
    AnchorSound
