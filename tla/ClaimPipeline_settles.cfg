\* A block probe and a scan of two providers, a queue of one claim, the tip polled from the node as well: every claim the node has settled gets one verdict.
SPECIFICATION FairSpec
CONSTANTS
    Owner <- MCOwner
    Kind <- MCKind
    Task = {"a.block","b.accounts"}
    Honest = {"a.block"}
    Delay = 2
    Margin = 2
    StaleAfter = 1
    MaxSlotLag = 2
    BlockDepth = 1
    Cap = 1
    Endpoint = TRUE
    FirstSlot = 1
    Trail = 1
    Flight = 0
    NodeLag = 0
    ConfirmLag = 1
    PollMayFail = TRUE
    MaxSlot = 3
    MaxTip = 3
    MaxReport = 2
    MaxClaims = 2
PROPERTIES
    ClaimsLeaveOnce
    SettledClaimsLeave
