\* A slot ahead of the chain raises the tip honest answers are gated against.
SPECIFICATION Spec
CONSTANTS
    Owner <- MCOwner
    Kind <- MCKind
    Task = {"a.slot","b.slot"}
    Honest = {"a.slot"}
    Delay = 2
    Margin = 2
    StaleAfter = 1
    MaxSlotLag = 2
    BlockDepth = 1
    Cap = 2
    Endpoint = TRUE
    FirstSlot = 1
    Trail = 1
    Flight = 1
    NodeLag = 1
    ConfirmLag = 1
    PollMayFail = TRUE
    MaxSlot = 4
    MaxTip = 5
    MaxReport = 6
    MaxClaims = 2
INVARIANTS
    HonestNeverStale
