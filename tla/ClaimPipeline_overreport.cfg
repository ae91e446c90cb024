\* One provider stamps slots ahead of the chain.
SPECIFICATION Spec
CONSTANTS
    Owner <- MCOwner
    Kind <- MCKind
    Task = {"a.tx","b.slot"}
    Honest = {"a.tx"}
    Delay = 2
    Margin = 2
    StaleAfter = 1
    MaxSlotLag = 2
    BlockDepth = 1
    Cap = 2
    Endpoint = FALSE
    FirstSlot = 1
    Trail = 0
    Flight = 1
    NodeLag = 1
    ConfirmLag = 1
    PollMayFail = FALSE
    MaxSlot = 3
    MaxTip = 3
    MaxReport = 4
    MaxClaims = 2
INVARIANTS
    JudgedIsSettled
    
