\* Honest providers on two threads and a node that keeps up.
SPECIFICATION Spec
CONSTANTS
    Owner <- MCOwner
    Kind <- MCKind
    Task = {"a.tx","b.slot"}
    Honest = {"a.tx","b.slot"}
    Delay = 2
    Margin = 2
    StaleAfter = 1
    MaxSlotLag = 2
    BlockDepth = 1
    Cap = 2
    Endpoint = FALSE
    FirstSlot = 1
    Trail = 1
    Flight = 1
    NodeLag = 1
    ConfirmLag = 1
    PollMayFail = TRUE
    MaxSlot = 4
    MaxTip = 5
    MaxReport = 4
    MaxClaims = 2
INVARIANTS
    HonestNeverImplausible
    HonestNeverStale
    NodeStaleIsTrue
