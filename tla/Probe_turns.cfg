\* An honest provider asked about what a dishonest one answered, targets derived
\* from an anchor, one permit.
\* What is asked, derived and checked reads accounts the same way: one request.
SPECIFICATION AllSpec
CONSTANTS
    a1 = a1
    Task = {"a", "b"}
    Checks <- MCChecks
    Curated <- MCCurated
    Anchors = {a1}
    MinAccounts = 2
    MaxAccounts = 2
    Permits = 1
    MaxClosed = 1
    Sizes <- MCSizes
    MaxPool = 3
    Turns = 6
    Pubkey = {1, 2, 3, 4}
    Account <- Accounts
    KeyLen = 2
    TokenLen = 6
    MintOffset = 0
    OwnerOffset = 2
    BusyMint <- Busy
    BuiltinOwner <- K1
    Configured <- GpaTargets
    MaxMoved = 1
INVARIANTS
    TypeOK
    
    
    ReadAlike
PROPERTIES
    TargetsTakeTurns
    CallsEnd
