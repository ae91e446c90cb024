\* What the process sends is what its configuration promises, and all of it happens.  It may stop.
SPECIFICATION FairSpec
CONSTANTS
    Configs <- Every
    Name = {"a", "b"}
    Region <- Regions
    GeoFor <- Geos
    Target = {"t", "derived_token_by_mint"}
CHECK_DEADLOCK FALSE
INVARIANTS
    TypeOK
    OnlyPromised
PROPERTIES
    PromisedHappens
