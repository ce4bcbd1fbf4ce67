SPECIFICATION FairOpsSpec
CONSTANTS
    Proc = {"mcp", "web", "cli"}
    Service = {"mcp", "web"}
    Script <- Scripts
    SeedFiles <- Seeds
    BadSeed = {"s3"}
    MaxCrashes = 1
INVARIANTS
    OpsTypeOK
    LedgerIsTrue
    HalfAppliedIsExplained
    SeedsAreFindable
    SeedsComeInOrder
PROPERTY
    StartsSucceed
