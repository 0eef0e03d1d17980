\* Two processes with any two manifests of up to two targets; JOB_TIMEOUT_SECONDS
\* below i32::MAX, above it, and above i64::MAX; budgets that are refused, kept,
\* and wrapped below and above zero.
SPECIFICATION Spec
CONSTANTS
    Processes = {p1, p2}
    Campaigns = {c1}
    Ids = {counter, escrow}
    Blank = Blank
    None = None
    MaxRows = 2
    MaxI32 = 7
    MaxI64 = 31
    Timeouts = {4, 17, 40}
    Budgets = {0, 4, 8, 17}
INVARIANTS
    TypeOK
    NoForeignKeyError
    NoMixedManifests
    DeadlockOnlyByOrder
    BudgetAsRequested
    UnknownOnlyAcrossManifests
    NobodyWaitsInVain
PROPERTIES
    SyncEnds
CHECK_DEADLOCK FALSE
