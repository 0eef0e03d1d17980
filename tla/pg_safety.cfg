SPECIFICATION Spec
CONSTANTS
    Campaigns = {c1, c2}
    Workers = {w1, w2}
    Clients = {k1, k2}
    MaxFindings = 1
    None = None
SYMMETRY Symmetric
INVARIANTS
    TypeOK
    StatusMirrored
    ClaimedAtMostOnce
    CancelReplyHolds
    FindingsOnlyOfEndedRuns
PROPERTIES
    WorkersKeepOutcomes
    ImplementsAtomicStore
