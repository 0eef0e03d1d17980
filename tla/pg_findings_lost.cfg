SPECIFICATION FaultFreeSpec
CONSTANTS
    Campaigns = {c1}
    Workers = {w1}
    Clients = {k1}
    MaxFindings = 1
    None = None
PROPERTY FinishPersistsFindings
