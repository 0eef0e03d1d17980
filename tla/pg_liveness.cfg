SPECIFICATION FaultFreeSpec
CONSTANTS
    Campaigns = {c1, c2}
    Workers = {w1, w2}
    Clients = {k1}
    MaxFindings = 1
    None = None
PROPERTY EveryCampaignEnds
