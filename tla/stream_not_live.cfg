SPECIFICATION FairSpec
CONSTANTS
  Campaigns = {c1}
  Workers = {w1}
  Watchers = {s1}
  Remote = {}
  Capacity = 2
  None = None
INVARIANTS NoChannelMeansNotLive
CHECK_DEADLOCK FALSE
