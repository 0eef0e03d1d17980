SPECIFICATION FairSpec
CONSTANTS
  Campaigns = {c1}
  Workers = {w1}
  Watchers = {s1}
  Remote = {s2}
  Capacity = 2
  None = None
INVARIANTS TypeOK OutcomeNotMissed AnnouncedIsPersisted FindingsAnnounced ProgressIsNotOver ChannelWhileWorkedOn
PROPERTIES StreamsEnd DrainEnds
