SPECIFICATION FairSpec
CONSTANTS
  Child = p0
  Descendants = {p1}
  PipeSize = 1
  MaxChunks = 2
INVARIANTS CapturedOutputKept
CHECK_DEADLOCK FALSE
