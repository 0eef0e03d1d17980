SPECIFICATION FairSpec
CONSTANTS
  Child = p0
  Descendants = {p1}
  PipeSize = 1
  MaxChunks = 3
INVARIANTS TypeOK FindingFromWholeOutput GroupIsGone
PROPERTIES WriterNotStuck TimeoutReturns ReturnsOncePipesClose
CHECK_DEADLOCK FALSE
