SPECIFICATION TokenSpec
CONSTANTS
  Addresses = {a0, a1}
  CommandsPerRun = 3
  TokenAdmin = a0
  InitialHolder = a1
  InitialSupply = 2
  MaxI128 = 4
INVARIANTS TokenStaysConsistent
CHECK_DEADLOCK FALSE
