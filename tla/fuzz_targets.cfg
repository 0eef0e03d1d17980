SPECIFICATION Spec
CONSTANTS
  Addresses = {a0, a1, a2}
  CommandsPerRun = 7
  CounterAdmin = a0
  MaxI64 = 3
  Depositor = a0
  DeadlineOffset = 3
  MaxTime = 6
  Advances = {0, 1, 5}
  TokenAdmin = a0
  InitialHolder = a1
  InitialSupply = 2
  MaxI128 = 4
INVARIANTS TypeOK CounterNeverReported EscrowNeverReported OneWayOut DriftIsSelfTransfer OnlySelfTransferIsReported ModelSupplyIsConserved
PROPERTIES SettledOnce
CHECK_DEADLOCK FALSE
