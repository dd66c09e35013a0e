SPECIFICATION OfficeSpec
CONSTANTS
  Keys = {1, 2, 3, 4}
  MaxBalance = 1
  MaxDrifts = 1
  PageSize = 1
  Searches = {"", "DEPOSIT"}
  MaxCalls = 2
  MaxPostings <- MCMaxPostings
  Moving <- MCMoving
  NoTxn = NoTxn
  Wallets <- MCWallets
  Opening <- MCOpening
  Currency <- MCCurrency
CONSTRAINT FollowedUntilGarbled
INVARIANTS
  AuditTypeOK
  AdminTypeOK
  VerdictExactWhenQuiet
  SettledTabIsCurrent
  WalkShowsEveryRow
  StatisticsInOrder
PROPERTIES
  AuditConverges
