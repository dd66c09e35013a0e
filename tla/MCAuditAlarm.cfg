SPECIFICATION AuditSpec
CONSTANTS
  Keys = {"k1", "k2"}
  MaxBalance = 2
  MaxDrifts = 0
  NoTxn = NoTxn
  Wallets <- MCWallets
  Opening <- MCOpening
  Currency <- MCCurrency
INVARIANTS
  OnlyRealDiscrepancies
