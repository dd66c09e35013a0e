SPECIFICATION Spec
CONSTANTS
  r1 = r1
  r2 = r2
  r3 = r3
  Requests = {r1, r2, r3}
  Sessions = {r1, r2, r3}
  Keys = {"k1", "k2"}
  NoKey = "none"
  Users = {"ann", "bob"}
  MaxBalance = 6
  NoTxn = NoTxn
  Wallets <- MCWallets
  WalletIds <- MCWalletIds
  Opening <- MCOpening
  Currency <- MCCurrency
  Owner <- MCOwner
  Payloads <- MCPayloads
SYMMETRY RequestSymmetry
INVARIANTS
  TypeOK
  NonNegative
  LedgerMatchesTxns
  AnswersMatchStore
  FreshPostingsChain
  NoWaitCycle
