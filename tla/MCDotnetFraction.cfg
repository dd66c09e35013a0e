SPECIFICATION Spec
CONSTANTS
  r1 = r1
  r2 = r2
  Requests = {r1, r2}
  Sessions = {r1, r2}
  Keys = {"k1", "k2"}
  NoKey = "none"
  Users = {"ann", "bob"}
  MaxBalance = 6
  NoTxn = NoTxn
  Wallets <- MCWallets
  WalletIds <- MCWalletIds
  Opening <- MCOpening
  Currency <- MCCurrency
  Owner <- MCOwner
  Payloads <- MCFraction
SYMMETRY RequestSymmetry
INVARIANTS
  Reconciled
