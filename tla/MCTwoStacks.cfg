SPECIFICATION Spec
CONSTANTS
  d1 = d1
  d2 = d2
  n1 = n1
  n2 = n2
  DjangoRequests = {d1, d2}
  DotnetRequests = {n1, n2}
  Sessions = {d1, d2, n1, n2}
  Keys = {"k1", "k2"}
  NoKey = "none"
  Users = {"ann", "bob"}
  MaxBalance = 6
  NoTxn = NoTxn
  Wallets <- MCWallets
  WalletIds <- MCWallets
  Opening <- MCOpening
  Currency <- MCCurrency
  Owner <- MCOwner
  DjangoPayloads <- MCDjangoPayloads
  DotnetPayloads <- MCDotnetPayloads
SYMMETRY StackSymmetry
INVARIANTS
  NonNegative
  OneStackPosts
  NoCrossStackCycle
  ChainWithoutDotnetTransfers
