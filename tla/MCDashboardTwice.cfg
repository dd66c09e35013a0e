SPECIFICATION Spec
CONSTANTS
  Users = {"ann", "bob"}
  NoUser = "nobody"
  NoWallet = 0
  MaxCalls = 2
  MaxForms = 2
  MaxPostings = 2
  Wallets <- MCWallets
  Owner <- MCOwner
  Existing <- MCExisting
INVARIANTS
  OneFormOnePosting
