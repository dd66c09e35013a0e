SPECIFICATION BrowserSpec
CONSTANTS
  Users = {"ann", "bob"}
  NoUser = "nobody"
  NoWallet = 0
  MaxCalls = 2
  MaxForms = 2
  MaxPostings = 1
  Contacts = {"eve@x", "steve@x"}
  Texts = {"", "ev", "eve", "eve@x", "steve@x"}
  Short = {"", "ev"}
  Currencies = {"NGN", "USD"}
  NoId = NoId
  MaxLookups = 2
  MaxTransfers = 1
  Wallets <- MCWallets
  Owner <- MCOwner
  Existing <- MCExisting
  Finds <- MCFinds
  Holds <- MCHolds
CONSTRAINT Followed
INVARIANTS
  BrowserTypeOK
  SettledViewIsCurrent
  PostsWhatItShows
