SPECIFICATION Spec
CONSTANTS
  r1 = r1
  r2 = r2
  r3 = r3
  r4 = r4
  Requests = {r1, r2, r3, r4}
  Names <- MCNames
  TooLong <- MCTooLong
  Emails <- MCEmails
  Normalize <- MCNormalize
  Currencies <- MCCurrencies
  Upper <- MCUpper
  Wanted <- MCWanted
SYMMETRY RequestSymmetry
INVARIANTS
  TypeOK
  OneCreatorPerRow
  RefusedForCause
PROPERTIES
  LoginSeesRegistration
