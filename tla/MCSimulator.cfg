SPECIFICATION Spec
CONSTANTS
  Users = {1, 2}
  NUM_THREADS = 2
  TOTAL_TRANSFERS = 2
  Funding = 3
  Amounts = {2}
INVARIANTS
  TypeOK
  TalliesMatchPostings
  VerdictExactWhenClean
PROPERTIES
  SimulationEnds
