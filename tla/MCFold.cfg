SPECIFICATION Spec
CONSTANTS
  s1 = s1
  s2 = s2
  Sellers = {s1, s2}
  Rounds = {1, 2}
  Rails = {"x402", "escrow"}
  None = None
  Notes <- MC_Notes
  Lives = 2
  MaxSaid <- MC_MaxSaid
  MIN_DELIVERIES_FOR_TRUST = 1
  Prices = {200, 400, 600}
  Budgets = {200, 400}
  Scores = {0, 39, 40, 50}
  Claims = {0, 49, 50, 100}
  PartsPerUnit = 10
  Amounts = {10, 20, 21, 29}
  Payers = {"buyer", "seller"}
  Payees = {"seller", "other"}
  Mints = {"usdc"}
  References = {"ref1", "ref2"}
SYMMETRY Symmetry
INVARIANTS FoldIsRight ReplayIsLive LegsAreToldApart AwardsAreSound TrustIsEarned PaymentsAreBound
PROPERTIES HistoryOnlyGrows
CHECK_DEADLOCK FALSE
