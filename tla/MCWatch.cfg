SPECIFICATION WatchSpec
CONSTANTS
  NA = NA
  Unknown = Unknown
  Ids = {"f1", "f2"}
  Fixtures <- MCFixtures
  Offers <- MCOffers
  Callers = {c1, c2}
  Fresh = 1
  Keep = 2
  MaxQueue = 2
  MovePct = 5
  Results <- MCResults
SYMMETRY Symmetric
INVARIANTS
  QueueKeepsNewest
  
PROPERTIES
  BoardSurvivesOutages
  MovesAreBacked
