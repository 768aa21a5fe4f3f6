SPECIFICATION FairSpec
CONSTANTS
  Runs = {r1, r2}
  Models <- MCModels
  Expected <- TableExpected
  Answer <- TableAnswer
  Stores <- MCStores
  Names <- MCNames
  None = None
INVARIANTS TypeOK VerdictRight PassMeansCanonical CleanedUp
PROPERTIES EveryRunEnds
