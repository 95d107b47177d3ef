SPECIFICATION FairGateSpec
CONSTANTS
    p1 = p1  p2 = p2  c1 = c1  c2 = c2  c3 = c3  f1 = f1  old = old  new = new
    None = None
    Procs = {p1, p2}
    Codes = {c1, c2, c3}
    Others = {f1}
    Kept = {f1}
    Cats = {old, new}
    SeedFiles <- MCSeedFiles
    SeedBatches <- MCSeedBatches
    RowOrder <- MCRowOrder
INVARIANTS GateTypeOK RefreshAllOrNothing EmptyCrawlHasCause EligibleWasListed
PROPERTIES RefreshSticks JobsEnd
