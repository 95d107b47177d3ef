SPECIFICATION FairSpec
CONSTANTS
    w1 = w1  w2 = w2  h1 = h1
    wide = wide  narrow = narrow  s1 = s1  s2 = s2
    None = None
    Scrapers = {w1, w2}
    Hashes = {h1}
    Attrs = {wide, narrow}
    Items <- ThreeDrafts
    Subs = {s1, s2}
    Accepted <- MCAccepted
    FeedLen = 1
    Bits = 3
    Half = 4
    Near = 1
INVARIANTS TypeOK SessionConsistent MatchSetExact
PROPERTIES ImplementsCatalog FirstScrapeAccepted RunEnds
