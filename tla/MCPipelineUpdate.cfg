SPECIFICATION Spec
CONSTANTS
    w1 = w1  w2 = w2  h1 = h1
    wide = wide  narrow = narrow  s1 = s1  s2 = s2
    None = None
    Scrapers = {w1}
    Hashes = {h1}
    Attrs = {wide, narrow}
    Items <- OneEdital
    Subs = {s1, s2}
    Accepted <- MCAccepted
    FeedLen = 2
    Bits = 3
    Half = 4
    Near = 1
INVARIANTS UpdateRenotified
