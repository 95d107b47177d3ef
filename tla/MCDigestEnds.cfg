SPECIFICATION FairSpec
CONSTANTS
    d1 = d1  d2 = d2  s1 = s1  s2 = s2  m1 = m1  m2 = m2  m3 = m3
    Dispatchers = {d1, d2}
    Matches = {m1, m3}
    Subs = {s1, s2}
    Owner <- MCOwner
    Score <- MCScore
    Channels = {"email"}
    OnlyOnMatch = TRUE
    Window = 1
    MaxTime = 0
PROPERTIES RunEnds
