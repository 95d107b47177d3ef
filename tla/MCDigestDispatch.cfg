SPECIFICATION Spec
CONSTANTS
    d1 = d1  d2 = d2  s1 = s1  s2 = s2  m1 = m1  m2 = m2  m3 = m3
    Dispatchers = {d1, d2}
    Matches = {m1, m2}
    Subs = {s1}
    Owner <- MCOwner
    Score <- MCScore
    Channels = {"email", "telegram"}
    OnlyOnMatch = FALSE
    Window = 0
    MaxTime = 1
INVARIANTS TypeOK RunHonest SingleCarrier NotifiedWasDelivered DuplicateHasCause
SYMMETRY DispatcherSymmetry
