SPECIFICATION Spec
CONSTANTS
    c1 = c1  c2 = c2
    None = None
    Callers = {c1, c2}
    Skew <- OneFast
    MaxSkew = 1
    Rate = 2
    Cost = 3
    Capacity = 6
    Expiry = 3
    MaxTime = 4
CHECK_DEADLOCK FALSE
INVARIANTS TypeOK BucketBound WaitSuffices
