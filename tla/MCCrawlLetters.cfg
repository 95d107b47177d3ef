SPECIFICATION BrowserSpec
CONSTANTS
    u1 = u1  u2 = u2  u3 = u3  u4 = u4  u5 = u5
    Urls = {u1, u2}
    Rendered = {}
    Feeds <- OneUrlEach
    Concurrency = 2
    PoolSize = 2
    NoOne = NoOne
CHECK_DEADLOCK FALSE
INVARIANTS FailedUrlHasDeadLetter
