SPECIFICATION BrowserFairSpec
CONSTANTS
    u1 = u1  u2 = u2  u3 = u3  u4 = u4  u5 = u5
    Urls = {u1, u2, u3, u4, u5}
    Rendered = {u1, u2, u4}
    Feeds <- TwoSpiders
    Concurrency = 3
    PoolSize = 2
    NoOne = NoOne
CHECK_DEADLOCK FALSE
INVARIANTS TypeOK SlotsConserved ReturnedIsComplete OrphansOnlyAfterFailure FailedSpiderIsReported OneBrowser LeftoverHasCause
PROPERTIES CrawlEnds
