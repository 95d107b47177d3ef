CONSTANTS
    None = None
    Ascii <- MCAscii
    AsciiName <- MCAsciiName
    DayOf <- MCDayOf
    Relevant <- MCRelevant
    Before = 1
    After = 3
    HeadLen = 4
    Limit = 3
    Threshold = 65
    Areas <- MCAreas
    KeywordsOf <- MCKeywordsOf
    OpenToCS <- MCOpenToCS
    Institutions <- MCInstitutions
    Within <- MCWithin
    Subs <- MCSubs
    Profiles <- MCProfiles
    Responses <- MCResponses
    Answers <- MCAnswers
    Whitelists <- MCWhitelists
    MaxFeeds = 2
    PageSize = 1
    MaxWalks = 1
SPECIFICATION Spec
INVARIANTS ReadingTypeOK LossLeavesTrace MatchJustified AnnouncedTwiceHasCause QuietWalkCovers
CHECK_DEADLOCK FALSE
