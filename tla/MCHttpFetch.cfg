SPECIFICATION FairSpec
CONSTANTS
    f1 = f1  f2 = f2
    None = None
    Fetchers = {f1, f2}
    RespectRobots = TRUE
    MaxRetries = 2
    FailureWindow = 1
    Threshold = 2
    Cooldown = 2
    RobotsTtl = 2
    MaxTime = 4
INVARIANTS TypeOK ClosedMeansQuiet
PROPERTIES OpensOnBurst CooldownHonoured RobotsObeyed FetchEnds
