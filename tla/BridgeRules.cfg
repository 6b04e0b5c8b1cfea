SPECIFICATION RulesSpec
CONSTANTS
    Audiences <- MCAudiences
    TTL = 1  CertCache = 1  PubCache = 1  GoodCache = 2  BadCache = 1
    Latency = 1  NonceLife = 2  MaxPlayTime = 4
    SourceSizes = {4, 7, 10}  Rates = {2, 3}
    Numerator = 3  Denominator = 4  MinFee = 4  SponsorFee = 1  Yocto = 7
    SourceAge = 1  Lifetime = 2  BlockWindow = 2  MaxLag = 1
    RateWindow = 2  RateLimit = 1  MaxWall = 4
    Sites <- MCSites
    Uploads = {1, 2}  Creators = {1, 2}
    LeaseTTL = 2  AmbiguousTimeout = 1  FailureWindow = 1
    DayTicks = 2  MonthTicks = 4  StreamTicks = 3
    FailureLimit = 2  DailyAttempts = 1  MonthlyBudget = 2  StreamBudget = 1
    MaxTime = 4  MaxGrants = 2  MaxClosures = 2
    Buyers = {1, 2}  Tools = {1, 2}
    WindowEnds = 1  SignatureLife = 1
    MaxRows = 2  MaxDay = 1  MaxBounces = 1
    Tabs = {1, 2}  Files = {1, 2}  SizeOf <- MCSize
    MaxJobs = 2  MaxKeys = 2  MaxClicks = 6
    Pages = {1, 2}  MaxQuotes = 2  MaxSteps = 5  QuoteLimit = 2
    Screens = {1, 2}  Browsers <- MCBrowsers  MaxKeysMade = 2
INVARIANTS TokensFollowRights FeesHonoured AdmissionBounded  
CHECK_DEADLOCK FALSE
