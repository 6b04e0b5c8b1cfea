SPECIFICATION Spec
CONSTANTS
    Creator = {c1}
    Job = {j1, j2}
    Asset = {a1, a2}
    PlaybackId = {b1, b2}
    Incident = {i1}
    StandardProfile = hd
    FullHdProfile = fhd
    DAY = 1
    JOB_TTL = 2
    BETA_UPLOAD = 2
    BETA_TOTAL = 2
    BETA_MAX_JOBS = 1
    DAILY_LIMIT = 1
    START_RUNWAY = 1
    EMERGENCY_RUNWAY = 1
    MaxGeneration = 2
    MaxNow = 1
    MaxKeyExpiry = 3
    MaxRunway = 1
SYMMETRY Symmetry
INVARIANTS PublicationMatchesJob OneUploadUnderWay PublicationRules
