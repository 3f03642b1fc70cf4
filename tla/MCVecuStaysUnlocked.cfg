CONSTANTS
    SECURITY_MAX_FAILS = 2
    SECURITY_LOCK_DURATION_MS = 2
    SECURITY_KEY_CONSTANT = 3
    FALLBACK_SEED = 1
    Entropy = {0}
    XorU32 <- MCXorU32
    OWNER_NAME_CAP = 32
    OwnerNames = {"ALICE"}
    Requests <- SessionRequests
    RESP_CAP = 16
    S3_TIMEOUT_MS = 1
    U64 = 64
    MaxTime = 5
    TesterLeaves = 2
SPECIFICATION FairSpec
PROPERTY TesterGoneMeansLocked
CHECK_DEADLOCK FALSE
