CONSTANTS
    SECURITY_MAX_FAILS = 3
    SECURITY_LOCK_DURATION_MS = 3
    SECURITY_KEY_CONSTANT = 3
    FALLBACK_SEED = 2
    Entropy = {0, 1}
    XorU32 <- MCXorU32
    Levels = {0, 1, 3, 255}
    Keys = {0, 1, 2}
    MaxTime = 7
SPECIFICATION GSpec
INVARIANT TypeOK SecurityConsistent RateLimited
PROPERTY LockOutHolds ImplementsProtocol
