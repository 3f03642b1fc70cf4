CONSTANTS
    SECURITY_MAX_FAILS = 2
    SECURITY_LOCK_DURATION_MS = 2
    SECURITY_KEY_CONSTANT = 3
    FALLBACK_SEED = 1
    Entropy = {1, 2}
    XorU32 <- MCXorU32
    OWNER_NAME_CAP = 32
    OwnerNames = {"ALICE", "CAROL"}
    Requests <- ToolRequests
    RESP_CAP = 64
    S3_TIMEOUT_MS = 1
    U64 = 64
    MaxTime = 0
    TesterLeaves = 0
    Terminals = {"window 2", "window 3"}
    Commands <- DemoCommands
    Budgets <- DemoBudgets
SPECIFICATION HSpec
INVARIANT UnlockComesFirst
CHECK_DEADLOCK FALSE
