CONSTANTS
    Messages = {"single", "three", "six", "long"}
    Length <- MCLength
    ISOTP_MAX_PAYLOAD = 4095
    OutCap = 41
    SN_MOD = 2
    Budgets <- MCBudgets
SPECIFICATION FairSpec
INVARIANT TypeOK Integrity
PROPERTY EveryMessageArrives FcDeadlineSeenOnTraffic
CHECK_DEADLOCK FALSE
