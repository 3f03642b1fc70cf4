CONSTANTS
    Rpms = {3200, 5555, 8800}
    Speeds = {10, 110}
    COLD = 60
    WARM = 62
    TICKS_PER_DEGREE = 3
    TICK_MOD = 10
SPECIFICATION FairSpec
INVARIANT TypeOK CoolantFollowsTicks DrawsWhatWas
PROPERTY ScreenWarmsOnly WarmsUp
