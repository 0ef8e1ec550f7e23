CONSTANTS
    W = 64
    TICK_INTERVAL_MS = 10
    BootTimes = {0, 3, 12}
    ShortPasses = {0, 1, 7}
    Blocked = {25}
    MaxLag = 31
SPECIFICATION Spec
INVARIANTS OnSchedule
PROPERTIES CatchesUp
