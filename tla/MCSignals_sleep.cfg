CONSTANTS
    Programs = {"critical"}
    MaxSends = 1
    Rounds = 4
SPECIFICATION SigSpec
INVARIANT SleepHarmless
CHECK_DEADLOCK FALSE
