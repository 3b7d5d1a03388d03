CONSTANTS
    Programs <- AllPrograms
    MaxSends = 3
    Rounds = 4
    Threads = {t1, t2, t3}
    Nobody = Nobody
    Refs = {r1, r2, r3}
    Variants = {"mutex1", "mutex2", "mutex3"}
    Jobs = {j1, j2, j3, j4}
    NULL = NULL
    Workers = {w1, w2}
    Msgs = {m1, m2, m3}
    NoMsg = NoMsg
    Times = {0, 1, 2, 3, 4, 5, 6, 7, 8}
    SECTONSEC = 3
    MaxSignals = 3
    Openers = {o1, o2, o3}
    NoOpener = NoOpener
    Starts = {s1, s2, s3}
    MaxDeaths = 1
    NoHolder = NoHolder
    Commands = {c1, c2, c3}
    PipeFds = {3, 4}
    NoCommand = NoCommand
    MaxTyped = 2
    MaxShown = 2
SPECIFICATION SmallSpec
INVARIANTS
    NoVainSleep
    CallsLeaveNoTrace
    TurnsKept
    CountsAreRefs
    JobsKept
    HandedOver
    OpensHarmless
    OneDaemon
PROPERTIES
    MeantDeaths
    ProgramsTerminate
    ThreadsEnd
CHECK_DEADLOCK FALSE
