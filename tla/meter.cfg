CONSTANTS
    NoReading = NoReading
    Readings <- FourReadings
    Dts = {2, 3}
    BucketS = 3
    SuspendGap = 2
    SaveEvery = 2
    MaxSamples = 2
    SaveOutcomes = {TRUE, FALSE}
    CounterMax = 4
    CapW = 1
    MaxStarts = 2
    MaxClock = 9
SPECIFICATION Spec
INVARIANTS TypeOK NothingCountedTwice CrashLosesLittle TimelineInOrder AverageIsPlausible WrapIsExact
CHECK_DEADLOCK FALSE
