CONSTANTS
    Throttles = {quota}
    PinOnly = {}
    a = a
    b = b
    s1 = s1
    s2 = s2
    s3 = s3
    Scopes = {s1, s2}
    Failures <- ScopeFails
    Apps <- TwoApps
    ModeNames = {"off", "minimal", "pause"}
    MinimalThrottle = quota
    DefaultExcludes = {}
    Missing = Missing
    Unparsable = Unparsable
    Windows = {w1, w2}
    NoWindow = NoWindow
    NoApp = NoApp
    Reach <- SharedReach
    Inputs <- OneInput
    Edits <- NoEdits
    SaveMayFail = FALSE
SPECIFICATION Spec
INVARIANTS KillSwitchClears
