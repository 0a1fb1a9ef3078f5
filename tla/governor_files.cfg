CONSTANTS
    Throttles = {quota}
    PinOnly = {}
    a = a
    b = b
    s1 = s1
    s2 = s2
    s3 = s3
    Scopes = {s1, s2}
    Failures <- ScopeFails
    Apps <- OneApp
    ModeNames = {"off", "minimal", "pause"}
    MinimalThrottle = quota
    DefaultExcludes = {}
    Missing = Missing
    Unparsable = Unparsable
    Windows = {w1}
    NoWindow = NoWindow
    NoApp = NoApp
    Reach <- LoneReach
    Inputs <- OneInput
    Edits <- SomeEdits
    SaveMayFail = TRUE
SPECIFICATION Spec
INVARIANTS RestrictedForAReason
PROPERTIES ThrottlerSpec
