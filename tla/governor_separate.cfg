CONSTANTS
    Throttles = {quota}
    PinOnly = {}
    a = a
    b = b
    s1 = s1
    s2 = s2
    s3 = s3
    Scopes = {s1, s2, s3}
    Failures <- AllSucceed
    Apps <- TwoApps
    ModeNames = {"off", "minimal", "pause"}
    MinimalThrottle = quota
    DefaultExcludes = {}
    Missing = Missing
    Unparsable = Unparsable
    Windows = {w1, w2}
    NoWindow = NoWindow
    NoApp = NoApp
    Reach <- SeparateReach
    Inputs <- OneInput
    Edits <- NoEdits
    SaveMayFail = FALSE
SPECIFICATION GraceFairSpec
INVARIANTS
    TypeOK
    RestrictedForAReason
    DeadlineForAReason
    OneProfilePerApp
    NoAppForgotten
    ConfigDurable
    ExactlyInForce
    GraceAfterFocusLoss
PROPERTIES EventuallyRestricted
