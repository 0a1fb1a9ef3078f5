CONSTANTS
    Throttles = {quota}
    PinOnly = {}
    app = app
    Apps <- OneApp
    ModeNames = {"off", "minimal", "pause", "custom"}
    MinimalThrottle = quota
    DefaultExcludes = {}
    Missing = Missing
    Unparsable = Unparsable
    NoState = NoState
    FirstConfigs <- SmallConfigs
    NewNames = {"custom"}
    NewPreset = quota
    MaxEdits = 3
    MaxClicks = 1
    MaxTimeouts = 1
    MaxFailures = 1
    MaxStops = 1
    MaxFaults = 2
SPECIFICATION FairSpec
INVARIANTS TypeOK TrayShowsDaemon ActiveModeDefined NoLateRequest RenameKeepsProfiles
PROPERTIES NoEditLost KeepsItsPromise EventuallyAgree
