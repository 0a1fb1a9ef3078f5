CONSTANTS
    Throttles = {quota}
    PinOnly = {}
    app = app
    Apps <- OneApp
    ModeNames = {"off", "minimal", "pause", "custom"}
    MinimalThrottle = quota
    DefaultExcludes = {}
    Missing = Missing
    Unparsable = Unparsable
    NoState = NoState
    FirstConfigs <- SmallConfigs
    NewNames = {"custom"}
    NewPreset = quota
    MaxEdits = 3
    MaxClicks = 1
    MaxTimeouts = 0
    MaxFailures = 0
    MaxStops = 0
    MaxFaults = 0
SPECIFICATION Spec
PROPERTY KillSwitchSticky
