CONSTANTS
    w1 = w1
    w2 = w2
    Windows = {w1, w2}
    a = a
    b = b
    gui = gui
    Apps = {a, b, gui}
    SelfApp = gui
    NoWindow = NoWindow
    NoApp = NoApp
    FirstApps <- TwoWindows
    MaxActs = 3
    MaxLosses = 1
SPECIFICATION FairSpec
INVARIANTS TypeOK TableFollows OwnerKnown
PROPERTIES CatchesUp
CHECK_DEADLOCK FALSE
