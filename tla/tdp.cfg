CONSTANTS
    w1 = w1
    w2 = w2
    Windows = {w1, w2}
    Installer = w1
    Watts = {0, 1, 2}
    Pl1Max = 1
    Pl2Max = 1
    HelperMax = 2
    MaxApplies = 2
    MaxInstalls = 2
    MaxReopens = 1
SPECIFICATION Spec
INVARIANTS TypeOK OkMeansInForce BurstNotBelowSustained TdpInstalledWhole
