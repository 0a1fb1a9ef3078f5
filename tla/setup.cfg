CONSTANTS
    Machines <- ThreeMachines
    MaxClicks = 4
    MaxPackages = 2
SPECIFICATION Spec
INVARIANTS TypeOK
PROPERTIES SuccessIsTrue PackageNotShadowed RemoveLeavesNoDaemon
