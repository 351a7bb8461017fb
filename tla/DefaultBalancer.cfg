SPECIFICATION Spec
CONSTANTS
    IMax = 1000
    UMax = 2000
    Configurations <- MCConfigurations
    Reported = {1, 2, 3, 4}
    MaxPicks = 9
INVARIANTS TypeOK CountsExact ServesWhileHealthy SpillsWhenShort NeverAPickOff
