SPECIFICATION FairSpec
CONSTANTS
    Restarters = {"systemd", "transient", "direct"}
    Behaviours = {"good", "crashes", "hangs"}
    Versions = {1, 2}
    AdminBase = 2
    MAX_ATTEMPTS = 3
    Faults = {"io", "power", "damage", "slow"}
    MaxFaults = 3
    MaxUpgrades = 2
    None = None
INVARIANTS
    PointerIsTrue
    RejectedIsDeserved
PROPERTY DeviceReturns
CHECK_DEADLOCK FALSE
