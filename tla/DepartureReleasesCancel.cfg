SPECIFICATION Spec
CONSTANTS
    tower = tower
    otherTower = otherTower
    radar = radar
    aircraft = aircraft
    otherAircraft = otherAircraft
    Requests <- MCRequests
    User = tower
    MaxReleases = 3
    MaxEvents = 3
    MaxTasks = 2
INVARIANTS
    CancelsOnlyOwn
CHECK_DEADLOCK FALSE
