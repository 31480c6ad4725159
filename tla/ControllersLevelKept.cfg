SPECIFICATION ControllersSpec
CONSTANTS
    twr = twr
    app = app
    ctr = ctr
    EGLL = EGLL
    EGKK = EGKK
    r1 = r1
    r2 = r2
    Callsigns = {1, 2}
    Positions <- mcPositions
    NoCallsign = 0
    NoPosition = NoPosition
    Airfields = {EGLL, EGKK}
    TopDownOrder <- mcTopDownOrder
    TopDown <- mcTopDown
    TypeOf <- mcTypeOf
    Flightplans = {f1}
    Routes = {r1, r2}
    Origin <- mcOrigin
    SidLevel <- mcSidLevel
    LowCruise = {}
    NoLevel = 0
    OtherLevel = 99
    SidOrder <- mcSidOrder
    AirfieldOrder <- mcAirfieldOrder
    Unicom = Unicom
    NoRoute = NoRoute
    Unset = Unset
    Unmatched = Unmatched
    Automatic = TRUE
    Kinds = {"direct"}
    Typed = {0}
PROPERTY
    LevelKeptForNextController
CHECK_DEADLOCK FALSE
