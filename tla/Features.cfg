SPECIFICATION FeaturesFairSpec
CONSTANTS
    twr = twr
    app = app
    ctr = ctr
    EGLL = EGLL
    EGKK = EGKK
    r1 = r1
    r2 = r2
    n1 = n1
    n2 = n2
    heavy = heavy
    mapper = mapper
    Callsigns = {1, 2}
    Positions <- mcPositions
    NoCallsign = 0
    NoPosition = NoPosition
    Airfields = {EGLL, EGKK}
    TopDownOrder <- mcTopDownOrder
    TopDown <- mcTopDown
    TypeOf <- mcTypeOf
    Flightplans = {f1}
    Routes = {r1, r2}
    Origin <- mcOrigin
    SidLevel <- mcSidLevel
    LowCruise = {}
    NoLevel = 0
    OtherLevel = 99
    SidOrder <- mcSidOrder
    AirfieldOrder <- mcAirfieldOrder
    Unicom = Unicom
    NoRoute = NoRoute
    Unset = Unset
    Unmatched = Unmatched
    Automatic = TRUE
    Kinds = {"direct"}
    Typed = {0}
    MaxEventId = 3
    stands = stands
    releases = releases
    Processors <- mcProcessors
    ByChannel <- mcByChannel
    ByEvent <- mcByEvent
    ByAll = {}
    Malformed = {}
    Uninterpretable = {}
    StandEventHandler = stands
    StandAircraft = {a1}
    StandIds = {s1}
    NoStand = NoStand
    MaxStandTasks = 2
    MaxStandEvents = 3
    HoldAircraft = {a1}
    Navaids = {n1, n2}
    NoHold = NoHold
    NoCheck = NoCheck
    HoldPlaces <- mcHoldPlaces
    HoldAreas = {n1}
    MaxHoldTasks = 2
    MaxHoldEvents = 1
    PrenoteIds = {1, 2}
    Prenotes = {outgoing, incoming}
    SentByUser = {outgoing}
    TargetedToUser = {incoming}
    NoPrenote = NoPrenote
    NoLookup = NoLookup
    MaxPrenoteTasks = 2
    MaxPrenoteEvents = 1
    MissedIds = {1, 2}
    MissedAircraft = {a1}
    NotMissed = NotMissed
    NoAircraft = NoAircraft
    MaxMissedTasks = 2
    MaxMissedEvents = 2
    EnrouteAircraft = {a1}
    EnrouteControllers = {user, other}
    EnrouteUser = user
    ReleaseTypes = {t1}
    ReleasePoints = {p1}
    NoReleasePoint = NoReleasePoint
    NoRelease = NoRelease
    MaxEnrouteSends = 2
    SequencedAircraft = {heavy, a1, a2}
    SequenceAirfields = {EGLL, EGKK}
    NoLink = NoLink
    MinimumSeparation <- mcMinimumSeparation
    WakeSeparation <- mcWakeSeparation
    NoWakeInterval = NoWakeInterval
    WakeMode = WakeMode
    Targets = {5}
    MetarAirfields = {EGLL}
    Pressures = {1013, 1020}
    NoPressure = NoPressure
    NoMetar = NoMetar
    NoItem = NoItem
    MaxMetarEvents = 2
    FlowAircraft = {a1, a2, a3}
    Measures = {m1, m2}
    Sockets = {mapper}
    NoSocket = NoSocket
    Subscriptions <- mcSubscriptions
    MessageKinds = {"initialise", "assignment", "garbage"}
    MaxMessages = 3
    MaxChanges = 1
    MaxNotices = 1
INVARIANTS
    CallsignsAgree
    OwnersFollowCallsigns
    ServicesAsDocumented
    HandoffsToControllersCurrent
    StandsConverge
    HoldListsAgree
    HoldsConverge
    SweepFindsItsEntry
    PrenotesConverge
    PrenotesFallAboutOwn
    MissedApproachesConverge
    MissedApproachesAnnounced
    SentReleasesClear
    SequencesSound
    MetarsConverge
    FlowMapsMirror
    AnswersInOrder
    ClientsUpToDate
PROPERTIES
    StandsSpec
    InitialAltitudesAssigned
    ProximityEnds
    PrenotesEnd
CHECK_DEADLOCK FALSE
