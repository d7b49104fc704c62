SPECIFICATION Spec
CONSTANTS
    MaxStations = 2
    MaxModeFailures = 1
    MAX_SESSIONS = 2
    SESSION_IDLE_TIMEOUT = 2
    MaxLogins = 3
    MaxMoves = 4
INVARIANTS
    TypeOK
    HotspotFollowsPolicy
PROPERTIES
    SessionsEndForAReason
    StaStatusConverges
CHECK_DEADLOCK FALSE
