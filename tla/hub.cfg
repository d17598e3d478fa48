SPECIFICATION Spec
CONSTANTS
    Users <- MCUsers
    Mocks <- MCMocks
    Requests = {r1, r2}
    MaxFaults = 2
CHECK_DEADLOCK FALSE
INVARIANTS
    KeptJoined
    AnnouncedKept
PROPERTIES
    BackOnlyByJoin
    Converges
