SPECIFICATION Spec
CONSTANTS
    SubIds = {s1, s2}
    PauseIds = {p1, p2}
    SharingIds = {x1}
    Users = {ann, bob}
    Admins = {}
    Handlers = {h1, h2}
    NoId = NoId
    Absent = Absent
    Starts = {0}
    PauseDates = {0, 1, 5}
    PlanLength = 4
    Day = 2
    MaxPauseDays = 2
    Allowance = 1
    DetachModes = {TRUE, FALSE}
    MaxTime = 2
    MaxRequests = 4
    MaxFailures = 1
SYMMETRY Symmetry
INVARIANTS SubTypeOK PausesAreCharged TwoActiveOnlyByPausing EndMakesUpForPauses
PROPERTY RevokedStaysRevoked
CHECK_DEADLOCK FALSE
