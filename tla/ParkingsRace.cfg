SPECIFICATION Spec
CONSTANTS
    ParkingIds = {p1, p2, p3}
    Users = {"owner", "guest"}
    Level <- MCLevel
    Limit = 1
    Handlers = {h1, h2}
    NoId = NoId
    Unset = Unset
    Absent = Absent
    Names = {"roof", "front"}
    WeekDays <- MCWeekDays
    Dates = {"christmas", "eve"}
    Slots <- MCSlots
    Prices = {1, 2}
    Asks <- MCAsks
    Queries <- MCQueries
    ParkOps = {"create", "update", "remove", "rule", "price"}
    MaxRequests = 4
    MaxFailures = 1
SYMMETRY Symmetry
INVARIANTS ParkTypeOK LimitExceededByOverlapsOnly AppliedWasSet OpenAsAsked
CHECK_DEADLOCK FALSE
