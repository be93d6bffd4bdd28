SPECIFICATION Spec
CONSTANTS
    BookingIds = {b1, b2}
    Users = {boss, renter}
    Admins = {boss}
    ParkingOwner = boss
    Handlers = {h1}
    NoId = NoId
    Absent = Absent
    ClientOps = {"create", "status", "update", "remove", "checkIn", "checkOut", "code"}
    MaxTime = 2
    MaxRequests = 4
    MaxFailures = 1
SYMMETRY Symmetry
INVARIANTS TypeOK NotesAreTrue OverlapOnlyByRevival PricedForItsPeriod
CHECK_DEADLOCK FALSE
