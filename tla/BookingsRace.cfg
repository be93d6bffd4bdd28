SPECIFICATION Spec
CONSTANTS
    BookingIds = {b1}
    Users = {boss}
    Admins = {boss}
    ParkingOwner = boss
    Handlers = {h1, h2, h3}
    NoId = NoId
    Absent = Absent
    ClientOps = {"create", "status", "update", "remove", "checkIn", "checkOut", "code"}
    MaxTime = 1
    MaxRequests = 5
    MaxFailures = 0
SYMMETRY Symmetry
INVARIANT StagesInOrder
CHECK_DEADLOCK FALSE
