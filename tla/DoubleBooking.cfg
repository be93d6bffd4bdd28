SPECIFICATION Spec
CONSTANTS
    BookingIds = {b1, b2}
    Users = {boss}
    Admins = {boss}
    ParkingOwner = boss
    Handlers = {h1, h2}
    NoId = NoId
    Absent = Absent
    ClientOps = {"create"}
    MaxTime = 1
    MaxRequests = 2
    MaxFailures = 0
INVARIANT NoDoubleBooking
CHECK_DEADLOCK FALSE
