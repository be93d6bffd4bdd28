SPECIFICATION FairSpec
CONSTANTS
    ListingIds = {l1}
    OfferIds = {o1, o2}
    Users = {host, u1}
    host = host
    p1 = p1
    Spots = {p1}
    Hosts <- MCHosts
    Handlers = {h1, h2}
    NoId = NoId
    Absent = Absent
    SwapOps = {"list", "relist", "unlist", "offer", "reoffer", "withdraw", "respond", "complete"}
    MaxTime = 1
    MaxRequests = 4
    MaxFailures = 1
INVARIANTS WinnersBookedTheListing CompletedWasWon
PROPERTY AcceptanceComesTrue
CHECK_DEADLOCK FALSE
