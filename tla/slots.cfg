SPECIFICATION Spec
CONSTANTS
    Slots <- StationAndRole
    Stations <- OneStation
    Waitlisted <- OneStation
    pat = pat
    sam = sam
    alex = alex
    t1 = t1
    t2 = t2
    Adults = {pat, sam}
    Scouts = {alex}
    GuardianOf <- FamilyOf
    Logins = {sam}
    Expiring = {sam}
    Mailable = {pat, sam, alex}
    Requests = {t1, t2}
    Sizes = {1, 2}
    FirstSize <- RoomForOne
    MaxRequests = 4
SYMMETRY Interchangeable
INVARIANTS TypeOK AnnouncedOnce SignupsNeverDeadlock
PROPERTIES NoOverbooking OldestFirst
CHECK_DEADLOCK FALSE
