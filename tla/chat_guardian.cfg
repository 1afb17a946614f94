SPECIFICATION Spec
CONSTANTS
    scout = scout
    mother = mother
    ann = ann
    bob = bob
    channel = channel
    r1 = r1
    Cron = cron
    NoChannel = nochannel
    Users = {scout, mother, ann, bob}
    Adults = {mother, ann, bob}
    Staff = {}
    Patrol = {}
    GuardianOf <- Guards
    Role0 <- Start
    Rsvp0 = {scout}
    Layouts <- Either
    PostPolicy <- Posts
    Channels = {channel}
    Requests = {r1}
    MaxChanges = 2
INVARIANT ScoutWithGuardian
CHECK_DEADLOCK FALSE
