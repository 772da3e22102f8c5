CONSTANTS
    h1 = h1
    h2 = h2
    a1 = a1
    a2 = a2
    host = host
    ann = ann
    room = room
    Rooms = {room}
    Users = {host, ann}
    Clients = {h1, a1}
    NoClient = NoClient
    NoUser = NoUser
    UserOf <- MCUserOf
    RoomOf <- MCRoomOf
    HostOf <- MCHostOf
    Events = {"chat", "request"}
    Fragile = {a1}
    SendCap = 1
    BroadcastCap = 1
    TargetedCap = 1
    MaxEvents = 1
SPECIFICATION FairSpec
PROPERTIES ClosedSocketTornDown BlockedSenderReleased
