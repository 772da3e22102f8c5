CONSTANTS
    h1 = h1
    h2 = h2
    a1 = a1
    a2 = a2
    host = host
    ann = ann
    room = room
    Rooms = {room}
    Users = {host, ann}
    Clients = {a1, a2}
    NoClient = NoClient
    NoUser = NoUser
    UserOf <- MCUserOf
    RoomOf <- MCRoomOf
    HostOf <- MCHostOf
    Events = {}
    Fragile = {a1, a2}
    SendCap = 1
    BroadcastCap = 1
    TargetedCap = 1
    MaxEvents = 0
SPECIFICATION Spec
PROPERTIES StaleSocketSilent
