CONSTANTS
    Users = {host, ann, bob}
    Host = host
    Requests = {r1, r2}
    Ops = {"create", "join", "serve", "leave", "kick", "mute", "unmute", "close", "delete", "update", "play", "pause"}
    Caps = {1, 2}
    DefaultCap = 2
    NoUser = NoUser
    NoRow = NoRow
    MaxRequests = 5
SPECIFICATION Spec
SYMMETRY MCSymmetry
INVARIANTS StatusConsistent OvershootBounded
PROPERTIES OverForGood MuteSurvivesRejoin ClosedToNewcomers
