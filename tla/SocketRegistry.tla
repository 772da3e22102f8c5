--------------------------- MODULE SocketRegistry ---------------------------
(***************************************************************************)
(* What the hub promises about sockets, with no channels, goroutines or    *)
(* queues: a user has at most one current socket in a room; a socket gets  *)
(* its place once, and either keeps it until it leaves or loses it to a    *)
(* newer socket of the same user, and never gets it back.                  *)
(***************************************************************************)
CONSTANTS
    Clients,    \* sockets
    UserOf,     \* the user of each
    RoomOf      \* the room of each

VARIABLE status

Status == {"new", "current", "superseded", "gone"}

SamePlace(c, d) == UserOf[c] = UserOf[d] /\ RoomOf[c] = RoomOf[d]

Init == status = [c \in Clients |-> "new"]

\* c takes the place of its user, from the socket that had it if there is one.
Attach(c) ==
    /\ status[c] = "new"
    /\ status' = [d \in Clients |->
                    IF d = c THEN "current"
                    ELSE IF SamePlace(c, d) /\ status[d] = "current" THEN "superseded"
                    ELSE status[d]]

\* c gives its place up, or is thrown out for reading too slowly.
Detach(c) ==
    /\ status[c] = "current"
    /\ status' = [status EXCEPT ![c] = "gone"]

Next == \E c \in Clients : Attach(c) \/ Detach(c)

Spec == Init /\ [][Next]_status
=============================================================================
