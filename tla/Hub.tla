-------------------------------- MODULE Hub --------------------------------
(***************************************************************************)
(* The websocket hub (src/internal/websocket/hub.go): the map of rooms to  *)
(* the socket each user is reached at, the table of player states, and the *)
(* single goroutine Hub.Run that owns both and serves four channels.       *)
(*                                                                         *)
(* A client is one socket: the value of a *Client pointer.  Its user and   *)
(* its room are fixed when the handler allocates it, so they are constant  *)
(* functions.  The module has the hub's state and one action per case of   *)
(* the loop; who calls the hub, and when, is in WSHandler.                 *)
(*                                                                         *)
(* The loop handles a case under the hub's mutex, but a caller is released *)
(* as soon as the loop has RECEIVED its value: work holds what the loop    *)
(* has received and not done yet, so a caller runs ahead of the loop as it *)
(* does in the program.                                                    *)
(***************************************************************************)
EXTENDS Naturals, Sequences, FiniteSets

CONSTANTS
    Rooms,          \* room codes
    Users,          \* user ids
    Clients,        \* sockets: every connection is a Client of its own
    UserOf,         \* Client.UserID
    RoomOf,         \* Client.RoomCode
    NoClient,       \* no socket under this user in the room's map
    NoUser,         \* the empty ExcludeUserID
    SendCap,        \* capacity of Client.Send (256 in the code)
    BroadcastCap,   \* capacity of Hub.broadcast (256 in the code)
    TargetedCap     \* capacity of Hub.targeted (256 in the code)

ASSUME HubAssumption ==
    /\ UserOf \in [Clients -> Users]
    /\ RoomOf \in [Clients -> Rooms]
    /\ NoClient \notin Clients
    /\ NoUser \notin Users
    /\ SendCap \in Nat \ {0}
    /\ BroadcastCap \in Nat \ {0}
    /\ TargetedCap \in Nat \ {0}

VARIABLES
    rooms,          \* Hub.rooms; a room without entries is NoClient everywhere
    playerStates,   \* the rooms that have an entry in Hub.playerStates
    broadcast,      \* Hub.broadcast, a buffered channel
    targeted,       \* Hub.targeted, a buffered channel
    work,           \* what Run has received and not finished
    queued,         \* messages in each Client.Send
    roster,         \* the users each browser shows online once it has read Send
    sendState,      \* Client.Send: open, or closed and by which statement
    crashed         \* an unrecovered panic, or a fatal error of the runtime

hubVars == <<rooms, playerStates, broadcast, targeted, work, queued, roster,
             sendState, crashed>>

-----------------------------------------------------------------------------
(* Messages.  The payload of an event is abstracted; member:join and       *)
(* member:leave are told apart because browsers fold them into a roster.   *)

Kinds == {"join", "leave", "event"}

BroadcastMessage == [kind : Kinds, from : Clients, exclude : Users \cup {NoUser}]

TargetedMessage == [from : Clients, target : Users]

Registration == [op : {"register", "unregister"}, client : Clients]

Delivery == [op : {"deliver"}, client : Clients, kind : Kinds, from : Clients]

Work == Registration \cup Delivery

-----------------------------------------------------------------------------
(* Reads under the read lock.                                              *)

IsCurrent(c) == rooms[RoomOf[c]][UserOf[c]] = c

RoomClients(r) == {rooms[r][u] : u \in Users} \ {NoClient}

Closed(c) == sendState[c] # "open"

\* Run holds the read lock exactly while it delivers: no writer gets in.
Delivering == \E w \in work : w.op = "deliver"

\* Run is back at its select and can receive.
AtSelect == work = {}

\* What a browser shows after one more message.
Fold(shown, kind, from) ==
    (shown \cup (IF kind = "join" THEN {UserOf[from]} ELSE {}))
           \ (IF kind = "leave" THEN {UserOf[from]} ELSE {})

-----------------------------------------------------------------------------

HubInit ==
    /\ rooms = [r \in Rooms |-> [u \in Users |-> NoClient]]
    /\ playerStates = {}
    /\ broadcast = <<>>
    /\ targeted = <<>>
    /\ work = {}
    /\ queued = [c \in Clients |-> 0]
    /\ roster = [c \in Clients |-> {}]
    /\ sendState = [c \in Clients |-> "open"]
    /\ crashed = FALSE

(* The callers' side of the channels.  register and unregister are         *)
(* unbuffered: the call returns when the loop, at its select, takes the    *)
(* value.  broadcast and targeted block the caller while they are full.    *)

Register(c) ==
    /\ AtSelect
    /\ work' = {[op |-> "register", client |-> c]}

Unregister(c) ==
    /\ AtSelect
    /\ work' = {[op |-> "unregister", client |-> c]}

BroadcastToRoom(c, kind, exclude) ==
    /\ Len(broadcast) < BroadcastCap
    /\ broadcast' = Append(broadcast, [kind |-> kind, from |-> c, exclude |-> exclude])

SendToUser(c, target) ==
    /\ Len(targeted) < TargetedCap
    /\ targeted' = Append(targeted, [from |-> c, target |-> target])

SetPlayerState(r) ==
    /\ ~Delivering
    /\ playerStates' = playerStates \cup {r}

-----------------------------------------------------------------------------
(* The cases of Run.                                                       *)

\* case client := <-h.register: the user's entry is overwritten.
HandleRegister(c) ==
    /\ [op |-> "register", client |-> c] \in work
    /\ work' = {}
    /\ rooms' = [rooms EXCEPT ![RoomOf[c]][UserOf[c]] = c]
    /\ UNCHANGED <<playerStates, broadcast, targeted, queued, roster, sendState, crashed>>

\* Mutant: Send is closed and the entry stays in the map.
HandleUnregister_KeepsEntry(c) ==
    /\ [op |-> "unregister", client |-> c] \in work
    /\ IsCurrent(c)
    /\ work' = {}
    /\ sendState' = [sendState EXCEPT ![c] = "unregistered"]
    /\ crashed' = Closed(c)
    /\ UNCHANGED <<rooms, playerStates, broadcast, targeted, queued, roster>>

\* Mutant: the player state stays when the last socket goes.
HandleUnregister_KeepsState(c) ==
    /\ [op |-> "unregister", client |-> c] \in work
    /\ IsCurrent(c)
    /\ work' = {}
    /\ rooms' = [rooms EXCEPT ![RoomOf[c]][UserOf[c]] = NoClient]
    /\ sendState' = [sendState EXCEPT ![c] = "unregistered"]
    /\ crashed' = Closed(c)
    /\ UNCHANGED <<playerStates, broadcast, targeted, queued, roster>>

\* case client := <-h.unregister, for the registered socket: it is removed, its
\* Send closed, and with the last socket the room and its player state go.
HandleUnregister(c) ==
    /\ [op |-> "unregister", client |-> c] \in work
    /\ IsCurrent(c)
    /\ work' = {}
    /\ rooms' = [rooms EXCEPT ![RoomOf[c]][UserOf[c]] = NoClient]
    /\ sendState' = [sendState EXCEPT ![c] = "unregistered"]
    /\ playerStates' = IF RoomClients(RoomOf[c]) = {c}
                       THEN playerStates \ {RoomOf[c]} ELSE playerStates
    /\ crashed' = Closed(c)
    /\ UNCHANGED <<broadcast, targeted, queued, roster>>

\* Mutant: registered == client is not compared, the user's entry is deleted.
HandleUnregisterStale_NoCompare(c) ==
    /\ [op |-> "unregister", client |-> c] \in work
    /\ ~IsCurrent(c)
    /\ work' = {}
    /\ rooms' = [rooms EXCEPT ![RoomOf[c]][UserOf[c]] = NoClient]
    /\ UNCHANGED <<playerStates, broadcast, targeted, queued, roster, sendState, crashed>>

\* case client := <-h.unregister, for a socket that is not the registered one.
HandleUnregisterStale(c) ==
    /\ [op |-> "unregister", client |-> c] \in work
    /\ ~IsCurrent(c)
    /\ work' = {}
    /\ UNCHANGED <<rooms, playerStates, broadcast, targeted, queued, roster,
                   sendState, crashed>>

\* case msg := <-h.broadcast: one delivery per registered socket of the room
\* whose user is not the excluded one, in whatever order the map is ranged.
ReceiveBroadcast ==
    /\ AtSelect
    /\ broadcast # <<>>
    /\ LET m == Head(broadcast)
           to == {c \in RoomClients(RoomOf[m.from]) : UserOf[c] # m.exclude}
       IN  work' = {[op |-> "deliver", client |-> c, kind |-> m.kind, from |-> m.from] :
                        c \in to}
    /\ broadcast' = Tail(broadcast)
    /\ UNCHANGED <<rooms, playerStates, targeted, queued, roster, sendState, crashed>>

\* case msg := <-h.targeted: one delivery, to the target's registered socket.
ReceiveTargeted ==
    /\ AtSelect
    /\ targeted # <<>>
    /\ LET m == Head(targeted)
           to == {rooms[RoomOf[m.from]][m.target]} \ {NoClient}
       IN  work' = {[op |-> "deliver", client |-> c, kind |-> "event", from |-> m.from] :
                        c \in to}
    /\ targeted' = Tail(targeted)
    /\ UNCHANGED <<rooms, playerStates, broadcast, queued, roster, sendState, crashed>>

\* A message is put into c's Send; a send on a closed channel panics.
Enqueue(c, kind, from) ==
    /\ queued[c] < SendCap \/ Closed(c)
    /\ crashed' = Closed(c)
    /\ queued' = IF Closed(c) THEN queued ELSE [queued EXCEPT ![c] = @ + 1]
    /\ roster' = IF Closed(c) THEN roster
                 ELSE [roster EXCEPT ![c] = Fold(@, kind, from)]

\* case client.Send <- msg.Data.
Deliver(w) ==
    /\ w \in work
    /\ w.op = "deliver"
    /\ Enqueue(w.client, w.kind, w.from)
    /\ work' = work \ {w}
    /\ UNCHANGED <<rooms, playerStates, broadcast, targeted, sendState>>

\* Mutant: Send is closed and the entry stays in the map.
EvictSlow_KeepsEntry(w, racing) ==
    /\ w \in work
    /\ w.op = "deliver"
    /\ ~Closed(w.client)
    /\ queued[w.client] = SendCap
    /\ work' = work \ {w}
    /\ sendState' = [sendState EXCEPT ![w.client] = "evicted"]
    /\ crashed' \in IF racing THEN BOOLEAN ELSE {FALSE}
    /\ UNCHANGED <<rooms, playerStates, broadcast, targeted, queued, roster>>

\* Mutant: the loop waits for room in Send.
EvictSlow_Waits(w, racing) ==
    /\ w \in work
    /\ w.op = "deliver"
    /\ queued[w.client] = SendCap
    /\ UNCHANGED hubVars

\* default: Send is full, so it is closed and its entry deleted, under the READ
\* lock.  When another goroutine reads the same map meanwhile (racing) the
\* runtime may stop the process: "concurrent map read and map write".
EvictSlow(w, racing) ==
    /\ w \in work
    /\ w.op = "deliver"
    /\ ~Closed(w.client)
    /\ queued[w.client] = SendCap
    /\ work' = work \ {w}
    /\ rooms' = [rooms EXCEPT ![RoomOf[w.client]][UserOf[w.client]] = NoClient]
    /\ sendState' = [sendState EXCEPT ![w.client] = "evicted"]
    /\ crashed' \in IF racing THEN BOOLEAN ELSE {FALSE}
    /\ UNCHANGED <<playerStates, broadcast, targeted, queued, roster>>

-----------------------------------------------------------------------------

HubTypeOK ==
    /\ rooms \in [Rooms -> [Users -> Clients \cup {NoClient}]]
    /\ playerStates \subseteq Rooms
    /\ broadcast \in Seq(BroadcastMessage)
    /\ Len(broadcast) <= BroadcastCap
    /\ targeted \in Seq(TargetedMessage)
    /\ Len(targeted) <= TargetedCap
    /\ work \subseteq Work
    /\ queued \in [Clients -> 0..SendCap]
    /\ roster \in [Clients -> SUBSET Users]
    /\ sendState \in [Clients -> {"open", "unregistered", "evicted"}]
    /\ crashed \in BOOLEAN
=============================================================================
