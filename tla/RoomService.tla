---------------------------- MODULE RoomService ----------------------------
(***************************************************************************)
(* One room in the database and the requests that work on it: the REST     *)
(* operations of src/internal/service/room_service.go and the two places   *)
(* where src/internal/handler/ws_handler.go writes the same rows.          *)
(*                                                                         *)
(* No operation uses a transaction: each runs as a sequence of statements, *)
(* and one statement is one step here.  A request carries what it read (the*)
(* room's row, a member's row) from the statement that read it to the one  *)
(* that writes the WHOLE row back with GORM's Save.                        *)
(*                                                                         *)
(* The row keeps the columns the properties tell apart: status, is_playing *)
(* and max_members; the others travel in the same Save.  A member's row is *)
(* its left_at, as active, and is_muted.                                   *)
(***************************************************************************)
EXTENDS Naturals, FiniteSets

CONSTANTS
    Users,
    Host,           \* the user who creates the room
    Requests,       \* the slots requests are handled in: how many run at once
    Ops,            \* the operations of this instance
    Caps,           \* the limits a host asks for
    DefaultCap,     \* the limit of a host who asks for none: 10 in the code
    NoUser,         \* no target
    NoRow,          \* no such row
    MaxRequests     \* bound: requests that are started

AllOps == {"create", "join", "serve", "leave", "kick", "mute", "unmute",
           "close", "delete", "update", "play", "pause"}

ASSUME RoomAssumption ==
    /\ Host \in Users
    /\ NoUser \notin Users
    /\ Ops \subseteq AllOps
    /\ Caps \subseteq Nat \ {0}
    /\ DefaultCap \in Caps
    /\ IsFiniteSet(Users) /\ IsFiniteSet(Requests)
    /\ MaxRequests \in Nat

VARIABLES
    room,           \* the row of rooms, or NoRow
    members,        \* the rows of room_members, by user
    tokens,         \* who holds a socket token of the room, from a Join
    req,            \* what each slot is doing
    started,        \* the requests started so far, for the bound MaxRequests
    unchecked,      \* history: who became active through a socket, past no limit
    loosest         \* history: the largest limit the room's row has had

history == <<unchecked, loosest>>

vars == <<room, members, tokens, req, started, history>>

-----------------------------------------------------------------------------

Statuses == {"waiting", "playing", "paused", "ended"}

Row == [status : Statuses, playing : BOOLEAN, max : Caps]

Member == [active : BOOLEAN, muted : BOOLEAN]

ASSUME NoRowAssumption == NoRow \notin Row \cup Member

Steps == {"insertRoom", "insertHost", "find", "password", "count", "recheck",
          "upsertFind", "upsertWrite", "token", "leave", "mute", "close",
          "delete", "save"}

(* user runs the request; target is whom it kicks or mutes, cap the limit  *)
(* it asks for, 0 when it asks for none; row and member are what it read.  *)
Request == [pc : Steps, op : AllOps, user : Users, target : Users \cup {NoUser},
            cap : Caps \cup {0}, row : Row \cup {NoRow},
            member : Member \cup {NoRow}]

NoRequest == [pc |-> "idle"]

Active == {u \in Users : members[u] # NoRow /\ members[u].active}

At(r, pc) == req[r].pc = pc

To(r, pc) == req' = [req EXCEPT ![r].pc = pc]

\* The history of the row's limit, as a statement writes the row.
Loosen(row) == loosest' = IF row.max > loosest THEN row.max ELSE loosest

\* The response is sent, or an error is: the slot is free.
Respond(r) == req' = [req EXCEPT ![r] = NoRequest]

Init ==
    /\ room = NoRow
    /\ members = [u \in Users |-> NoRow]
    /\ tokens = {}
    /\ req = [r \in Requests |-> NoRequest]
    /\ started = 0
    /\ unchecked = {}
    /\ loosest = 0

\* A socket, and so the player's events, need a token of the room.
Start(r) ==
    /\ At(r, "idle")
    /\ started < MaxRequests
    /\ started' = started + 1
    /\ \E op \in Ops, u \in Users, t \in Users \cup {NoUser}, cap \in Caps \cup {0} :
          /\ op = "create" <=> started = 0
          /\ op = "create" => u = Host
          /\ op \in {"serve", "play", "pause"} => u \in tokens
          /\ t # NoUser <=> op \in {"kick", "mute", "unmute"}
          /\ cap # 0 => op \in {"create", "update"}
          /\ req' = [req EXCEPT ![r] =
                [pc |-> IF op = "create" THEN "insertRoom" ELSE "find",
                 op |-> op, user |-> u, target |-> t, cap |-> cap,
                 row |-> NoRow, member |-> NoRow]]
    /\ UNCHANGED <<room, members, tokens, history>>

\* Any statement may fail: the handler answers with an error, or only logs it.
Fail(r) ==
    /\ ~At(r, "idle")
    /\ Respond(r)
    /\ UNCHANGED <<room, members, tokens, started, history>>

-----------------------------------------------------------------------------
(* Create: the room, then the host's membership.                           *)

InsertRoom(r) ==
    /\ At(r, "insertRoom")
    /\ room' = [status |-> "waiting", playing |-> FALSE,
                max |-> IF req[r].cap = 0 THEN DefaultCap ELSE req[r].cap]
    /\ Loosen(room')
    /\ To(r, "insertHost")
    /\ UNCHANGED <<members, tokens, started, unchecked>>

\* It can only fail (Fail) when the host is a member already, by a Join that
\* came in between, or when the room is gone.
InsertHost(r) ==
    /\ At(r, "insertHost")
    /\ room # NoRow
    /\ members[Host] = NoRow
    /\ members' = [members EXCEPT ![Host] = [active |-> TRUE, muted |-> FALSE]]
    /\ Respond(r)
    /\ UNCHANGED <<room, tokens, started, history>>

-----------------------------------------------------------------------------
(* FindByCode and the checks on the row it returns.                        *)

ByHost(r) == req[r].user = Host

\* Mutant: the player events do not check that the room has not ended.
Allowed_EndedToo(r) ==
    /\ req[r].op \in {"close", "delete", "update", "play", "pause"} => ByHost(r)
    /\ req[r].op \in {"kick", "mute", "unmute"} => ByHost(r) /\ req[r].target # Host
    /\ req[r].op = "join" => room.status # "ended"

\* Mutant: Join does not ask whether the room has ended.
Allowed_JoinEnded(r) ==
    /\ req[r].op \in {"close", "delete", "update", "play", "pause"} => ByHost(r)
    /\ req[r].op \in {"kick", "mute", "unmute"} => ByHost(r) /\ req[r].target # Host
    /\ req[r].op \in {"play", "pause"} => room.status # "ended"

\* Who may run the operation, and whether the room must not have ended.
Allowed(r) ==
    /\ req[r].op \in {"close", "delete", "update", "play", "pause"} => ByHost(r)
    /\ req[r].op \in {"kick", "mute", "unmute"} => ByHost(r) /\ req[r].target # Host
    /\ req[r].op \in {"join", "play", "pause"} => room.status # "ended"

FirstStep ==
    [join |-> "password", serve |-> "upsertFind", leave |-> "leave", kick |-> "leave",
     mute |-> "mute", unmute |-> "mute", close |-> "close", delete |-> "delete",
     update |-> "save", play |-> "save", pause |-> "save"]

\* handlePlayerSync on the row it read: play, or pause when it was not ended.
Played(row) == [row EXCEPT !.status = "playing", !.playing = TRUE]

Paused(row) ==
    [row EXCEPT !.playing = FALSE,
                !.status = IF @ \in {"playing", "waiting"} THEN "paused" ELSE @]

\* The row a Save writes back: what was read, with the columns the operation sets.
Changed(op, row, cap) ==
    IF op = "play" THEN Played(row)
    ELSE IF op = "pause" THEN Paused(row)
    ELSE IF op = "update" /\ cap # 0 THEN [row EXCEPT !.max = cap]
    ELSE row

FindRoom(r) ==
    /\ At(r, "find")
    /\ IF room # NoRow /\ Allowed(r)
       THEN req' = [req EXCEPT ![r].pc = FirstStep[req[r].op],
                               ![r].row = Changed(req[r].op, room, req[r].cap)]
       ELSE Respond(r)
    /\ UNCHANGED <<room, members, tokens, started, history>>

-----------------------------------------------------------------------------
(* Join.                                                                   *)

\* The password of a private room, asked of who is neither host nor active.
CheckPassword(r) ==
    /\ At(r, "password")
    /\ \/ To(r, "count")
       \/ ~ByHost(r) /\ req[r].user \notin Active /\ Respond(r)
    /\ UNCHANGED <<room, members, tokens, started, history>>

\* Mutant: off by one, a full room takes one more.
CountActive_OneMore(r) ==
    /\ At(r, "count")
    /\ To(r, IF Cardinality(Active) > req[r].row.max THEN "recheck" ELSE "upsertFind")
    /\ UNCHANGED <<room, members, tokens, started, history>>

\* CountActive against the max_members that FindByCode returned.
CountActive(r) ==
    /\ At(r, "count")
    /\ To(r, IF Cardinality(Active) >= req[r].row.max THEN "recheck" ELSE "upsertFind")
    /\ UNCHANGED <<room, members, tokens, started, history>>

\* A full room takes back only who is active.
RecheckMember(r) ==
    /\ At(r, "recheck")
    /\ IF req[r].user \in Active THEN To(r, "upsertFind") ELSE Respond(r)
    /\ UNCHANGED <<room, members, tokens, started, history>>

\* UpsertActive reads the member's row ...
UpsertFind(r) ==
    /\ At(r, "upsertFind")
    /\ req' = [req EXCEPT ![r].pc = "upsertWrite", ![r].member = members[req[r].user]]
    /\ UNCHANGED <<room, members, tokens, started, history>>

\* The statement that writes fails: a row came meanwhile, or the room is gone.
Rejected(r) == room = NoRow \/ (req[r].member = NoRow /\ members[req[r].user] # NoRow)

\* Serve asks for a token only: it takes in whoever left or was kicked, over the
\* limit of the room too, which is kept as history.
Unchecked(r) ==
    unchecked' = IF req[r].op = "serve" /\ req[r].user \notin Active
                 THEN unchecked \cup {req[r].user} ELSE unchecked

\* Mutant: a fresh row is saved over the one that was found.
UpsertWrite_Fresh(r) ==
    /\ At(r, "upsertWrite")
    /\ ~Rejected(r)
    /\ members' = [members EXCEPT ![req[r].user] = [active |-> TRUE, muted |-> FALSE]]
    /\ IF req[r].op = "join" THEN To(r, "token") ELSE Respond(r)
    /\ Unchecked(r)
    /\ UNCHANGED <<room, tokens, started, loosest>>

\* ... and inserts a new one, or saves the one it read with left_at cleared.
UpsertWrite(r) ==
    /\ At(r, "upsertWrite")
    /\ ~Rejected(r)
    /\ members' = [members EXCEPT ![req[r].user] =
                      [active |-> TRUE,
                       muted |-> req[r].member # NoRow /\ req[r].member.muted]]
    /\ IF req[r].op = "join" THEN To(r, "token") ELSE Respond(r)
    /\ Unchecked(r)
    /\ UNCHANGED <<room, tokens, started, loosest>>

\* Join answers with the token the socket is opened with.
IssueToken(r) ==
    /\ At(r, "token")
    /\ tokens' = tokens \cup {req[r].user}
    /\ Respond(r)
    /\ UNCHANGED <<room, members, started, history>>

-----------------------------------------------------------------------------
(* The operations of one statement after FindByCode.                       *)

\* Leave and KickMember: UPDATE left_at.
LeaveRoom(r) ==
    /\ At(r, "leave")
    /\ LET u == IF req[r].op = "kick" THEN req[r].target ELSE req[r].user
       IN  members' = IF members[u] = NoRow THEN members
                      ELSE [members EXCEPT ![u].active = FALSE]
    /\ Respond(r)
    /\ UNCHANGED <<room, tokens, started, history>>

\* SetMemberMuted: UPDATE is_muted.
SetMuted(r) ==
    /\ At(r, "mute")
    /\ LET u == req[r].target
       IN  members' = IF members[u] = NoRow THEN members
                      ELSE [members EXCEPT ![u].muted = (req[r].op = "mute")]
    /\ Respond(r)
    /\ UNCHANGED <<room, tokens, started, history>>

\* Mutant: is_playing is left as it was.
Close_StillPlaying(r) ==
    /\ At(r, "close")
    /\ room' = IF room = NoRow THEN NoRow ELSE [room EXCEPT !.status = "ended"]
    /\ Respond(r)
    /\ UNCHANGED <<members, tokens, started, history>>

\* Close: UPDATE status, is_playing and ended_at.
Close(r) ==
    /\ At(r, "close")
    /\ room' = IF room = NoRow THEN NoRow
               ELSE [room EXCEPT !.status = "ended", !.playing = FALSE]
    /\ Respond(r)
    /\ UNCHANGED <<members, tokens, started, history>>

\* Delete: the rows of its members go with the room's.
Delete(r) ==
    /\ At(r, "delete")
    /\ room' = NoRow
    /\ members' = [u \in Users |-> NoRow]
    /\ Respond(r)
    /\ UNCHANGED <<tokens, started, history>>

\* Update and handlePlayerSync: Save writes every column of the row that was
\* read, and inserts it when its id is not in the table.
Save(r) ==
    /\ At(r, "save")
    /\ room' = req[r].row
    /\ Loosen(room')
    /\ Respond(r)
    /\ UNCHANGED <<members, tokens, started, unchecked>>

-----------------------------------------------------------------------------

\* Past the bound, when all is answered, nothing more comes.
Served ==
    /\ started = MaxRequests
    /\ \A r \in Requests : At(r, "idle")
    /\ UNCHANGED vars

Step(r) ==
    \/ Start(r)
    \/ Fail(r)
    \/ InsertRoom(r)
    \/ InsertHost(r)
    \/ FindRoom(r)
    \/ CheckPassword(r)
    \/ CountActive(r)
    \/ RecheckMember(r)
    \/ UpsertFind(r)
    \/ UpsertWrite(r)
    \/ IssueToken(r)
    \/ LeaveRoom(r)
    \/ SetMuted(r)
    \/ Close(r)
    \/ Delete(r)
    \/ Save(r)

Next == Served \/ \E r \in Requests : Step(r)

Spec == Init /\ [][Next]_vars

-----------------------------------------------------------------------------
(* Properties.                                                             *)

\* The rows and the requests, and what the history variables hold.
StateOK ==
    /\ room \in Row \cup {NoRow}
    /\ members \in [Users -> Member \cup {NoRow}]
    /\ tokens \in SUBSET Users
    /\ req \in [Requests -> Request \cup {NoRequest}]
    /\ started \in 0..MaxRequests

TypeOK ==
    /\ StateOK
    /\ unchecked \subseteq Users
    /\ loosest \in Caps \cup {0}

\* Whichever row a Save brings back, and whatever it overwrites, a room is marked
\* as playing exactly when its status says so: Close, handlePlayerSync and Update
\* each leave the two columns in step, and no interleaving mixes them.
StatusConsistent ==
    room # NoRow => (room.playing <=> room.status = "playing")

\* The room is over and no Save is on its way that read it before.
Over ==
    /\ started > 0
    /\ room = NoRow \/ room.status = "ended"
    /\ \A r \in Requests : /\ ~At(r, "insertRoom")
                           /\ At(r, "save") => req[r].row.status = "ended"

\* A room that was closed or deleted stays so once the requests that were under
\* way have ended: nothing that starts later revives it (handlePlayerSync checks
\* the status, the others keep it).  A Save that read the row before may.
OverForGood == [][Over => Over']_vars

\* Nobody is about to unmute u, or to save u's row as it was before the mute.
MuteHeld(u) ==
    /\ members[u] # NoRow
    /\ members[u].muted
    /\ \A r \in Requests :
          /\ At(r, "mute") => ~(req[r].target = u /\ req[r].op = "unmute")
          /\ At(r, "upsertWrite") /\ req[r].user = u =>
                req[r].member # NoRow /\ req[r].member.muted

\* A mute survives being kicked, leaving, joining again and opening a socket: it
\* ends with the host's unmute, or with the room.
MuteSurvivesRejoin ==
    [][\A u \in Users : MuteHeld(u) =>
          \/ MuteHeld(u)'
          \/ members'[u] = NoRow
          \/ \E r \in Requests :
                (At(r, "mute") /\ req[r].op = "unmute" /\ req[r].target = u)']_vars

\* Who is in, or past the check of Join and about to be.
Admitted ==
    Active \cup {req[r].user : r \in {q \in Requests :
                     \/ req[q].pc = "insertHost"
                     \/ req[q].pc \in {"upsertFind", "upsertWrite"} /\ req[q].op = "join"}}

\* Join counts and then inserts, so requests that run at once may overfill the
\* room, but only by the others that run, and against the largest limit a host
\* has set (room_service.go:210-226).  Only a socket takes in more.
OvershootBounded ==
    loosest > 0 =>
        Cardinality(Admitted \ unchecked) <= loosest + Cardinality(Requests) - 1

\* u is neither a member of a room that is over nor about to become one.
Outside(u) ==
    /\ Over
    /\ u \notin Active \cup tokens
    /\ \A r \in Requests :
          ~At(r, "idle") /\ req[r].user = u =>
             /\ req[r].op \notin {"create", "serve"}
             /\ req[r].op = "join" => At(r, "find")

\* Serve admits by the token alone, without asking whether the room has ended
\* (ws_handler.go:72-120), and tokens come from Join only: who is outside when the
\* room is over never becomes a member or gets a token.
ClosedToNewcomers == [][\A u \in Users : Outside(u) => Outside(u)']_vars

=============================================================================
