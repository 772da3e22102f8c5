----------------------------- MODULE PlayerSync -----------------------------
(***************************************************************************)
(* The position of the player and how it travels in one room: from the     *)
(* host's browser into the room's row, into the hub's table of player      *)
(* states and, through the hub's queue and each viewer's Send, to the      *)
(* viewers (src/internal/handler/ws_handler.go, handlePlayerSync,          *)
(* sendPlayerSnapshotToClient and handlePlayerSyncRequest).                *)
(*                                                                         *)
(* A player state is the number of the change it stems from, an event of   *)
(* the host or a Close of the room, 0 before the first: that a playing     *)
(* state moves on by itself changes nothing in what the viewers follow.    *)
(* The queues are those of module Hub, with only the player:sync messages  *)
(* in them; registration is one step here.  A deleted room is one whose    *)
(* row cannot be read: row is what it had last, and a Save inserts it.     *)
(***************************************************************************)
EXTENDS Naturals, Sequences

CONSTANTS
    Hosts,          \* the sockets of the host: one per tab
    Viewers,        \* the sockets of members
    SendCap,        \* capacity of Client.Send
    MaxEvents,      \* bound: player events and Closes
    MaxRestarts,    \* bound: crashes of the process
    MaxUpdates      \* bound: PATCHes of the room

ASSUME PlayerSyncAssumption ==
    /\ Hosts \cap Viewers = {}
    /\ SendCap \in Nat \ {0}
    /\ MaxEvents \in Nat
    /\ MaxRestarts \in Nat
    /\ MaxUpdates \in Nat

VARIABLES
    row,            \* current_time and is_playing of the room's row
    hub,            \* Hub.playerStates of the room, 0 when it has no entry
    broadcast,      \* the hub's queue
    send,           \* each viewer's Send
    shown,          \* what each viewer's player follows
    current,        \* the tab of the host in the hub's map, if any
    pc,             \* where each socket's goroutine is
    val,            \* the state it holds meanwhile
    rest,           \* the row a PATCH has read and will save: none or one
    closes,         \* the changes that are Closes
    events, restarts, updates,      \* for the bounds
    late,           \* history: viewers whose last snapshot was no longer current when it
                    \* was queued, or was not sent because the row could not be read
    crossed,        \* history: two tabs were in a handler at once, or one was in a
                    \* handler when the room emptied
    unsaved         \* history: the latest change was not saved, or an older row was
                    \* saved over it

vars == <<row, hub, broadcast, send, shown, current, pc, val, rest, closes, events,
          restarts, updates, late, crossed, unsaved>>

Sockets == Hosts \cup Viewers

States == 0..MaxEvents

HostPC == {"off", "read", "save", "set", "emit", "refresh"}

ViewerPC == {"off", "snapshot", "row", "queue", "read"}

\* The sockets in the hub's map: a second tab replaces the first there, and both stay open.
Present == current \cup {v \in Viewers : pc[v] # "off"}

InHandler(h) == pc[h] \in HostPC \ {"off", "read"}

\* What a newcomer is given.
Current == IF hub # 0 THEN hub ELSE row

\* The room's status: every Save by the player writes another.
Ended == row \in closes

To(s, step) == pc' = [pc EXCEPT ![s] = step]

Init ==
    /\ row = 0
    /\ hub = 0
    /\ broadcast = <<>>
    /\ send = [v \in Viewers |-> <<>>]
    /\ shown = [v \in Viewers |-> 0]
    /\ current = {}
    /\ pc = [s \in Sockets |-> "off"]
    /\ val = [s \in Sockets |-> 0]
    /\ rest = {}
    /\ closes = {}
    /\ events = 0
    /\ restarts = 0
    /\ updates = 0
    /\ late = {}
    /\ crossed = FALSE
    /\ unsaved = FALSE

-----------------------------------------------------------------------------
(* Coming and going.                                                       *)

HostJoins(h) ==
    /\ pc[h] = "off"
    /\ To(h, "read")
    /\ current' = {h}
    /\ UNCHANGED <<row, hub, broadcast, send, shown, val, rest, closes, events,
                   restarts, updates, late, crossed, unsaved>>

\* A viewer is sent a snapshot before its pumps start.
ViewerJoins(v) ==
    /\ pc[v] = "off"
    /\ To(v, "snapshot")
    /\ send' = [send EXCEPT ![v] = <<>>]
    /\ late' = late \ {v}
    /\ UNCHANGED <<row, hub, broadcast, shown, current, val, rest, closes, events,
                   restarts, updates, crossed, unsaved>>

\* The hub unregisters a socket; with the last one the player state goes.
Leaves(s) ==
    /\ pc[s] = "read"
    /\ To(s, "off")
    /\ current' = current \ {s}
    /\ hub' = IF Present = {s} THEN 0 ELSE hub
    /\ crossed' = (crossed \/ (Present = {s} /\ \E h \in Hosts : InHandler(h)))
    /\ UNCHANGED <<row, broadcast, send, shown, val, rest, closes, events, restarts,
                   updates, late, unsaved>>

\* The process dies and starts again: only the row is left.
Restart ==
    /\ restarts < MaxRestarts
    /\ restarts' = restarts + 1
    /\ hub' = 0
    /\ broadcast' = <<>>
    /\ current' = {}
    /\ pc' = [s \in Sockets |-> "off"]
    /\ rest' = {}
    /\ UNCHANGED <<row, send, shown, val, closes, events, updates, late, crossed,
                   unsaved>>

-----------------------------------------------------------------------------
(* handlePlayerSync: the row, then the hub, then everyone else.            *)

\* readPump hands the handler an event.
Dispatch(h, step) ==
    /\ pc[h] = "read"
    /\ To(h, step)
    /\ crossed' = (crossed \/ \E g \in Hosts \ {h} : InHandler(g))

\* An event is dropped when the row cannot be read or the room has ended; one that
\* has passed is handled to the end, whatever becomes of the room.
PlayerEvent(h) ==
    /\ events < MaxEvents
    /\ ~Ended
    /\ Dispatch(h, "save")
    /\ events' = events + 1
    /\ val' = [val EXCEPT ![h] = events + 1]
    /\ UNCHANGED <<row, hub, broadcast, send, shown, current, rest, closes, restarts,
                   updates, late, unsaved>>

\* Mutant: the row is written only when there was no state in the hub.
SaveRow_FirstOnly(h) ==
    /\ pc[h] = "save"
    /\ To(h, "set")
    /\ row' = IF hub = 0 THEN val[h] ELSE row
    /\ UNCHANGED <<hub, broadcast, send, shown, current, val, rest, closes, events,
                   restarts, updates, late, crossed, unsaved>>

\* Mutant: the row is saved in the background.
SaveRow_Background(h) ==
    /\ pc[h] = "save"
    /\ To(h, "set")
    /\ rest' = {val[h]}
    /\ UNCHANGED <<row, hub, broadcast, send, shown, current, val, closes, events,
                   restarts, updates, late, crossed, unsaved>>

\* A Save that fails is logged, and the handler goes on; one that succeeds reopens a
\* room that was closed meanwhile.
SaveRow(h) ==
    /\ pc[h] = "save"
    /\ To(h, "set")
    /\ \/ row' = val[h] /\ unsaved' = (val[h] # events)
       \/ unsaved' = TRUE /\ UNCHANGED row
    /\ UNCHANGED <<hub, broadcast, send, shown, current, val, rest, closes, events,
                   restarts, updates, late, crossed>>

\* Mutant: the event is broadcast first.
SetState_EmitFirst(h) ==
    /\ \/ /\ pc[h] = "set"
          /\ To(h, "emit")
          /\ broadcast' = Append(broadcast, val[h])
          /\ UNCHANGED hub
       \/ /\ pc[h] = "emit"
          /\ To(h, "read")
          /\ hub' = val[h]
          /\ UNCHANGED broadcast
    /\ UNCHANGED <<row, send, shown, current, val, rest, closes, events, restarts,
                   updates, late, crossed, unsaved>>

SetState(h) ==
    /\ pc[h] = "set"
    /\ hub' = val[h]
    /\ To(h, "emit")
    /\ UNCHANGED <<row, broadcast, send, shown, current, val, rest, closes, events,
                   restarts, updates, late, crossed, unsaved>>

\* Mutant: the broadcast is left to a goroutine of its own.
EmitSync_Background(h) ==
    /\ pc[h] = "emit"
    /\ \E i \in 1..Len(broadcast) + 1 :
          broadcast' = SubSeq(broadcast, 1, i - 1) \o <<val[h]>>
                          \o SubSeq(broadcast, i, Len(broadcast))
    /\ To(h, "read")
    /\ UNCHANGED <<row, hub, send, shown, current, val, rest, closes, events, restarts,
                   updates, late, crossed, unsaved>>

EmitSync(h) ==
    /\ pc[h] = "emit"
    /\ broadcast' = Append(broadcast, val[h])
    /\ To(h, "read")
    /\ UNCHANGED <<row, hub, send, shown, current, val, rest, closes, events, restarts,
                   updates, late, crossed, unsaved>>

(* handlePlayerSyncRequest of the host: the state is read, brought up to   *)
(* date and written back.                                                  *)

RefreshRead(h) ==
    /\ hub # 0
    /\ Dispatch(h, "refresh")
    /\ val' = [val EXCEPT ![h] = hub]
    /\ UNCHANGED <<row, hub, broadcast, send, shown, current, rest, closes, events,
                   restarts, updates, late, unsaved>>

RefreshWrite(h) ==
    /\ pc[h] = "refresh"
    /\ hub' = val[h]
    /\ To(h, "read")
    /\ UNCHANGED <<row, broadcast, send, shown, current, val, rest, closes, events,
                   restarts, updates, late, crossed, unsaved>>

-----------------------------------------------------------------------------
(* sendPlayerSnapshotToClient, from Serve or for player:request_sync.      *)

RequestSync(v) ==
    /\ pc[v] = "read"
    /\ To(v, "snapshot")
    /\ UNCHANGED <<row, hub, broadcast, send, shown, current, val, rest, closes, events,
                   restarts, updates, late, crossed, unsaved>>

\* GetPlayerState ...
SnapshotHub(v) ==
    /\ pc[v] = "snapshot"
    /\ IF hub # 0
       THEN To(v, "queue") /\ val' = [val EXCEPT ![v] = hub]
       ELSE To(v, "row") /\ UNCHANGED val
    /\ UNCHANGED <<row, hub, broadcast, send, shown, current, rest, closes, events,
                   restarts, updates, late, crossed, unsaved>>

\* ... and the row, which counts when the hub had no state.  Without either, as for a
\* room that was deleted, nothing is sent.
SnapshotRow(v) ==
    /\ pc[v] = "row"
    /\ \/ To(v, "queue") /\ val' = [val EXCEPT ![v] = row] /\ UNCHANGED late
       \/ To(v, "read") /\ late' = late \cup {v} /\ UNCHANGED val
    /\ UNCHANGED <<row, hub, broadcast, send, shown, current, rest, closes, events,
                   restarts, updates, crossed, unsaved>>

\* The send, dropped when Send is full.
SnapshotQueue(v) ==
    /\ pc[v] = "queue"
    /\ To(v, "read")
    /\ IF Len(send[v]) < SendCap
       THEN /\ send' = [send EXCEPT ![v] = Append(@, val[v])]
            /\ late' = IF val[v] = Current THEN late \ {v} ELSE late \cup {v}
       ELSE UNCHANGED <<send, late>>
    /\ UNCHANGED <<row, hub, broadcast, shown, current, val, rest, closes, events,
                   restarts, updates, crossed, unsaved>>

-----------------------------------------------------------------------------
(* The hub delivers to every viewer in its map; one whose Send is full is   *)
(* evicted, and has to connect again.                                      *)

Listeners == {v \in Viewers : pc[v] # "off"}

Slow == {v \in Listeners : Len(send[v]) = SendCap}

Deliver ==
    /\ broadcast # <<>>
    /\ broadcast' = Tail(broadcast)
    /\ send' = [v \in Viewers |->
                  IF v \in Listeners \ Slow THEN Append(send[v], Head(broadcast)) ELSE send[v]]
    /\ pc' = [s \in Sockets |-> IF s \in Slow THEN "off" ELSE pc[s]]
    /\ late' = late \ Listeners
    /\ UNCHANGED <<row, hub, shown, current, val, rest, closes, events, restarts,
                   updates, crossed, unsaved>>

\* writePump writes, and the browser's player follows.
Follow(v) ==
    /\ pc[v] # "off"
    /\ send[v] # <<>>
    /\ shown' = [shown EXCEPT ![v] = Head(send[v])]
    /\ send' = [send EXCEPT ![v] = Tail(@)]
    /\ UNCHANGED <<row, hub, broadcast, current, pc, val, rest, closes, events,
                   restarts, updates, late, crossed, unsaved>>

-----------------------------------------------------------------------------
(* The requests that write the row and leave the hub alone: Close, and     *)
(* Update, which saves the row it read, the player's columns too.          *)

\* It stops the player in the row.  Closing once more changes nothing here.
Close ==
    /\ events < MaxEvents
    /\ ~Ended
    /\ row' = events + 1
    /\ closes' = closes \cup {events + 1}
    /\ events' = events + 1
    /\ UNCHANGED <<hub, broadcast, send, shown, current, pc, val, rest, restarts,
                   updates, late, crossed, unsaved>>

UpdateFind ==
    /\ rest = {}
    /\ updates < MaxUpdates
    /\ updates' = updates + 1
    /\ rest' = {row}
    /\ UNCHANGED <<row, hub, broadcast, send, shown, current, pc, val, closes, events,
                   restarts, late, crossed, unsaved>>

UpdateSave ==
    /\ rest # {}
    /\ rest' = {}
    /\ \/ row' \in rest /\ unsaved' = (unsaved \/ rest # {row})
       \/ UNCHANGED <<row, unsaved>>
    /\ UNCHANGED <<hub, broadcast, send, shown, current, pc, val, closes, events,
                   restarts, updates, late, crossed>>

-----------------------------------------------------------------------------

HostStep(h) ==
    \/ HostJoins(h) \/ Leaves(h)
    \/ PlayerEvent(h) \/ SaveRow(h) \/ SetState(h) \/ EmitSync(h)
    \/ RefreshRead(h) \/ RefreshWrite(h)

ViewerStep(v) ==
    \/ ViewerJoins(v) \/ Leaves(v) \/ RequestSync(v)
    \/ SnapshotHub(v) \/ SnapshotRow(v) \/ SnapshotQueue(v) \/ Follow(v)

Next ==
    \/ \E h \in Hosts : HostStep(h)
    \/ \E v \in Viewers : ViewerStep(v)
    \/ Deliver
    \/ Restart
    \/ Close
    \/ UpdateFind
    \/ UpdateSave

Spec == Init /\ [][Next]_vars

-----------------------------------------------------------------------------
(* Properties.                                                             *)

TypeOK ==
    /\ row \in States
    /\ hub \in States
    /\ broadcast \in Seq(States)
    /\ send \in [Viewers -> Seq(States)]
    /\ \A v \in Viewers : Len(send[v]) <= SendCap
    /\ shown \in [Viewers -> States]
    /\ current \subseteq Hosts
    /\ pc \in [Sockets -> HostPC \cup ViewerPC]
    /\ val \in [Sockets -> States]
    /\ rest \subseteq States
    /\ closes \subseteq States
    /\ events \in States
    /\ restarts \in 0..MaxRestarts
    /\ updates \in 0..MaxUpdates
    /\ late \subseteq Viewers
    /\ crossed \in BOOLEAN
    /\ unsaved \in BOOLEAN

\* v has been told all that is on its way.
Settled(v) ==
    /\ pc[v] = "read"
    /\ send[v] = <<>>
    /\ broadcast = <<>>
    /\ \A h \in Hosts : ~InHandler(h)

\* Nobody tells the viewers of a Close: when the hub has no state any more, the row of
\* a closed room is all that is left, and only newcomers see it.
OnlyTheRowKnows == hub = 0 /\ (unsaved \/ Ended)

\* The handler sets the hub's state before it broadcasts the event, and a viewer is
\* in the hub's map before it reads that state: whoever joins, asks or is thrown out
\* at whatever moment ends up following the current event, unless its snapshot was
\* read before an event and queued after it, or not sent for want of a row (late), or
\* two tabs of the host raced.
ViewersConverge ==
    \A v \in Viewers :
        Settled(v) /\ v \notin late /\ ~crossed /\ ~OnlyTheRowKnows => shown[v] = Current

\* The row is written before the hub's state: what the room goes on from after
\* everybody left or the process restarted is the last event the viewers were sent, or
\* a Close that came after it, which stops the row and not the hub; unless the latest
\* Save failed or a stale one came after it, until the next, or two tabs raced.
RowKeepsUp ==
    (\A h \in Hosts : ~InHandler(h)) /\ ~unsaved /\ ~crossed /\ hub # 0 =>
        row = hub \/ (Ended /\ hub < row)

\* Nobody is sent an event that is neither in the row nor lost with a failed Save:
\* a viewer is never ahead of what a restart would bring back.
NothingUnsavedShown ==
    ~unsaved /\ ~crossed => \A v \in Viewers : shown[v] <= row

\* The events of s are in their order, whatever closed rows are between them.
Ascends(s) ==
    \A i, j \in 1..Len(s) : i <= j => s[i] <= s[j] \/ {s[i], s[j]} \cap closes # {}

\* What v shows, has yet to be written, and would be sent of the hub's queue.
Line(v) == <<shown[v]>> \o send[v] \o broadcast

\* The events get to a viewer in the order in which they happened, through the handler
\* and both queues, whoever leaves, is thrown out or comes back after a restart: what
\* makes a player jump back to an older event is a snapshot that was queued before or
\* after the events it crossed, or a race of two tabs.
OnlySnapshotsOvertake ==
    [][\A v \in Viewers :
          Ascends(Line(v)) /\ ~Ascends(Line(v))' => SnapshotQueue(v) \/ crossed]_vars

=============================================================================
