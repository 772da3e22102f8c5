----------------------------- MODULE WSHandler -----------------------------
(***************************************************************************)
(* The websocket endpoint (src/internal/handler/ws_handler.go) around the  *)
(* hub: every connection runs Serve, and then two goroutines, readPump and *)
(* writePump, that share the Client with the hub's loop.  Steps are cut    *)
(* where the code calls the hub, sends on a channel or reads the socket.   *)
(*                                                                         *)
(* A Client exists once the checks of Serve, the upgrade and the member    *)
(* upsert succeeded: what a refused request does is in RoomService.        *)
(*                                                                         *)
(* Tables are abstracted to the outcomes a handler can get from them: a    *)
(* room that is gone, ended or hosted by another user, and a failed write, *)
(* all leave the hub alone.  The rows themselves are in RoomService.       *)
(***************************************************************************)
EXTENDS Hub

CONSTANTS
    HostOf,         \* Room.HostID
    Events,         \* the kinds of event the browsers of this instance send
    Fragile,        \* bound: the sockets whose browser or network may go away
    MaxEvents       \* bound: events the readPumps dispatch, all together

EventKinds == {"chat", "startStop", "webrtc", "sync", "request"}

ASSUME WSHandlerAssumption ==
    /\ HostOf \in [Rooms -> Users]
    /\ Events \subseteq EventKinds
    /\ Fragile \subseteq Clients
    /\ MaxEvents \in Nat

VARIABLES
    serve,          \* where each Serve call is
    online,         \* the sockets RoomClients returned that Serve still has to present
    reader,         \* where each readPump is
    writer,         \* whether each writePump runs
    panicking,      \* readPumps that unwind through their deferred function
    dispatched,     \* the events dispatched so far, for the bound MaxEvents
    missed          \* history: sockets that Serve could not present everyone to

wsVars == <<serve, online, reader, writer, panicking, dispatched, missed>>

vars == <<hubVars, wsVars>>

ServePC == {"new", "roomClients", "presence", "snapshot", "done", "panicked"}

ReaderPC == {"off", "read", "emitAll", "emitOthers", "signal", "set", "refresh",
             "check", "unregister", "unregisterStale", "leave", "close", "done"}

WriterPC == {"off", "run", "done"}

Host(c) == HostOf[RoomOf[c]] = UserOf[c]

\* Mutant: writePump ends without closing the connection.
ConnClosed_ReaderOnly(c) == reader[c] = "done"

\* Client.Conn was closed by this process: by either pump as it ends.
ConnClosed(c) == reader[c] = "done" \/ writer[c] = "done"

\* A goroutine is inside a read of the room's map, under the read lock.
Reading(r) ==
    \E c \in Clients : RoomOf[c] = r /\ (serve[c] = "roomClients" \/ reader[c] = "check")

Init ==
    /\ HubInit
    /\ serve = [c \in Clients |-> "new"]
    /\ online = [c \in Clients |-> {}]
    /\ reader = [c \in Clients |-> "off"]
    /\ writer = [c \in Clients |-> "off"]
    /\ panicking = {}
    /\ dispatched = 0
    /\ missed = {}

-----------------------------------------------------------------------------
(* Serve.                                                                  *)

ServeTo(c, pc) == serve' = [serve EXCEPT ![c] = pc]

\* The last step of Serve: both pumps start.
StartPumps(c) ==
    /\ ServeTo(c, "done")
    /\ reader' = [reader EXCEPT ![c] = "read"]
    /\ writer' = [writer EXCEPT ![c] = "run"]

\* hub.Register(client), which follows its allocation.
ServeRegister(c) ==
    /\ serve[c] = "new"
    /\ Register(c)
    /\ ServeTo(c, "roomClients")
    /\ UNCHANGED <<rooms, playerStates, broadcast, targeted, queued, roster,
                   sendState, crashed, online, reader, writer, panicking, dispatched, missed>>

\* Mutant: the loop breaks at the user's own entry instead of skipping it.
ServeRoomClients_Break(c) ==
    /\ serve[c] = "roomClients"
    /\ \E before \in SUBSET {d \in RoomClients(RoomOf[c]) : UserOf[d] # UserOf[c]} :
          online' = [online EXCEPT ![c] = before]
    /\ ServeTo(c, "presence")
    /\ UNCHANGED <<hubVars, reader, writer, panicking, dispatched, missed>>

\* hub.RoomClients(roomCode), the user's own entry skipped.
ServeRoomClients(c) ==
    /\ serve[c] = "roomClients"
    /\ online' = [online EXCEPT ![c] =
                    {d \in RoomClients(RoomOf[c]) : UserOf[d] # UserOf[c]}]
    /\ ServeTo(c, "presence")
    /\ UNCHANGED <<hubVars, reader, writer, panicking, dispatched, missed>>

\* One member:join of the loop over the sockets online, dropped when Send is
\* full.  On a Send the hub has closed the send panics: gin recovers, Serve ends.
ServePresence(c, d) ==
    /\ serve[c] = "presence"
    /\ d \in online[c]
    /\ online' = [online EXCEPT ![c] = @ \ {d}]
    /\ \/ Closed(c) /\ ServeTo(c, "panicked") /\ UNCHANGED <<queued, roster, missed>>
       \/ /\ ~Closed(c)
          /\ queued[c] = SendCap
          /\ missed' = missed \cup {c}
          /\ UNCHANGED <<queued, roster, serve>>
       \/ /\ ~Closed(c)
          /\ queued[c] < SendCap
          /\ queued' = [queued EXCEPT ![c] = @ + 1]
          /\ roster' = [roster EXCEPT ![c] = Fold(@, "join", d)]
          /\ UNCHANGED <<serve, missed>>
    /\ UNCHANGED <<rooms, playerStates, broadcast, targeted, work, sendState, crashed,
                   reader, writer, panicking, dispatched>>

\* member:join of the new socket, to everyone else; a host is done with that.
ServeAnnounce(c) ==
    /\ serve[c] = "presence"
    /\ online[c] = {}
    /\ BroadcastToRoom(c, "join", UserOf[c])
    /\ IF Host(c) THEN StartPumps(c)
                  ELSE ServeTo(c, "snapshot") /\ UNCHANGED <<reader, writer>>
    /\ UNCHANGED <<rooms, playerStates, targeted, work, queued, roster, sendState,
                   crashed, online, panicking, dispatched, missed>>

\* sendPlayerSnapshotToClient: what it does to an open Send, which is nothing
\* when Send is full or when there is neither a player state nor a room row.
OfferSnapshot(c) ==
    /\ ~Closed(c)
    /\ \/ /\ queued[c] < SendCap
          /\ queued' = [queued EXCEPT ![c] = @ + 1]
       \/ /\ queued[c] = SendCap \/ RoomOf[c] \notin playerStates
          /\ UNCHANGED queued

ServeSnapshot(c) ==
    /\ serve[c] = "snapshot"
    /\ OfferSnapshot(c)
    /\ StartPumps(c)
    /\ UNCHANGED <<rooms, playerStates, broadcast, targeted, work, roster, sendState,
                   crashed, online, panicking, dispatched, missed>>

\* On a Send the hub has closed the snapshot panics, and gin recovers ...
ServeSnapshotPanics(c) ==
    /\ serve[c] = "snapshot"
    /\ Closed(c)
    /\ ServeTo(c, "panicked")
    /\ UNCHANGED <<hubVars, online, reader, writer, panicking, dispatched, missed>>

\* ... unless there is nothing to send.
ServeSnapshotSkipped(c) ==
    /\ serve[c] = "snapshot"
    /\ Closed(c)
    /\ RoomOf[c] \notin playerStates
    /\ StartPumps(c)
    /\ UNCHANGED <<hubVars, online, panicking, dispatched, missed>>

-----------------------------------------------------------------------------
(* readPump: ReadMessage, dispatchMessage and the handlers.                *)

ReaderTo(c, pc) == reader' = [reader EXCEPT ![c] = pc]

\* readPump has read an event of this kind and dispatches it.
Dispatch(c, kind) ==
    /\ reader[c] = "read"
    /\ kind \in Events
    /\ dispatched < MaxEvents
    /\ dispatched' = dispatched + 1

\* A handler that is about to broadcast: chat:send and the member moderation of
\* the host to everyone, webrtc start and stop to everyone else.
ReadEvent(c) ==
    /\ \/ Dispatch(c, "chat") /\ ReaderTo(c, "emitAll")
       \/ Dispatch(c, "startStop") /\ ReaderTo(c, "emitOthers")
       \/ Dispatch(c, "webrtc") /\ ReaderTo(c, "signal")
       \/ Dispatch(c, "sync") /\ Host(c) /\ ReaderTo(c, "set")
       \/ Dispatch(c, "request") /\ Host(c) /\ RoomOf[c] \in playerStates
             /\ ReaderTo(c, "refresh")
    /\ UNCHANGED <<hubVars, serve, online, writer, panicking, missed>>

\* player:request_sync of a member.
ReadRequest(c) ==
    /\ Dispatch(c, "request")
    /\ ~Host(c)
    /\ OfferSnapshot(c)
    /\ UNCHANGED <<rooms, playerStates, broadcast, targeted, work, roster, sendState,
                   crashed, serve, online, reader, writer, panicking, missed>>

\* The same after the hub closed Send: the panic runs the deferred function.
ReadRequestPanics(c) ==
    /\ Dispatch(c, "request")
    /\ ~Host(c)
    /\ Closed(c)
    /\ panicking' = panicking \cup {c}
    /\ ReaderTo(c, "check")
    /\ UNCHANGED <<hubVars, serve, online, writer, missed>>

\* The broadcast of a handler, which blocks while the hub's queue is full.
Emit(c) ==
    /\ \/ reader[c] = "emitAll" /\ BroadcastToRoom(c, "event", NoUser)
       \/ reader[c] = "emitOthers" /\ BroadcastToRoom(c, "event", UserOf[c])
    /\ ReaderTo(c, "read")
    /\ UNCHANGED <<rooms, playerStates, targeted, work, queued, roster, sendState,
                   crashed, serve, online, writer, panicking, dispatched, missed>>

\* handleWebRTC: SendToUser, to a target the payload names.
Signal(c, u) ==
    /\ reader[c] = "signal"
    /\ SendToUser(c, u)
    /\ ReaderTo(c, "read")
    /\ UNCHANGED <<rooms, playerStates, broadcast, work, queued, roster, sendState,
                   crashed, serve, online, writer, panicking, dispatched, missed>>

\* handlePlayerSync writes the state and then broadcasts; the host's
\* player:request_sync writes back the state it read.
SetState(c) ==
    /\ SetPlayerState(RoomOf[c])
    /\ \/ reader[c] = "set" /\ ReaderTo(c, "emitOthers")
       \/ reader[c] = "refresh" /\ ReaderTo(c, "read")
    /\ UNCHANGED <<rooms, broadcast, targeted, work, queued, roster, sendState,
                   crashed, serve, online, writer, panicking, dispatched, missed>>

-----------------------------------------------------------------------------
(* The end of readPump: its deferred function.                             *)

\* ReadMessage fails: the browser is gone, the 70 s deadline passed without a
\* pong, or this process closed the connection.
ReadError(c) ==
    /\ reader[c] = "read"
    /\ c \in Fragile \/ ConnClosed(c)
    /\ ReaderTo(c, "check")
    /\ UNCHANGED <<hubVars, serve, online, writer, panicking, dispatched, missed>>

\* isCurrentSocket := h.hub.IsCurrent(client)
Check(c) ==
    /\ reader[c] = "check"
    /\ ReaderTo(c, IF IsCurrent(c) THEN "unregister" ELSE "unregisterStale")
    /\ UNCHANGED <<hubVars, serve, online, writer, panicking, dispatched, missed>>

\* Mutant: only a socket found to be the current one is unregistered.
ReaderUnregister_OnlyCurrent(c) ==
    /\ \/ reader[c] = "unregister" /\ ReaderTo(c, "leave") /\ Unregister(c)
       \/ reader[c] = "unregisterStale" /\ ReaderTo(c, "close") /\ UNCHANGED work
    /\ UNCHANGED <<rooms, playerStates, broadcast, targeted, queued, roster, sendState,
                   crashed, serve, online, writer, panicking, dispatched, missed>>

\* Mutant: the leave is broadcast before the socket is unregistered.
ReaderUnregister_LeaveFirst(c) ==
    /\ \/ /\ reader[c] = "unregister"
          /\ ReaderTo(c, "unregisterStale")
          /\ BroadcastToRoom(c, "leave", NoUser)
          /\ UNCHANGED work
       \/ /\ reader[c] = "unregisterStale"
          /\ ReaderTo(c, "close")
          /\ Unregister(c)
          /\ UNCHANGED broadcast
    /\ UNCHANGED <<rooms, playerStates, targeted, queued, roster, sendState,
                   crashed, serve, online, writer, panicking, dispatched, missed>>

\* h.hub.Unregister(client)
ReaderUnregister(c) ==
    /\ \/ reader[c] = "unregister" /\ ReaderTo(c, "leave")
       \/ reader[c] = "unregisterStale" /\ ReaderTo(c, "close")
    /\ Unregister(c)
    /\ UNCHANGED <<rooms, playerStates, broadcast, targeted, queued, roster, sendState,
                   crashed, serve, online, writer, panicking, dispatched, missed>>

\* member:leave, of a socket that was current when it was checked.
Leave(c) ==
    /\ reader[c] = "leave"
    /\ BroadcastToRoom(c, "leave", NoUser)
    /\ ReaderTo(c, "close")
    /\ UNCHANGED <<rooms, playerStates, targeted, work, queued, roster, sendState,
                   crashed, serve, online, writer, panicking, dispatched, missed>>

\* client.Conn.Close(); a panic goes on from here and ends the process.
CloseConn(c) ==
    /\ reader[c] = "close"
    /\ ReaderTo(c, "done")
    /\ crashed' = (c \in panicking)
    /\ UNCHANGED <<rooms, playerStates, broadcast, targeted, work, queued, roster,
                   sendState, serve, online, writer, panicking, dispatched, missed>>

-----------------------------------------------------------------------------
(* writePump.                                                              *)

Write(c) ==
    /\ writer[c] = "run"
    /\ queued[c] > 0
    /\ queued' = [queued EXCEPT ![c] = @ - 1]
    /\ UNCHANGED <<rooms, playerStates, broadcast, targeted, work, roster, sendState,
                   crashed, wsVars>>

\* Send is closed and drained, or a write or a ping fails.
WriterEnds(c) ==
    /\ writer[c] = "run"
    /\ \/ Closed(c) /\ queued[c] = 0
       \/ c \in Fragile \/ ConnClosed(c)
    /\ writer' = [writer EXCEPT ![c] = "done"]
    /\ UNCHANGED <<hubVars, serve, online, reader, panicking, dispatched, missed>>

-----------------------------------------------------------------------------

HubStep ==
    /\ \/ \E c \in Clients : \/ HandleRegister(c)
                             \/ HandleUnregister(c)
                             \/ HandleUnregisterStale(c)
       \/ ReceiveBroadcast
       \/ ReceiveTargeted
       \/ \E w \in work : Deliver(w) \/ EvictSlow(w, Reading(RoomOf[w.client]))
    /\ UNCHANGED wsVars

ServeStep(c) ==
    \/ ServeRegister(c)
    \/ ServeRoomClients(c)
    \/ \E d \in Clients : ServePresence(c, d)
    \/ ServeAnnounce(c)
    \/ ServeSnapshot(c)
    \/ ServeSnapshotPanics(c)
    \/ ServeSnapshotSkipped(c)

HandlerStep(c) ==
    \/ ReadEvent(c)
    \/ ReadRequest(c)
    \/ ReadRequestPanics(c)
    \/ Emit(c)
    \/ \E u \in Users : Signal(c, u)
    \/ SetState(c)

TeardownStep(c) ==
    \/ ReadError(c)
    \/ Check(c)
    \/ ReaderUnregister(c)
    \/ Leave(c)
    \/ CloseConn(c)

WriterStep(c) == Write(c) \/ WriterEnds(c)

\* Nothing is under way: no message in the hub's channels or in a Send that is
\* read, no Serve call, no handler; the sockets that are open wait for input.
Quiet ==
    /\ AtSelect
    /\ broadcast = <<>>
    /\ targeted = <<>>
    /\ \A c \in Clients :
          /\ serve[c] \in {"new", "panicked", "done"}
          /\ reader[c] \in {"off", "read", "done"}
          /\ writer[c] = "run" => queued[c] = 0

\* A process that crashed takes no step; one that is quiet may have none left.
Halt == (crashed \/ Quiet) /\ UNCHANGED vars

Step ==
    /\ ~crashed
    /\ \/ HubStep
       \/ \E c \in Clients : \/ ServeStep(c)
                             \/ HandlerStep(c)
                             \/ TeardownStep(c)
                             \/ WriterStep(c)

Next == Step \/ Halt

Spec == Init /\ [][Next]_vars

-----------------------------------------------------------------------------
(* Fairness.                                                               *)

\* Run is a loop that never blocks outside its select.
HubProgress == ~crashed /\ HubStep

\* Serve, once it has a Client, and a handler run to their end.
ServeProgress(c) == ~crashed /\ serve[c] # "new" /\ ServeStep(c)

ReaderProgress(c) ==
    /\ ~crashed
    /\ \/ Emit(c) \/ \E u \in Users : Signal(c, u) \/ SetState(c)
       \/ Check(c) \/ ReaderUnregister(c) \/ Leave(c) \/ CloseConn(c)

\* A write returns, or the 70 s read deadline passes and ends readPump, which
\* closes the connection under the write; both pumps notice a closed connection.
PumpProgress(c) ==
    /\ ~crashed
    /\ queued[c] > 0 \/ Closed(c) \/ ConnClosed(c)
    /\ WriterStep(c) \/ ReadError(c)

Fairness ==
    /\ WF_vars(HubProgress)
    /\ \A c \in Clients : /\ WF_vars(ServeProgress(c))
                          /\ WF_vars(ReaderProgress(c))
                          /\ WF_vars(PumpProgress(c))

FairSpec == Spec /\ Fairness

-----------------------------------------------------------------------------
(* Properties.                                                             *)

TypeOK ==
    /\ HubTypeOK
    /\ serve \in [Clients -> ServePC]
    /\ online \in [Clients -> SUBSET Clients]
    /\ reader \in [Clients -> ReaderPC]
    /\ writer \in [Clients -> WriterPC]
    /\ panicking \subseteq Clients
    /\ dispatched \in 0..MaxEvents
    /\ missed \subseteq Clients

\* The hub's loop never sends on or closes a Send that is closed already, which
\* would panic in a goroutine nothing recovers: what is registered or is being
\* delivered to is open, and a socket the loop is about to register is open too.
RegisteredOpen ==
    /\ \A c \in Clients : IsCurrent(c) => ~Closed(c)
    /\ \A w \in work : w.op \in {"deliver", "register"} => ~Closed(w.client)

\* The loop has received c's registration and not applied it.
Registering(c) == [op |-> "register", client |-> c] \in work

\* No socket stays registered after its readPump is past hub.Unregister, nor
\* when Serve died before it started the pump, although readPump may judge the
\* socket stale before the loop has registered it: somebody will unregister it.
NoOrphan ==
    \A c \in Clients : IsCurrent(c) \/ Registering(c) =>
        \/ serve[c] \in {"roomClients", "presence", "snapshot"}
        \/ reader[c] \in ReaderPC \ {"off", "leave", "close", "done"}
        \/ [op |-> "unregister", client |-> c] \in work

\* The process dies only after the hub evicted a slow socket: closing Send under
\* the feet of its own goroutines, or deleting under the read lock, is the only
\* way that the endpoint crashes.
CrashOnlyAfterEviction ==
    crashed => \E c \in Clients : sendState[c] = "evicted"

\* Another socket of c's user got to the hub for the same room.
HasRival(c) ==
    \E d \in Clients \ {c} :
        UserOf[d] = UserOf[c] /\ RoomOf[d] = RoomOf[c] /\ serve[d] # "new"

\* The player state of a room goes with the last socket of the room; it outlives
\* it only after an eviction, or when the host was there with two sockets.
PlayerStateHasAudience ==
    \A r \in playerStates :
        \/ RoomClients(r) # {}
        \/ \E c \in Clients :
              /\ RoomOf[c] = r
              /\ \/ Registering(c)
                 \/ sendState[c] = "evicted"
                 \/ Host(c) /\ serve[c] # "new" /\ HasRival(c)

\* Serve presents the sockets it finds only after it registered its own, so two
\* users whose joins cross still learn of each other: once all is quiet, a socket
\* shows every user online, unless its own Send was full at the time or that user
\* reconnected (see StaleSocketSilent).
PresenceComplete ==
    Quiet /\ ~crashed =>
        \A c, d \in Clients :
            /\ IsCurrent(c) /\ IsCurrent(d)
            /\ RoomOf[c] = RoomOf[d] /\ UserOf[c] # UserOf[d]
            /\ c \notin missed
            /\ ~HasRival(d)
            => UserOf[d] \in roster[c]

\* A member:leave reaches browsers only when the socket it is about is out of the
\* hub's map, although readPump runs ahead of the unregistration.
LeaveAfterRemoval ==
    \A w \in work : w.op = "deliver" /\ w.kind = "leave" => ~IsCurrent(w.from)

\* Comment in readPump: "If user already reconnected, don't mark member offline
\* from stale socket": a socket announces the leave only while no newer socket of
\* its user is registered.
StaleSocketSilent ==
    [][\A c \in Clients : reader[c] = "leave" /\ reader'[c] = "close" =>
          rooms[RoomOf[c]][UserOf[c]] \in {c, NoClient}]_vars

\* The hub implements the registry of sockets.
SocketStatus ==
    [c \in Clients |->
        IF IsCurrent(c) THEN "current"
        ELSE IF Closed(c) THEN "gone"
        ELSE IF serve[c] = "new" \/ Registering(c) THEN "new"
        ELSE "superseded"]

Registry == INSTANCE SocketRegistry WITH status <- SocketStatus

RegistrySpec == Registry!Spec

\* A connection this process closed is unregistered and both pumps end, and so
\* does a socket the hub evicted after its pumps started.
TornDown(c) == ~IsCurrent(c) /\ reader[c] = "done" /\ writer[c] = "done"

ClosedSocketTornDown ==
    \A c \in Clients :
        ConnClosed(c) \/ (Closed(c) /\ serve[c] = "done") ~> TornDown(c) \/ crashed

\* A goroutine blocked on one of the hub's channels is released.
Blocked(c) ==
    \/ serve[c] = "presence" /\ online[c] = {}
    \/ reader[c] \in {"emitAll", "emitOthers", "signal", "unregister",
                      "unregisterStale", "leave"}

BlockedSenderReleased ==
    \A c \in Clients : Blocked(c) ~> ~Blocked(c) \/ crashed

=============================================================================
