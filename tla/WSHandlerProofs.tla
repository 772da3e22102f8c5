--------------------------- MODULE WSHandlerProofs ---------------------------
(***************************************************************************)
(* Theorems about WSHandler for every set of sockets, users and rooms and  *)
(* every capacity: the type invariant, the safety of the hub's map and of  *)
(* the sockets' Send channels, who has a player state and who knows of     *)
(* whom, and that the hub implements SocketRegistry.                       *)
(***************************************************************************)
EXTENDS WSHandler, TLAPS

-----------------------------------------------------------------------------
(* The inductive invariant.                                                *)

Unregistering(c) == [op |-> "unregister", client |-> c] \in work

Left(c) == reader[c] \in {"leave", "close", "done"}

\* A socket is in the map under its own room and user.
PlaceOK ==
    \A r \in Rooms, u \in Users :
        rooms[r][u] # NoClient => RoomOf[rooms[r][u]] = r /\ UserOf[rooms[r][u]] = u

\* The loop is busy with one registration, or with one message to sockets that
\* are all registered, each once.
WorkOK ==
    /\ \A w \in work : w.op # "deliver" => work = {w}
    /\ \A v, w \in work : v.client = w.client => v = w
    /\ \A w \in work : w.op = "deliver" => IsCurrent(w.client)

\* The life of a socket: new, then once in the map, then closed and out of it.
LifeOK ==
    \A c \in Clients :
        /\ serve[c] = "new" => /\ ~IsCurrent(c)
                               /\ ~Registering(c)
                               /\ sendState[c] = "open"
        /\ reader[c] # "off" => serve[c] = "done"
        /\ Registering(c) => ~IsCurrent(c)
        /\ Closed(c) => ~IsCurrent(c) /\ ~Registering(c)
        /\ Unregistering(c) \/ sendState[c] = "unregistered" => Left(c)
        /\ c \in panicking => sendState[c] = "evicted"

\* A leave is announced by a readPump past its Unregister.
LeaveOK ==
    /\ \A i \in 1..Len(broadcast) :
          broadcast[i].kind = "leave" => reader[broadcast[i].from] \in {"close", "done"}
    /\ \A w \in work :
          w.op = "deliver" /\ w.kind = "leave" => reader[w.from] \in {"close", "done"}

IInv ==
    /\ PlaceOK
    /\ WorkOK
    /\ LifeOK
    /\ LeaveOK
    /\ NoOrphan
    /\ CrashOnlyAfterEviction

-----------------------------------------------------------------------------
(* Type correctness.                                                       *)

USE HubAssumption, WSHandlerAssumption

\* The items the loop works on.
LEMMA WorkFields ==
  ASSUME NEW w \in Work
  PROVE  /\ w.op \in {"register", "unregister", "deliver"}
         /\ w.client \in Clients
         /\ w.op = "deliver" => w.kind \in Kinds /\ w.from \in Clients
BY DEF Work, Registration, Delivery

LEMMA WorkItems ==
  ASSUME NEW c \in Clients, NEW k \in Kinds, NEW f \in Clients
  PROVE  /\ [op |-> "register", client |-> c] \in Work
         /\ [op |-> "unregister", client |-> c] \in Work
         /\ [op |-> "deliver", client |-> c, kind |-> k, from |-> f] \in Work
BY DEF Work, Registration, Delivery

\* A broadcast keeps the queue a queue of messages, within its capacity.
LEMMA BroadcastType ==
  ASSUME HubTypeOK, NEW c \in Clients, NEW k \in Kinds,
         NEW x \in Users \cup {NoUser}, BroadcastToRoom(c, k, x)
  PROVE  broadcast' \in Seq(BroadcastMessage) /\ Len(broadcast') <= BroadcastCap
<1> DEFINE m == [kind |-> k, from |-> c, exclude |-> x]
<1>1. m \in BroadcastMessage
  BY DEF BroadcastMessage
<1>2. broadcast \in Seq(BroadcastMessage) /\ Len(broadcast) \in Nat
  BY DEF HubTypeOK
<1>3. broadcast' = Append(broadcast, m) /\ Len(broadcast) < BroadcastCap
  BY DEF BroadcastToRoom
<1> HIDE DEF m
<1> QED
  BY <1>1, <1>2, <1>3

LEMMA TargetedType ==
  ASSUME HubTypeOK, NEW c \in Clients, NEW u \in Users, SendToUser(c, u)
  PROVE  targeted' \in Seq(TargetedMessage) /\ Len(targeted') <= TargetedCap
<1> DEFINE m == [from |-> c, target |-> u]
<1>1. m \in TargetedMessage
  BY DEF TargetedMessage
<1>2. targeted \in Seq(TargetedMessage) /\ Len(targeted) \in Nat
  BY DEF HubTypeOK
<1>3. targeted' = Append(targeted, m) /\ Len(targeted) < TargetedCap
  BY DEF SendToUser
<1> HIDE DEF m
<1> QED
  BY <1>1, <1>2, <1>3

LEMMA QueueType ==
  ASSUME NEW q \in [Clients -> 0..SendCap], NEW c \in Clients, q[c] < SendCap
  PROVE  [q EXCEPT ![c] = @ + 1] \in [Clients -> 0..SendCap]
<1>1. q[c] + 1 \in 0..SendCap
  OBVIOUS
<1> QED
  BY <1>1

LEMMA OfferType ==
  ASSUME HubTypeOK, NEW c \in Clients, OfferSnapshot(c)
  PROVE  queued' \in [Clients -> 0..SendCap]
<1>1. queued \in [Clients -> 0..SendCap]
  BY DEF HubTypeOK
<1> QED
  BY <1>1, QueueType DEF OfferSnapshot

LEMMA FoldType ==
  ASSUME NEW shown \in SUBSET Users, NEW kind, NEW from \in Clients
  PROVE  Fold(shown, kind, from) \in SUBSET Users
BY DEF Fold

\* What a broadcast or a targeted message is turned into.
LEMMA ReceiveType ==
  ASSUME HubTypeOK, ReceiveBroadcast \/ ReceiveTargeted
  PROVE  HubTypeOK'
<1>1. CASE ReceiveBroadcast
  <2> DEFINE m == Head(broadcast)
  <2>1. /\ m \in BroadcastMessage
        /\ Tail(broadcast) \in Seq(BroadcastMessage)
        /\ Len(Tail(broadcast)) <= BroadcastCap
    BY <1>1 DEF HubTypeOK, ReceiveBroadcast
  <2>2. m.kind \in Kinds /\ m.from \in Clients
    BY <2>1 DEF BroadcastMessage
  <2> HIDE DEF m
  <2>3. RoomClients(RoomOf[m.from]) \subseteq Clients
    BY <2>2 DEF RoomClients, HubTypeOK
  <2>4. work' \subseteq Work
    <3> SUFFICES ASSUME NEW w \in work'
                 PROVE  w \in Work
      OBVIOUS
    <3>1. PICK c \in RoomClients(RoomOf[m.from]) :
              w = [op |-> "deliver", client |-> c, kind |-> m.kind, from |-> m.from]
      BY <1>1 DEF ReceiveBroadcast, m
    <3> QED
      BY <3>1, <2>2, <2>3, WorkItems
  <2> QED
    BY <1>1, <2>1, <2>4 DEF ReceiveBroadcast, HubTypeOK
<1>2. CASE ReceiveTargeted
  <2> DEFINE m == Head(targeted)
  <2>1. /\ m \in TargetedMessage
        /\ Tail(targeted) \in Seq(TargetedMessage)
        /\ Len(Tail(targeted)) <= TargetedCap
    BY <1>2 DEF HubTypeOK, ReceiveTargeted
  <2>2. m.from \in Clients /\ m.target \in Users
    BY <2>1 DEF TargetedMessage
  <2> HIDE DEF m
  <2>3. rooms[RoomOf[m.from]][m.target] \in Clients \cup {NoClient}
    BY <2>2 DEF HubTypeOK
  <2>4. work' \subseteq Work
    <3> SUFFICES ASSUME NEW w \in work'
                 PROVE  w \in Work
      OBVIOUS
    <3>1. PICK c \in Clients :
              w = [op |-> "deliver", client |-> c, kind |-> "event", from |-> m.from]
      BY <1>2, <2>3 DEF ReceiveTargeted, m
    <3>2. "event" \in Kinds
      BY DEF Kinds
    <3> QED
      BY <3>1, <3>2, <2>2, WorkItems
  <2> QED
    BY <1>2, <2>1, <2>4 DEF ReceiveTargeted, HubTypeOK
<1> QED
  BY <1>1, <1>2

THEOREM TypeCorrect == Spec => []TypeOK
<1>1. Init => TypeOK
  <2> SUFFICES ASSUME Init
               PROVE  TypeOK
    OBVIOUS
  <2>1. HubTypeOK
    <3>1. <<>> \in Seq(BroadcastMessage) /\ <<>> \in Seq(TargetedMessage) /\ Len(<<>>) = 0
      OBVIOUS
    <3>2. rooms \in [Rooms -> [Users -> Clients \cup {NoClient}]]
      BY DEF Init, HubInit
    <3>3. queued \in [Clients -> 0..SendCap]
      BY DEF Init, HubInit
    <3>4. /\ broadcast \in Seq(BroadcastMessage) /\ Len(broadcast) <= BroadcastCap
          /\ targeted \in Seq(TargetedMessage) /\ Len(targeted) <= TargetedCap
      BY <3>1 DEF Init, HubInit
    <3> QED
      BY <3>2, <3>3, <3>4 DEF Init, HubInit, HubTypeOK
  <2> QED
    BY <2>1 DEF Init, TypeOK, ServePC, ReaderPC, WriterPC
<1>2. TypeOK /\ [Next]_vars => TypeOK'
  <2> SUFFICES ASSUME TypeOK, [Next]_vars
               PROVE  TypeOK'
    OBVIOUS
  <2> USE DEF TypeOK, HubTypeOK
  <2>1. ASSUME NEW c \in Clients, HandleRegister(c), UNCHANGED wsVars
        PROVE  TypeOK'
    BY <2>1 DEF HandleRegister, wsVars
  <2>2. ASSUME NEW c \in Clients, HandleUnregister(c), UNCHANGED wsVars
        PROVE  TypeOK'
    BY <2>2 DEF HandleUnregister, Closed, wsVars
  <2>3. ASSUME NEW c \in Clients, HandleUnregisterStale(c), UNCHANGED wsVars
        PROVE  TypeOK'
    BY <2>3 DEF HandleUnregisterStale, wsVars
  <2>4. ASSUME ReceiveBroadcast, UNCHANGED wsVars
        PROVE  TypeOK'
    BY <2>4, ReceiveType DEF wsVars
  <2>5. ASSUME ReceiveTargeted, UNCHANGED wsVars
        PROVE  TypeOK'
    BY <2>5, ReceiveType DEF wsVars
  <2>6. ASSUME NEW w \in work, Deliver(w), UNCHANGED wsVars
        PROVE  TypeOK'
    <3>1. w.client \in Clients /\ w.from \in Clients
      BY <2>6, WorkFields DEF Deliver
    <3>2. Fold(roster[w.client], w.kind, w.from) \in SUBSET Users
      BY <3>1, FoldType
    <3> QED
      BY <2>6, <3>1, <3>2 DEF Deliver, Enqueue, Closed, wsVars
  <2>7. ASSUME NEW w \in work, EvictSlow(w, Reading(RoomOf[w.client])), UNCHANGED wsVars
        PROVE  TypeOK'
    <3>1. w.client \in Clients
      BY <2>7, WorkFields DEF EvictSlow
    <3> QED
      BY <2>7, <3>1 DEF EvictSlow, wsVars
  <2>8. ASSUME NEW c \in Clients, ServeStep(c)
        PROVE  TypeOK'
    <3> USE DEF ServeTo, ServePC, StartPumps, ReaderPC, WriterPC
    <3>1. CASE ServeRegister(c)
      <4>1. [op |-> "register", client |-> c] \in Work
        BY WorkItems DEF Kinds
      <4> QED
        BY <3>1, <4>1 DEF ServeRegister, Register
    <3>2. CASE ServeRoomClients(c)
      BY <3>2 DEF ServeRoomClients, RoomClients, hubVars
    <3>3. ASSUME NEW d \in Clients, ServePresence(c, d)
          PROVE  TypeOK'
      <4>1. Fold(roster[c], "join", d) \in SUBSET Users
        BY FoldType
      <4>2. queued' \in [Clients -> 0..SendCap]
        BY <3>3, QueueType DEF ServePresence
      <4>3. roster' \in [Clients -> SUBSET Users]
        BY <3>3, <4>1 DEF ServePresence
      <4>4. /\ serve' \in [Clients -> ServePC]
            /\ online' \in [Clients -> SUBSET Clients]
            /\ missed' \subseteq Clients
        BY <3>3 DEF ServePresence
      <4> QED
        BY <3>3, <4>2, <4>3, <4>4 DEF ServePresence
    <3>4. CASE ServeAnnounce(c)
      <4>1. broadcast' \in Seq(BroadcastMessage) /\ Len(broadcast') <= BroadcastCap
        <5>1. "join" \in Kinds /\ UserOf[c] \in Users \cup {NoUser}
          BY DEF Kinds
        <5> QED
          BY <3>4, <5>1, BroadcastType DEF ServeAnnounce
      <4> QED
        BY <3>4, <4>1 DEF ServeAnnounce
    <3>5. CASE ServeSnapshot(c)
      <4>1. queued' \in [Clients -> 0..SendCap]
        BY <3>5, OfferType DEF ServeSnapshot
      <4> QED
        BY <3>5, <4>1 DEF ServeSnapshot
    <3>6. CASE ServeSnapshotPanics(c)
      BY <3>6 DEF ServeSnapshotPanics, hubVars
    <3>7. CASE ServeSnapshotSkipped(c)
      BY <3>7 DEF ServeSnapshotSkipped, hubVars
    <3> QED
      BY <2>8, <3>1, <3>2, <3>3, <3>4, <3>5, <3>6, <3>7 DEF ServeStep
  <2>9. ASSUME NEW c \in Clients, HandlerStep(c)
        PROVE  TypeOK'
    <3> USE DEF ReaderTo, ReaderPC
    <3>1. CASE ReadEvent(c)
      <4>1. dispatched' \in 0..MaxEvents
        BY <3>1 DEF ReadEvent, Dispatch
      <4>2. reader' \in [Clients -> ReaderPC]
        BY <3>1 DEF ReadEvent
      <4> QED
        BY <3>1, <4>1, <4>2 DEF ReadEvent, hubVars
    <3>2. CASE ReadRequest(c)
      <4>1. dispatched' \in 0..MaxEvents
        BY <3>2 DEF ReadRequest, Dispatch
      <4>2. queued' \in [Clients -> 0..SendCap]
        BY <3>2, OfferType DEF ReadRequest
      <4> QED
        BY <3>2, <4>1, <4>2 DEF ReadRequest
    <3>3. CASE ReadRequestPanics(c)
      BY <3>3 DEF ReadRequestPanics, Dispatch, hubVars
    <3>4. CASE Emit(c)
      <4>1. broadcast' \in Seq(BroadcastMessage) /\ Len(broadcast') <= BroadcastCap
        <5>1. "event" \in Kinds /\ {NoUser, UserOf[c]} \subseteq Users \cup {NoUser}
          BY DEF Kinds
        <5> QED
          BY <3>4, <5>1, BroadcastType DEF Emit
      <4> QED
        BY <3>4, <4>1 DEF Emit
    <3>5. ASSUME NEW u \in Users, Signal(c, u)
          PROVE  TypeOK'
      BY <3>5, TargetedType DEF Signal
    <3>6. CASE SetState(c)
      BY <3>6 DEF SetState, SetPlayerState
    <3> QED
      BY <2>9, <3>1, <3>2, <3>3, <3>4, <3>5, <3>6 DEF HandlerStep
  <2>10. ASSUME NEW c \in Clients, TeardownStep(c)
         PROVE  TypeOK'
    <3> USE DEF ReaderTo, ReaderPC
    <3>1. CASE ReadError(c)
      BY <3>1 DEF ReadError, hubVars
    <3>2. CASE Check(c)
      BY <3>2 DEF Check, hubVars
    <3>3. CASE ReaderUnregister(c)
      <4>1. [op |-> "unregister", client |-> c] \in Work
        BY WorkItems DEF Kinds
      <4> QED
        BY <3>3, <4>1 DEF ReaderUnregister, Unregister
    <3>4. CASE Leave(c)
      <4>1. broadcast' \in Seq(BroadcastMessage) /\ Len(broadcast') <= BroadcastCap
        <5>1. "leave" \in Kinds /\ NoUser \in Users \cup {NoUser}
          BY DEF Kinds
        <5> QED
          BY <3>4, <5>1, BroadcastType DEF Leave
      <4> QED
        BY <3>4, <4>1 DEF Leave
    <3>5. CASE CloseConn(c)
      BY <3>5 DEF CloseConn
    <3> QED
      BY <2>10, <3>1, <3>2, <3>3, <3>4, <3>5 DEF TeardownStep
  <2>11. ASSUME NEW c \in Clients, WriterStep(c)
         PROVE  TypeOK'
    <3>1. CASE Write(c)
      BY <3>1 DEF Write, wsVars
    <3>2. CASE WriterEnds(c)
      BY <3>2 DEF WriterEnds, WriterPC, hubVars
    <3> QED
      BY <2>11, <3>1, <3>2 DEF WriterStep
  <2>12. CASE UNCHANGED vars
    BY <2>12 DEF vars, hubVars, wsVars
  <2> QED
    BY <2>1, <2>2, <2>3, <2>4, <2>5, <2>6, <2>7, <2>8, <2>9, <2>10, <2>11, <2>12
    DEF Next, Step, Halt, HubStep
<1>. QED
  BY <1>1, <1>2, PTL DEF Spec

-----------------------------------------------------------------------------
(* The hub's map and the sockets' life.                                    *)

\* PlaceOK and WorkOK speak of the map and of the loop's work alone.
LEMMA MapFrame ==
  ASSUME PlaceOK, WorkOK, UNCHANGED <<rooms, work>>
  PROVE  PlaceOK' /\ WorkOK'
BY DEF PlaceOK, WorkOK, IsCurrent

LEMMA QueuedMessage ==
  ASSUME HubTypeOK, NEW i \in 1..Len(broadcast)
  PROVE  broadcast[i].from \in Clients /\ broadcast[i].kind \in Kinds
<1>1. broadcast \in Seq(BroadcastMessage)
  BY DEF HubTypeOK
<1>2. broadcast[i] \in BroadcastMessage
  BY <1>1
<1> QED
  BY <1>2 DEF BroadcastMessage

LEMMA InitIInv == Init => IInv
<1> SUFFICES ASSUME Init
             PROVE  IInv
  OBVIOUS
<1>1. /\ \A c \in Clients : ~IsCurrent(c)
      /\ work = {} /\ broadcast = <<>> /\ ~crashed /\ panicking = {}
      /\ \A c \in Clients : serve[c] = "new" /\ reader[c] = "off" /\ sendState[c] = "open"
      /\ \A r \in Rooms, u \in Users : rooms[r][u] = NoClient
  BY DEF Init, HubInit, IsCurrent
<1> QED
  BY <1>1 DEF IInv, PlaceOK, WorkOK, LifeOK, LeaveOK, NoOrphan, CrashOnlyAfterEviction,
              Registering, Unregistering, Closed, Left

\* The steps of the sockets' goroutines that leave the map and the loop alone.
LEMMA SocketSteps ==
  ASSUME TypeOK, IInv, ~crashed, NEW c \in Clients,
         \/ ServeRoomClients(c)
         \/ \E d \in Clients : ServePresence(c, d)
         \/ ServeAnnounce(c)
         \/ ServeSnapshot(c)
         \/ ServeSnapshotPanics(c)
         \/ ServeSnapshotSkipped(c)
         \/ HandlerStep(c)
         \/ ReadError(c)
         \/ Check(c)
         \/ Leave(c)
         \/ CloseConn(c)
         \/ WriterStep(c)
  PROVE  IInv'
<1> USE DEF TypeOK, HubTypeOK, IInv
<1>1. UNCHANGED <<rooms, work, sendState>>
  BY DEF ServeRoomClients, ServePresence, ServeAnnounce, ServeSnapshot,
         ServeSnapshotPanics, ServeSnapshotSkipped, HandlerStep, ReadEvent, ReadRequest,
         ReadRequestPanics, Emit, Signal, SetState, ReadError, Check, Leave, CloseConn,
         WriterStep, Write, WriterEnds, hubVars, wsVars
<1>2. PlaceOK' /\ WorkOK'
  BY <1>1, MapFrame
<1>3. \A d \in Clients : /\ IsCurrent(d)' <=> IsCurrent(d)
                         /\ Registering(d)' <=> Registering(d)
                         /\ Unregistering(d)' <=> Unregistering(d)
                         /\ Closed(d)' <=> Closed(d)
  BY <1>1 DEF IsCurrent, Registering, Unregistering, Closed
<1> DEFINE Serving == {"roomClients", "presence", "snapshot"}
           Reading0 == ReaderPC \ {"off", "leave", "close", "done"}
<1>4. \A d \in Clients \ {c} : serve'[d] = serve[d] /\ reader'[d] = reader[d]
  BY DEF ServeRoomClients, ServePresence, ServeAnnounce, ServeSnapshot,
         ServeSnapshotPanics, ServeSnapshotSkipped, HandlerStep, ReadEvent, ReadRequest,
         ReadRequestPanics, Emit, Signal, SetState, ReadError, Check, Leave, CloseConn,
         WriterStep, Write, WriterEnds, wsVars, StartPumps, ServeTo, ReaderTo
\* The possible moves of c's own program counters.
<1>5. \/ serve'[c] = serve[c] /\ reader'[c] = reader[c]
      \/ /\ serve[c] \in Serving
         /\ \/ serve'[c] \in Serving /\ reader'[c] = reader[c]
            \/ serve'[c] = "panicked" /\ reader'[c] = reader[c] /\ Closed(c)
            \/ serve'[c] = "done" /\ reader'[c] = "read"
      \/ /\ serve'[c] = serve[c]
         /\ reader[c] # "off"
         /\ \/ reader[c] \in Reading0 /\ reader'[c] \in Reading0
            \/ Left(c) /\ reader'[c] \in {"close", "done"}
  <2>1. CASE \/ ServeRoomClients(c)
             \/ \E d \in Clients : ServePresence(c, d)
             \/ ServeAnnounce(c)
             \/ ServeSnapshot(c)
             \/ ServeSnapshotPanics(c)
             \/ ServeSnapshotSkipped(c)
    BY <2>1 DEF ServeRoomClients, ServePresence, ServeAnnounce, ServeSnapshot,
         ServeSnapshotPanics, ServeSnapshotSkipped, StartPumps, ServeTo
  <2>2. CASE HandlerStep(c)
    BY <2>2 DEF HandlerStep, ReadEvent, ReadRequest, ReadRequestPanics, Emit, Signal,
         SetState, ReaderTo, Dispatch, ReaderPC
  <2>3. CASE ReadError(c) \/ Check(c) \/ Leave(c) \/ CloseConn(c)
    BY <2>3 DEF ReadError, Check, Leave, CloseConn, ReaderTo, ReaderPC, Left
  <2>4. CASE WriterStep(c)
    BY <2>4 DEF WriterStep, Write, WriterEnds, wsVars
  <2> QED
    BY <2>1, <2>2, <2>3, <2>4
<1>6. \/ panicking' = panicking
      \/ panicking' = panicking \cup {c} /\ Closed(c) /\ reader[c] = "read"
  BY DEF ServeRoomClients, ServePresence, ServeAnnounce, ServeSnapshot,
         ServeSnapshotPanics, ServeSnapshotSkipped, HandlerStep, ReadEvent, ReadRequest,
         ReadRequestPanics, Emit, Signal, SetState, ReadError, Check, Leave, CloseConn,
         WriterStep, Write, WriterEnds, wsVars, Dispatch
<1>7. LifeOK'
  <2> SUFFICES ASSUME NEW d \in Clients
               PROVE  /\ serve'[d] = "new" => /\ ~IsCurrent(d)'
                                              /\ ~Registering(d)'
                                              /\ sendState'[d] = "open"
                      /\ reader'[d] # "off" => serve'[d] = "done"
                      /\ Registering(d)' => ~IsCurrent(d)'
                      /\ Closed(d)' => ~IsCurrent(d)' /\ ~Registering(d)'
                      /\ Unregistering(d)' \/ sendState'[d] = "unregistered" => Left(d)'
                      /\ d \in panicking' => sendState'[d] = "evicted"
    BY DEF LifeOK
  <2>1. serve'[d] = "new" => serve[d] = "new"
    BY <1>4, <1>5
  <2>2. reader'[d] # "off" => serve'[d] = "done"
    BY <1>4, <1>5 DEF LifeOK
  <2>3. Left(d) => Left(d)'
    BY <1>4, <1>5 DEF Left, LifeOK
  <2>4. d \in panicking' => sendState'[d] = "evicted"
    BY <1>1, <1>6 DEF LifeOK, Closed, Left
  <2> QED
    BY <1>1, <1>3, <2>1, <2>2, <2>3, <2>4 DEF LifeOK
<1>8. NoOrphan'
  <2> SUFFICES ASSUME NEW d \in Clients, IsCurrent(d)' \/ Registering(d)'
               PROVE  \/ serve'[d] \in Serving
                      \/ reader'[d] \in Reading0
                      \/ Unregistering(d)'
    BY DEF NoOrphan, Unregistering
  <2>1. ~Closed(d)
    BY <1>3 DEF LifeOK
  <2>2. \/ serve[d] \in Serving
        \/ reader[d] \in Reading0
        \/ Unregistering(d)
    BY <1>3 DEF NoOrphan, Unregistering
  <2>3. "read" \in Reading0
    BY DEF ReaderPC
  <2> QED
    BY <1>3, <1>4, <1>5, <2>1, <2>2, <2>3 DEF Left
<1>9. LeaveOK'
  <2> DEFINE Gone == {"close", "done"}
  <2>1. \A d \in Clients : reader[d] \in Gone => reader'[d] \in Gone
    BY <1>4, <1>5 DEF LifeOK, Left
  <2>2. \A w \in work' :
            w.op = "deliver" /\ w.kind = "leave" => reader'[w.from] \in Gone
    BY <1>1, <2>1, WorkFields DEF LeaveOK
  <2>3. \/ broadcast' = broadcast
        \/ \E k \in Kinds, x \in Users \cup {NoUser} :
              BroadcastToRoom(c, k, x) /\ (k = "leave" => reader'[c] \in Gone)
    <3>1. /\ {"join", "leave", "event"} = Kinds
          /\ {NoUser, UserOf[c]} \subseteq Users \cup {NoUser}
      BY DEF Kinds
    <3>2. CASE ServeAnnounce(c)
      <4>1. BroadcastToRoom(c, "join", UserOf[c])
        BY <3>2 DEF ServeAnnounce
      <4> QED
        BY <3>1, <4>1
    <3>3. CASE Emit(c)
      <4>1. BroadcastToRoom(c, "event", NoUser) \/ BroadcastToRoom(c, "event", UserOf[c])
        BY <3>3 DEF Emit
      <4> QED
        BY <3>1, <4>1
    <3>4. CASE Leave(c)
      <4>1. BroadcastToRoom(c, "leave", NoUser) /\ reader'[c] = "close"
        BY <3>4 DEF Leave, ReaderTo
      <4> QED
        BY <3>1, <4>1
    <3>5. CASE ~(ServeAnnounce(c) \/ Emit(c) \/ Leave(c))
      BY <3>5 DEF ServeRoomClients, ServePresence, ServeSnapshot, ServeSnapshotPanics,
           ServeSnapshotSkipped, HandlerStep, ReadEvent, ReadRequest, ReadRequestPanics,
           Signal, SetState, ReadError, Check, CloseConn, WriterStep, Write, WriterEnds,
           hubVars, wsVars
    <3> QED
      BY <3>2, <3>3, <3>4, <3>5
  <2>4. CASE broadcast' = broadcast
    <3>1. \A i \in 1..Len(broadcast) : broadcast[i].from \in Clients
      BY QueuedMessage
    <3> QED
      BY <2>1, <2>2, <2>4, <3>1 DEF LeaveOK
  <2>5. ASSUME NEW k \in Kinds, NEW x \in Users \cup {NoUser},
               BroadcastToRoom(c, k, x), k = "leave" => reader'[c] \in Gone
        PROVE  LeaveOK'
    <3>1. \A i \in 1..Len(broadcast) : broadcast[i].from \in Clients
      BY QueuedMessage
    <3>2. \A i \in 1..Len(broadcast') :
            \/ i \in 1..Len(broadcast) /\ broadcast'[i] = broadcast[i]
            \/ broadcast'[i].kind = k /\ broadcast'[i].from = c
      BY <2>5 DEF BroadcastToRoom
    <3> QED
      BY <2>1, <2>2, <2>5, <3>1, <3>2 DEF LeaveOK
  <2> QED
    BY <2>3, <2>4, <2>5
<1>10. CrashOnlyAfterEviction'
  <2>1. CASE CloseConn(c)
    <3>1. crashed' => c \in panicking
      BY <2>1 DEF CloseConn
    <3>2. c \in panicking => sendState'[c] = "evicted"
      BY <1>1 DEF LifeOK
    <3> QED
      BY <3>1, <3>2 DEF CrashOnlyAfterEviction
  <2>2. CASE ~CloseConn(c)
    <3>1. crashed' = crashed
      BY <2>2 DEF ServeRoomClients, ServePresence, ServeAnnounce, ServeSnapshot,
         ServeSnapshotPanics, ServeSnapshotSkipped, HandlerStep, ReadEvent, ReadRequest,
         ReadRequestPanics, Emit, Signal, SetState, ReadError, Check, Leave,
         WriterStep, Write, WriterEnds, hubVars, wsVars
    <3> QED
      BY <3>1 DEF CrashOnlyAfterEviction
  <2> QED
    BY <2>1, <2>2
<1> QED
  BY <1>2, <1>7, <1>8, <1>9, <1>10

\* The steps by which a goroutine hands a socket to the loop.
LEMMA HandOverSteps ==
  ASSUME TypeOK, IInv, NEW c \in Clients, ServeRegister(c) \/ ReaderUnregister(c)
  PROVE  IInv'
<1> USE DEF TypeOK, HubTypeOK, IInv
<1>1. UNCHANGED <<rooms, sendState, broadcast, crashed, panicking>>
  BY DEF ServeRegister, ReaderUnregister
<1>2. work = {}
  BY DEF ServeRegister, ReaderUnregister, Register, Unregister, AtSelect
<1>3. \A d \in Clients : /\ IsCurrent(d)' <=> IsCurrent(d)
                         /\ Closed(d)' <=> Closed(d)
                         /\ ~Registering(d) /\ ~Unregistering(d)
  BY <1>1, <1>2 DEF IsCurrent, Closed, Registering, Unregistering
<1>4. PlaceOK' /\ CrashOnlyAfterEviction'
  BY <1>1 DEF PlaceOK, CrashOnlyAfterEviction
<1>5. CASE ServeRegister(c)
  <2>1. /\ work' = {[op |-> "register", client |-> c]}
        /\ serve[c] = "new" /\ serve'[c] = "roomClients"
        /\ \A d \in Clients \ {c} : serve'[d] = serve[d]
        /\ reader' = reader
    BY <1>5 DEF ServeRegister, Register, ServeTo
  <2>2. \A d \in Clients : /\ Registering(d)' <=> d = c
                           /\ ~Unregistering(d)'
    BY <2>1 DEF Registering, Unregistering
  <2>3. WorkOK'
    BY <2>1 DEF WorkOK
  <2>4. LifeOK'
    BY <1>1, <1>3, <2>1, <2>2 DEF LifeOK, Closed, Left
  <2>5. LeaveOK'
    BY <1>1, <2>1 DEF LeaveOK
  <2>6. NoOrphan'
    BY <1>3, <2>1, <2>2 DEF NoOrphan, Unregistering
  <2> QED
    BY <1>4, <2>3, <2>4, <2>5, <2>6
<1>6. CASE ReaderUnregister(c)
  <2>1. /\ work' = {[op |-> "unregister", client |-> c]}
        /\ serve' = serve
        /\ reader[c] \in {"unregister", "unregisterStale"}
        /\ reader'[c] \in {"leave", "close"}
        /\ \A d \in Clients \ {c} : reader'[d] = reader[d]
    BY <1>6 DEF ReaderUnregister, Unregister, ReaderTo
  <2>2. \A d \in Clients : /\ ~Registering(d)'
                           /\ Unregistering(d)' <=> d = c
    BY <2>1 DEF Registering, Unregistering
  <2>3. WorkOK'
    BY <2>1 DEF WorkOK
  <2>4. LifeOK'
    BY <1>1, <1>3, <2>1, <2>2 DEF LifeOK, Closed, Left
  <2>5. LeaveOK'
    <3>1. \A i \in 1..Len(broadcast) : broadcast[i].from \in Clients
      BY QueuedMessage
    <3>2. \A i \in 1..Len(broadcast) :
            broadcast[i].kind = "leave" => broadcast[i].from # c
      BY <2>1 DEF LeaveOK
    <3> QED
      BY <1>1, <2>1, <3>1, <3>2 DEF LeaveOK
  <2>6. NoOrphan'
    BY <1>3, <2>1, <2>2 DEF NoOrphan, Unregistering
  <2> QED
    BY <1>4, <2>3, <2>4, <2>5, <2>6
<1> QED
  BY <1>5, <1>6

\* The loop registers or unregisters a socket.
LEMMA RegistrationSteps ==
  ASSUME TypeOK, IInv, ~crashed, UNCHANGED wsVars, NEW c \in Clients,
         HandleRegister(c) \/ HandleUnregister(c) \/ HandleUnregisterStale(c)
  PROVE  IInv'
<1> USE DEF TypeOK, HubTypeOK, IInv
<1>1. /\ UNCHANGED <<serve, reader, panicking, broadcast>>
      /\ work' = {}
      /\ \/ work = {[op |-> "register", client |-> c]}
         \/ work = {[op |-> "unregister", client |-> c]}
  BY DEF HandleRegister, HandleUnregister, HandleUnregisterStale, wsVars, WorkOK
<1>2. WorkOK' /\ LeaveOK'
  BY <1>1 DEF WorkOK, LeaveOK
<1>3. \A d \in Clients : ~Registering(d)' /\ ~Unregistering(d)'
  BY <1>1 DEF Registering, Unregistering
<1>4. \A d \in Clients \ {c} : ~Registering(d) /\ ~Unregistering(d)
  BY <1>1 DEF Registering, Unregistering
<1>5. CASE HandleRegister(c)
  <2>1. /\ rooms' = [rooms EXCEPT ![RoomOf[c]][UserOf[c]] = c]
        /\ UNCHANGED <<sendState, crashed>>
        /\ Registering(c) /\ ~Unregistering(c)
    BY <1>1, <1>5 DEF HandleRegister, Registering, Unregistering
  <2>2. \A d \in Clients \ {c} : IsCurrent(d)' => IsCurrent(d)
    BY <2>1 DEF IsCurrent
  <2>3. PlaceOK'
    BY <2>1 DEF PlaceOK
  <2>4. LifeOK'
    BY <1>1, <1>3, <2>1, <2>2 DEF LifeOK, Closed, Left
  <2>5. NoOrphan'
    BY <1>1, <1>4, <2>1, <2>2, <1>3 DEF NoOrphan, Unregistering
  <2>6. CrashOnlyAfterEviction'
    BY <2>1 DEF CrashOnlyAfterEviction
  <2> QED
    BY <1>2, <2>3, <2>4, <2>5, <2>6
<1>6. CASE HandleUnregister(c)
  <2>1. /\ rooms' = [rooms EXCEPT ![RoomOf[c]][UserOf[c]] = NoClient]
        /\ sendState' = [sendState EXCEPT ![c] = "unregistered"]
        /\ crashed' = Closed(c)
        /\ IsCurrent(c) /\ Unregistering(c)
    BY <1>6 DEF HandleUnregister, Unregistering
  <2>2. /\ \A d \in Clients \ {c} : IsCurrent(d)' => IsCurrent(d)
        /\ ~IsCurrent(c)'
    BY <2>1 DEF IsCurrent
  <2>3. PlaceOK'
    BY <2>1 DEF PlaceOK
  <2>4. ~Closed(c) /\ c \notin panicking /\ Left(c)
    BY <2>1 DEF LifeOK, Closed
  <2>5. LifeOK'
    BY <1>1, <1>3, <2>1, <2>2, <2>4 DEF LifeOK, Closed, Left
  <2>6. NoOrphan'
    BY <1>1, <1>3, <1>4, <2>2 DEF NoOrphan, Unregistering
  <2>7. CrashOnlyAfterEviction'
    BY <2>1, <2>4 DEF CrashOnlyAfterEviction
  <2> QED
    BY <1>2, <2>3, <2>5, <2>6, <2>7
<1>7. CASE HandleUnregisterStale(c)
  <2>1. UNCHANGED <<rooms, sendState, crashed>> /\ ~IsCurrent(c)
    BY <1>7 DEF HandleUnregisterStale
  <2>2. \A d \in Clients : IsCurrent(d)' <=> IsCurrent(d)
    BY <2>1 DEF IsCurrent
  <2>3. PlaceOK' /\ CrashOnlyAfterEviction'
    BY <2>1 DEF PlaceOK, CrashOnlyAfterEviction
  <2>4. LifeOK'
    BY <1>1, <1>3, <2>1, <2>2 DEF LifeOK, Closed, Left
  <2>5. NoOrphan'
    BY <1>1, <1>3, <1>4, <2>1, <2>2 DEF NoOrphan, Unregistering
  <2> QED
    BY <1>2, <2>3, <2>4, <2>5
<1> QED
  BY <1>5, <1>6, <1>7

\* The loop receives a message and works out whom to deliver it to.
LEMMA ReceiveSteps ==
  ASSUME TypeOK, IInv, UNCHANGED wsVars, ReceiveBroadcast \/ ReceiveTargeted
  PROVE  IInv'
<1> USE DEF TypeOK, HubTypeOK, IInv
<1>1. /\ UNCHANGED <<rooms, sendState, crashed, serve, reader, panicking>>
      /\ work = {}
  BY DEF ReceiveBroadcast, ReceiveTargeted, AtSelect, wsVars
<1>2. \A d \in Clients : /\ IsCurrent(d)' <=> IsCurrent(d)
                         /\ Closed(d)' <=> Closed(d)
                         /\ ~Registering(d) /\ ~Unregistering(d)
  BY <1>1 DEF IsCurrent, Closed, Registering, Unregistering
<1>3. PlaceOK' /\ CrashOnlyAfterEviction'
  BY <1>1 DEF PlaceOK, CrashOnlyAfterEviction
\* Every delivery of the new work: the same message, to a registered socket.
<1>4. \E kind, from :
        /\ \A w \in work' : /\ w.client \in Clients
                            /\ IsCurrent(w.client)
                            /\ w = [op |-> "deliver", client |-> w.client,
                                    kind |-> kind, from |-> from]
        /\ kind = "leave" => reader[from] \in {"close", "done"}
  <2>1. CASE ReceiveBroadcast
    <3> DEFINE m == Head(broadcast)
    <3>1. m.from \in Clients /\ (m.kind = "leave" => reader[m.from] \in {"close", "done"})
      <4>1. 1 \in 1..Len(broadcast) /\ m = broadcast[1]
        BY <2>1 DEF ReceiveBroadcast
      <4> QED
        BY <4>1, QueuedMessage DEF LeaveOK
    <3> HIDE DEF m
    <3>2. \A d \in RoomClients(RoomOf[m.from]) : d \in Clients /\ IsCurrent(d)
      BY <3>1 DEF RoomClients, PlaceOK, IsCurrent
    <3>3. \A w \in work' : \E d \in RoomClients(RoomOf[m.from]) :
              w = [op |-> "deliver", client |-> d, kind |-> m.kind, from |-> m.from]
      BY <2>1 DEF ReceiveBroadcast, m
    <3>4. \A w \in work' : /\ w.client \in Clients
                           /\ IsCurrent(w.client)
                           /\ w = [op |-> "deliver", client |-> w.client,
                                   kind |-> m.kind, from |-> m.from]
      BY <3>2, <3>3
    <3> QED
      BY <3>1, <3>4
  <2>2. CASE ReceiveTargeted
    <3> DEFINE m == Head(targeted)
    <3>1. m \in TargetedMessage
      BY <2>2 DEF ReceiveTargeted
    <3>2. m.from \in Clients /\ m.target \in Users
      BY <3>1 DEF TargetedMessage
    <3> HIDE DEF m
    <3>3. \A d \in {rooms[RoomOf[m.from]][m.target]} \ {NoClient} :
              d \in Clients /\ IsCurrent(d)
      BY <3>2 DEF PlaceOK, IsCurrent
    <3>4. \A w \in work' : \E d \in {rooms[RoomOf[m.from]][m.target]} \ {NoClient} :
              w = [op |-> "deliver", client |-> d, kind |-> "event", from |-> m.from]
      BY <2>2 DEF ReceiveTargeted, m
    <3>5. \A w \in work' : /\ w.client \in Clients
                           /\ IsCurrent(w.client)
                           /\ w = [op |-> "deliver", client |-> w.client,
                                   kind |-> "event", from |-> m.from]
      BY <3>3, <3>4
    <3>6. "event" = "leave" => reader[m.from] \in {"close", "done"}
      OBVIOUS
    <3> QED
      BY <3>5, <3>6, Zenon
  <2> QED
    BY <2>1, <2>2
<1>5. PICK kind, from :
        /\ \A w \in work' : /\ w.client \in Clients
                            /\ IsCurrent(w.client)
                            /\ w = [op |-> "deliver", client |-> w.client,
                                    kind |-> kind, from |-> from]
        /\ kind = "leave" => reader[from] \in {"close", "done"}
  BY <1>4
<1>6. \A w \in work' : w.op = "deliver" /\ w.kind = kind /\ w.from = from
  <2> TAKE w \in work'
  <2>1. w = [op |-> "deliver", client |-> w.client, kind |-> kind, from |-> from]
    BY <1>5
  <2> QED
    BY <2>1
<1>7. WorkOK'
  <2>1. \A v, w \in work' : v.client = w.client => v = w
    BY <1>5
  <2>2. \A w \in work' : IsCurrent(w.client)'
    BY <1>2, <1>5
  <2> QED
    BY <1>6, <2>1, <2>2 DEF WorkOK
<1>8. \A d \in Clients : ~Registering(d)' /\ ~Unregistering(d)'
  BY <1>6 DEF Registering, Unregistering
<1>9. LifeOK'
  BY <1>1, <1>2, <1>8 DEF LifeOK, Closed, Left
<1>10. NoOrphan'
  BY <1>1, <1>2, <1>8 DEF NoOrphan, Unregistering
<1>11. LeaveOK'
  <2>1. \A w \in work' :
            w.op = "deliver" /\ w.kind = "leave" => reader'[w.from] \in {"close", "done"}
    BY <1>1, <1>5, <1>6
  <2>2. CASE ReceiveBroadcast
    <3>1. /\ broadcast \in Seq(BroadcastMessage) /\ broadcast # <<>>
          /\ broadcast' = Tail(broadcast)
      BY <2>2 DEF ReceiveBroadcast
    <3>2. \A i \in 1..Len(broadcast') :
            i + 1 \in 1..Len(broadcast) /\ broadcast'[i] = broadcast[i + 1]
      BY <3>1
    <3>3. ASSUME NEW i \in 1..Len(broadcast'), broadcast'[i].kind = "leave"
          PROVE  reader'[broadcast'[i].from] \in {"close", "done"}
      BY <1>1, <3>2, <3>3 DEF LeaveOK
    <3> QED
      BY <2>1, <3>3 DEF LeaveOK
  <2>3. CASE ReceiveTargeted
    BY <1>1, <2>1, <2>3 DEF ReceiveTargeted, LeaveOK
  <2> QED
    BY <2>2, <2>3
<1> QED
  BY <1>3, <1>7, <1>9, <1>10, <1>11

\* The loop delivers a message, or evicts the socket it was for.
LEMMA DeliverySteps ==
  ASSUME TypeOK, IInv, ~crashed, UNCHANGED wsVars, NEW w \in work, NEW racing,
         Deliver(w) \/ EvictSlow(w, racing)
  PROVE  IInv'
<1> USE DEF TypeOK, HubTypeOK, IInv
<1>1. /\ UNCHANGED <<serve, reader, panicking, broadcast>>
      /\ work' = work \ {w}
      /\ w.op = "deliver"
  BY DEF Deliver, EvictSlow, wsVars
<1>2. w.client \in Clients /\ IsCurrent(w.client) /\ ~Closed(w.client)
  BY <1>1, WorkFields DEF WorkOK, LifeOK
<1>3. \A v \in work : v.op = "deliver"
  BY <1>1 DEF WorkOK
<1>4. \A d \in Clients : /\ ~Registering(d) /\ ~Unregistering(d)
                         /\ ~Registering(d)' /\ ~Unregistering(d)'
  BY <1>1, <1>3 DEF Registering, Unregistering
<1>5. LeaveOK'
  BY <1>1 DEF LeaveOK
<1>6. CASE Deliver(w)
  <2>1. UNCHANGED <<rooms, sendState>> /\ crashed' = FALSE
    BY <1>2, <1>6 DEF Deliver, Enqueue
  <2>2. \A d \in Clients : IsCurrent(d)' <=> IsCurrent(d)
    BY <2>1 DEF IsCurrent
  <2>3. PlaceOK' /\ CrashOnlyAfterEviction'
    BY <2>1 DEF PlaceOK, CrashOnlyAfterEviction
  <2>4. WorkOK'
    BY <1>1, <1>3, <2>2, WorkFields DEF WorkOK
  <2>5. LifeOK'
    BY <1>1, <1>4, <2>1, <2>2 DEF LifeOK, Closed, Left
  <2>6. NoOrphan'
    BY <1>1, <1>4, <2>2 DEF NoOrphan, Unregistering
  <2> QED
    BY <1>5, <2>3, <2>4, <2>5, <2>6
<1>7. CASE EvictSlow(w, racing)
  <2> DEFINE c == w.client
  <2>1. /\ rooms' = [rooms EXCEPT ![RoomOf[c]][UserOf[c]] = NoClient]
        /\ sendState' = [sendState EXCEPT ![c] = "evicted"]
    BY <1>7 DEF EvictSlow
  <2>2. c \in Clients /\ IsCurrent(c) /\ ~Closed(c)
    BY <1>2
  <2>3. \A v \in work' : v.client \in Clients \ {c} /\ v.op = "deliver"
    BY <1>1, <1>3, WorkFields DEF WorkOK
  <2> HIDE DEF c
  <2>4. ~IsCurrent(c)' /\ \A d \in Clients \ {c} : IsCurrent(d)' <=> IsCurrent(d)
    <3>1. ~IsCurrent(c)'
      BY <2>1, <2>2 DEF IsCurrent
    <3>2. ASSUME NEW d \in Clients \ {c}
          PROVE  IsCurrent(d)' <=> IsCurrent(d)
      BY <2>1, <2>2 DEF IsCurrent
    <3> QED
      BY <3>1, <3>2
  <2>5. PlaceOK'
    BY <2>1, <2>2 DEF PlaceOK
  <2>6. WorkOK'
    BY <1>1, <2>3, <2>4 DEF WorkOK
  <2>7. LifeOK'
    BY <1>1, <1>4, <2>1, <2>2, <2>4 DEF LifeOK, Closed, Left
  <2>8. NoOrphan'
    BY <1>1, <1>4, <2>4 DEF NoOrphan, Unregistering
  <2>9. CrashOnlyAfterEviction'
    BY <2>1, <2>2 DEF CrashOnlyAfterEviction
  <2> QED
    BY <1>5, <2>5, <2>6, <2>7, <2>8, <2>9
<1> QED
  BY <1>6, <1>7

\* The inductive invariant is preserved by every step.
LEMMA StepIInv == TypeOK /\ IInv /\ [Next]_vars => IInv'
<1> SUFFICES ASSUME TypeOK, IInv, [Next]_vars
             PROVE  IInv'
  OBVIOUS
<1>1. CASE UNCHANGED vars
  BY <1>1 DEF IInv, PlaceOK, WorkOK, LifeOK, LeaveOK, NoOrphan, CrashOnlyAfterEviction,
       IsCurrent, Closed, Registering, Unregistering, Left, vars, hubVars, wsVars
<1>2. CASE ~crashed /\ HubStep
  BY <1>2, RegistrationSteps, ReceiveSteps, DeliverySteps DEF HubStep
<1>3. ASSUME ~crashed, NEW c \in Clients, ServeStep(c)
      PROVE  IInv'
  BY <1>3, SocketSteps, HandOverSteps DEF ServeStep
<1>4. ASSUME ~crashed, NEW c \in Clients,
             HandlerStep(c) \/ TeardownStep(c) \/ WriterStep(c)
      PROVE  IInv'
  BY <1>4, SocketSteps, HandOverSteps DEF TeardownStep
<1> QED
  BY <1>1, <1>2, <1>3, <1>4 DEF Next, Step, Halt

\* Every reachable state of every instance satisfies the inductive invariant.
LEMMA Inductive == Spec => []IInv
BY InitIInv, StepIInv, TypeCorrect, PTL DEF Spec

\* The hub's loop never sends on, closes or registers a Send that is closed
\* (hub.go, Run): the goroutine that nothing recovers cannot panic.
THEOREM HubNeverPanics == Spec => []RegisteredOpen
<1>1. TypeOK /\ IInv => RegisteredOpen
  <2> SUFFICES ASSUME TypeOK, IInv
               PROVE  RegisteredOpen
    OBVIOUS
  <2>1. \A c \in Clients : IsCurrent(c) => ~Closed(c)
    BY DEF IInv, LifeOK
  <2>2. ASSUME NEW w \in work, w.op = "deliver"
        PROVE  ~Closed(w.client)
    BY <2>2, WorkFields DEF IInv, LifeOK, WorkOK, TypeOK, HubTypeOK
  <2>3. ASSUME NEW w \in work, w.op = "register"
        PROVE  ~Closed(w.client)
    <3>1. w.client \in Clients /\ w = [op |-> "register", client |-> w.client]
      BY <2>3 DEF TypeOK, HubTypeOK, Work, Registration, Delivery
    <3> QED
      BY <3>1 DEF IInv, LifeOK, Registering
  <2> QED
    BY <2>1, <2>2, <2>3 DEF RegisteredOpen
<1> QED
  BY <1>1, Inductive, TypeCorrect, PTL

\* Somebody will always unregister a registered socket (readPump's deferred
\* function), although the loop may lag behind the readPump.
THEOREM NoSocketLeaks == Spec => []NoOrphan
<1>1. IInv => NoOrphan
  BY DEF IInv
<1> QED
  BY <1>1, Inductive, PTL

\* Without an eviction the endpoint never takes the process down.
THEOREM NoOtherCrash == Spec => []CrashOnlyAfterEviction
<1>1. IInv => CrashOnlyAfterEviction
  BY DEF IInv
<1> QED
  BY <1>1, Inductive, PTL

\* A member:leave is delivered only after the hub removed the socket it is about
\* (readPump's deferred function: Unregister, then BroadcastToRoom).
THEOREM LeaveFollowsRemoval == Spec => []LeaveAfterRemoval
<1>1. TypeOK /\ IInv => LeaveAfterRemoval
  <2> SUFFICES ASSUME TypeOK, IInv, NEW w \in work, w.op = "deliver", w.kind = "leave",
                      IsCurrent(w.from)
               PROVE  FALSE
    BY DEF LeaveAfterRemoval
  <2>1. w.from \in Clients
    BY WorkFields DEF TypeOK, HubTypeOK
  <2>2. reader[w.from] \in {"close", "done"}
    BY DEF IInv, LeaveOK
  <2>3. serve[w.from] = "done"
    BY <2>1, <2>2 DEF IInv, LifeOK
  <2>4. ~Unregistering(w.from)
    BY <2>1 DEF IInv, WorkOK, Unregistering
  <2> QED
    BY <2>1, <2>2, <2>3, <2>4 DEF IInv, NoOrphan, Unregistering
<1> QED
  BY <1>1, Inductive, TypeCorrect, PTL

-----------------------------------------------------------------------------
(* The audience of a player state.                                         *)

\* Only a host is in a handler that writes the player state.
WriterIsHost ==
    \A c \in Clients : reader[c] \in {"set", "refresh"} => Host(c)

\* A socket that got to the hub is there, was closed, or gave way to another.
Accounted(c) == serve[c] = "new" \/ IsCurrent(c) \/ Registering(c) \/ Closed(c) \/ HasRival(c)

Audience(r) ==
    \/ RoomClients(r) # {}
    \/ \E c \in Clients :
          /\ RoomOf[c] = r
          /\ \/ Registering(c)
             \/ sendState[c] = "evicted"
             \/ Host(c) /\ serve[c] # "new" /\ HasRival(c)

AudienceInv ==
    /\ WriterIsHost
    /\ \A c \in Clients : Accounted(c)
    /\ \A r \in playerStates : Audience(r)

\* serve never returns to new, so a rival stays one.
LEMMA RivalsStay ==
  ASSUME NEW c \in Clients, HasRival(c),
         \A d \in Clients : serve[d] # "new" => serve'[d] # "new"
  PROVE  HasRival(c)'
BY DEF HasRival

\* A step that leaves the map and the Sends alone, and loses no registration.
LEMMA AudienceFrame ==
  ASSUME AudienceInv, WriterIsHost', UNCHANGED <<rooms, sendState>>,
         \A d \in Clients : Registering(d) => Registering(d)',
         \A d \in Clients : serve[d] # "new" => serve'[d] # "new",
         \A d \in Clients : serve'[d] # "new" => serve[d] # "new" \/ Registering(d)',
         \A r \in playerStates' \ playerStates : Audience(r)
  PROVE  AudienceInv'
<1>1. \A c \in Clients : Accounted(c)'
  BY RivalsStay DEF AudienceInv, Accounted, IsCurrent, Closed
<1>2. ASSUME NEW r, Audience(r)
      PROVE  Audience(r)'
  BY <1>2, RivalsStay DEF Audience, RoomClients, Host
<1> QED
  BY <1>1, <1>2 DEF AudienceInv

\* The goroutines of the sockets.
LEMMA SocketAudience ==
  ASSUME TypeOK, IInv, AudienceInv, NEW c \in Clients,
         ServeStep(c) \/ HandlerStep(c) \/ TeardownStep(c) \/ WriterStep(c)
  PROVE  AudienceInv'
<1> USE DEF TypeOK, HubTypeOK
<1>1. CASE ServeStep(c)
  <2>1. UNCHANGED <<rooms, sendState, playerStates>>
    BY <1>1 DEF ServeStep, ServeRegister, ServeRoomClients, ServePresence, ServeAnnounce,
         ServeSnapshot, ServeSnapshotPanics, ServeSnapshotSkipped, hubVars
  <2>2. WriterIsHost'
    <3>1. \A d \in Clients : reader'[d] \in {reader[d], "read"}
      BY <1>1 DEF ServeStep, ServeRegister, ServeRoomClients, ServePresence, ServeAnnounce,
           ServeSnapshot, ServeSnapshotPanics, ServeSnapshotSkipped, StartPumps
    <3> QED
      BY <3>1 DEF AudienceInv, WriterIsHost, Host
  <2>3. CASE ServeRegister(c)
    <3>1. /\ \A d \in Clients : ~Registering(d)
          /\ Registering(c)'
          /\ serve'[c] = "roomClients"
          /\ \A d \in Clients \ {c} : serve'[d] = serve[d]
      BY <2>3 DEF ServeRegister, Register, AtSelect, ServeTo, Registering
    <3> QED
      BY <2>1, <2>2, <3>1, AudienceFrame
  <2>4. CASE ~ServeRegister(c)
    <3>1. /\ UNCHANGED work
          /\ serve[c] # "new" /\ serve'[c] # "new"
          /\ \A d \in Clients \ {c} : serve'[d] = serve[d]
      BY <1>1, <2>4 DEF ServeStep, ServeRoomClients, ServePresence, ServeAnnounce,
           ServeSnapshot, ServeSnapshotPanics, ServeSnapshotSkipped, ServeTo, StartPumps,
           hubVars
    <3> QED
      BY <2>1, <2>2, <3>1, AudienceFrame DEF Registering
  <2> QED
    BY <2>3, <2>4
<1>2. CASE HandlerStep(c)
  <2>1. UNCHANGED <<rooms, work, sendState, serve>>
    BY <1>2 DEF HandlerStep, ReadEvent, ReadRequest, ReadRequestPanics, Emit, Signal,
         SetState, hubVars
  <2>2. WriterIsHost'
    <3>1. /\ reader'[c] \in {"set", "refresh"} => Host(c)
          /\ \A d \in Clients \ {c} : reader'[d] = reader[d]
      BY <1>2 DEF HandlerStep, ReadEvent, ReadRequest, ReadRequestPanics, Emit, Signal,
           SetState, ReaderTo, Dispatch, AudienceInv, WriterIsHost
    <3> QED
      BY <3>1 DEF AudienceInv, WriterIsHost, Host
  <2>3. ASSUME NEW r \in playerStates' \ playerStates
        PROVE  Audience(r)
    <3>1. /\ SetState(c)
          /\ r = RoomOf[c]
      BY <1>2, <2>3 DEF HandlerStep, ReadEvent, ReadRequest, ReadRequestPanics, Emit, Signal,
           SetState, SetPlayerState, hubVars
    <3>2. reader[c] \in {"set", "refresh"} /\ Host(c)
      BY <3>1 DEF SetState, AudienceInv, WriterIsHost
    <3>3. serve[c] # "new" /\ sendState[c] # "unregistered"
      BY <3>2 DEF IInv, LifeOK, Left
    <3>4. CASE IsCurrent(c)
      <4>1. c \in RoomClients(r)
        BY <3>1, <3>4 DEF IsCurrent, RoomClients
      <4> QED
        BY <4>1 DEF Audience
    <3>5. CASE Registering(c) \/ Closed(c) \/ HasRival(c)
      BY <3>1, <3>2, <3>3, <3>5 DEF Audience, Closed
    <3> QED
      BY <3>3, <3>4, <3>5 DEF AudienceInv, Accounted
  <2> QED
    BY <2>1, <2>2, <2>3, AudienceFrame DEF Registering
<1>3. CASE TeardownStep(c) \/ WriterStep(c)
  <2>1. UNCHANGED <<rooms, sendState, serve, playerStates>>
    BY <1>3 DEF TeardownStep, ReadError, Check, ReaderUnregister, Leave, CloseConn,
         WriterStep, Write, WriterEnds, hubVars, wsVars
  <2>2. \A d \in Clients : Registering(d) => Registering(d)'
    BY <1>3 DEF TeardownStep, ReadError, Check, ReaderUnregister, Unregister, AtSelect,
         Leave, CloseConn, WriterStep, Write, WriterEnds, hubVars, Registering
  <2>3. WriterIsHost'
    <3>1. \A d \in Clients : reader'[d] = reader[d] \/ reader'[d] \notin {"set", "refresh"}
      BY <1>3 DEF TeardownStep, ReadError, Check, ReaderUnregister, Leave, CloseConn,
           WriterStep, Write, WriterEnds, ReaderTo, wsVars
    <3> QED
      BY <3>1 DEF AudienceInv, WriterIsHost, Host
  <2> QED
    BY <2>1, <2>2, <2>3, AudienceFrame
<1> QED
  BY <1>1, <1>2, <1>3

\* A registration has somebody in the room; an entry that it overwrites has a rival.
LEMMA RegisterAudience ==
  ASSUME TypeOK, IInv, AudienceInv, UNCHANGED wsVars, NEW c \in Clients, HandleRegister(c)
  PROVE  AudienceInv'
<1> USE DEF TypeOK, HubTypeOK
<1>1. /\ rooms' = [rooms EXCEPT ![RoomOf[c]][UserOf[c]] = c]
      /\ work = {[op |-> "register", client |-> c]}
      /\ UNCHANGED <<sendState, serve, reader, playerStates>>
  BY DEF HandleRegister, wsVars, IInv, WorkOK
<1>2. \A d \in Clients : Registering(d) <=> d = c
  BY <1>1 DEF Registering
<1>3. serve[c] # "new" /\ IsCurrent(c)'
  BY <1>1, <1>2 DEF IInv, LifeOK, IsCurrent
<1>4. ASSUME NEW d \in Clients
      PROVE  Accounted(d)'
  <2>1. HasRival(d) => HasRival(d)'
    BY <1>1, RivalsStay
  <2>2. CASE IsCurrent(d) /\ d # c
    <3>1. IsCurrent(d)' \/ (RoomOf[d] = RoomOf[c] /\ UserOf[d] = UserOf[c])
      BY <1>1, <2>2 DEF IsCurrent
    <3>2. RoomOf[d] = RoomOf[c] /\ UserOf[d] = UserOf[c] => HasRival(d)'
      BY <1>1, <1>3, <2>2 DEF HasRival
    <3> QED
      BY <3>1, <3>2 DEF Accounted
  <2>3. CASE d = c
    BY <1>3, <2>3 DEF Accounted
  <2>4. CASE ~IsCurrent(d) /\ d # c
    BY <1>1, <1>2, <2>1, <2>4 DEF AudienceInv, Accounted, Closed
  <2> QED
    BY <2>2, <2>3, <2>4
<1>5. ASSUME NEW r \in playerStates'
      PROVE  Audience(r)'
  <2>1. r \in Rooms /\ Audience(r)
    BY <1>1, <1>5 DEF AudienceInv
  <2>2. CASE r = RoomOf[c]
    <3>1. c \in RoomClients(r)'
      BY <1>3, <2>2 DEF IsCurrent, RoomClients
    <3> QED
      BY <3>1 DEF Audience
  <2>3. CASE r # RoomOf[c]
    <3>1. RoomClients(r)' = RoomClients(r)
      BY <1>1, <2>1, <2>3 DEF RoomClients
    <3>2. \A d \in Clients : HasRival(d) => HasRival(d)'
      BY <1>1, RivalsStay
    <3> QED
      BY <1>1, <1>2, <2>1, <2>3, <3>1, <3>2 DEF Audience, Host
  <2> QED
    BY <2>2, <2>3
<1> QED
  BY <1>1, <1>4, <1>5 DEF AudienceInv, WriterIsHost, Host

\* A removal closes the entry's Send; only the last one of a room may leave its
\* player state behind, and then by an eviction.
LEMMA RemovalAudience ==
  ASSUME TypeOK, IInv, AudienceInv, UNCHANGED wsVars, NEW c \in Clients, IsCurrent(c),
         rooms' = [rooms EXCEPT ![RoomOf[c]][UserOf[c]] = NoClient],
         \A d \in Clients : Registering(d) => Registering(d)',
         \/ /\ sendState' = [sendState EXCEPT ![c] = "unregistered"]
            /\ playerStates' = IF RoomClients(RoomOf[c]) = {c}
                               THEN playerStates \ {RoomOf[c]} ELSE playerStates
         \/ /\ sendState' = [sendState EXCEPT ![c] = "evicted"]
            /\ playerStates' = playerStates
  PROVE  AudienceInv'
<1> USE DEF TypeOK, HubTypeOK
<1>1. UNCHANGED <<serve, reader>> /\ ~Closed(c) /\ Closed(c)'
      /\ \A d \in Clients \ {c} : sendState'[d] = sendState[d]
  BY DEF wsVars, IInv, LifeOK, Closed
<1>2. \A d \in Clients : HasRival(d) => HasRival(d)'
  BY <1>1, RivalsStay
<1>3. ASSUME NEW d \in Clients
      PROVE  Accounted(d)'
  <2>1. CASE d = c
    BY <1>1, <2>1 DEF Accounted
  <2>2. CASE d # c
    <3>1. IsCurrent(d) => IsCurrent(d)'
      BY <2>2 DEF IsCurrent
    <3> QED
      BY <1>1, <1>2, <2>2, <3>1 DEF AudienceInv, Accounted, Closed
  <2> QED
    BY <2>1, <2>2
<1>4. ASSUME NEW r \in playerStates'
      PROVE  Audience(r)'
  <2>1. r \in playerStates /\ r \in Rooms /\ Audience(r)
    BY <1>4 DEF AudienceInv
  <2>2. ASSUME NEW d \in Clients, RoomOf[d] = r,
               \/ Registering(d)
               \/ sendState[d] = "evicted"
               \/ Host(d) /\ serve[d] # "new" /\ HasRival(d)
        PROVE  Audience(r)'
    BY <1>1, <1>2, <2>2 DEF Audience, Host, Closed
  <2>3. ASSUME NEW d \in RoomClients(r), d # c
        PROVE  Audience(r)'
    <3>1. PICK u \in Users : d = rooms[r][u] /\ d # NoClient
      BY <2>3 DEF RoomClients
    <3>2. rooms'[r][u] = d
      BY <2>1, <2>3, <3>1 DEF IsCurrent
    <3>3. d \in RoomClients(r)'
      BY <3>1, <3>2 DEF RoomClients
    <3> QED
      BY <3>3 DEF Audience
  <2>4. CASE RoomClients(r) = {c}
    <3>1. r = RoomOf[c]
      <4>1. c \in RoomClients(r)
        BY <2>4
      <4>2. PICK u \in Users : c = rooms[r][u] /\ c # NoClient
        BY ONLY <4>1 DEF RoomClients
      <4> QED
        BY <2>1, <4>2 DEF IInv, PlaceOK
    <3>2. sendState'[c] = "evicted"
      BY <1>4, <2>4, <3>1
    <3> QED
      BY <3>1, <3>2 DEF Audience
  <2> QED
    BY <2>1, <2>2, <2>3, <2>4 DEF Audience
<1> QED
  BY <1>1, <1>3, <1>4 DEF AudienceInv, WriterIsHost, Host

LEMMA StepAudience == TypeOK /\ IInv /\ AudienceInv /\ [Next]_vars => AudienceInv'
<1> SUFFICES ASSUME TypeOK, IInv, AudienceInv, [Next]_vars
             PROVE  AudienceInv'
  OBVIOUS
<1>1. CASE UNCHANGED vars
  <2>1. UNCHANGED <<rooms, work, sendState, playerStates, serve, reader>>
    BY <1>1 DEF vars, hubVars, wsVars
  <2>2. WriterIsHost'
    BY <2>1 DEF AudienceInv, WriterIsHost, Host
  <2> QED
    BY <2>1, <2>2, AudienceFrame DEF Registering
<1>2. ASSUME NEW c \in Clients, HandleRegister(c), UNCHANGED wsVars
      PROVE  AudienceInv'
  BY <1>2, RegisterAudience
<1>3. ASSUME NEW c \in Clients, HandleUnregister(c), UNCHANGED wsVars
      PROVE  AudienceInv'
  <2>1. \A d \in Clients : ~Registering(d)
    BY <1>3 DEF HandleUnregister, IInv, WorkOK, Registering
  <2> QED
    BY <1>3, <2>1, RemovalAudience DEF HandleUnregister
<1>4. ASSUME NEW c \in Clients, HandleUnregisterStale(c), UNCHANGED wsVars
      PROVE  AudienceInv'
  <2>1. \A d \in Clients : ~Registering(d)
    BY <1>4 DEF HandleUnregisterStale, IInv, WorkOK, Registering
  <2>2. UNCHANGED <<rooms, sendState, playerStates, serve, reader>>
    BY <1>4 DEF HandleUnregisterStale, wsVars
  <2>3. WriterIsHost'
    BY <2>2 DEF AudienceInv, WriterIsHost, Host
  <2> QED
    BY <2>1, <2>2, <2>3, AudienceFrame
<1>5. ASSUME ReceiveBroadcast \/ ReceiveTargeted, UNCHANGED wsVars
      PROVE  AudienceInv'
  <2>1. \A d \in Clients : ~Registering(d)
    BY <1>5 DEF ReceiveBroadcast, ReceiveTargeted, AtSelect, Registering
  <2>2. UNCHANGED <<rooms, sendState, playerStates, serve, reader>>
    BY <1>5 DEF ReceiveBroadcast, ReceiveTargeted, wsVars
  <2>3. WriterIsHost'
    BY <2>2 DEF AudienceInv, WriterIsHost, Host
  <2> QED
    BY <2>1, <2>2, <2>3, AudienceFrame
<1>6. ASSUME NEW w \in work, Deliver(w), UNCHANGED wsVars
      PROVE  AudienceInv'
  <2>1. \A d \in Clients : Registering(d) => Registering(d)'
    BY <1>6 DEF Deliver, Registering
  <2>2. UNCHANGED <<rooms, sendState, playerStates, serve, reader>>
    BY <1>6 DEF Deliver, wsVars
  <2>3. WriterIsHost'
    BY <2>2 DEF AudienceInv, WriterIsHost, Host
  <2> QED
    BY <2>1, <2>2, <2>3, AudienceFrame
<1>7. ASSUME NEW w \in work, NEW racing, EvictSlow(w, racing), UNCHANGED wsVars
      PROVE  AudienceInv'
  <2>1. \A d \in Clients : Registering(d) => Registering(d)'
    BY <1>7 DEF EvictSlow, Registering
  <2>2. w.client \in Clients /\ IsCurrent(w.client)
    BY <1>7, WorkFields DEF EvictSlow, TypeOK, HubTypeOK, IInv, WorkOK
  <2>3. /\ rooms' = [rooms EXCEPT ![RoomOf[w.client]][UserOf[w.client]] = NoClient]
        /\ sendState' = [sendState EXCEPT ![w.client] = "evicted"]
        /\ playerStates' = playerStates
    BY <1>7 DEF EvictSlow
  <2> QED
    BY <1>7, <2>1, <2>2, <2>3, RemovalAudience
<1>8. ASSUME NEW c \in Clients,
             ServeStep(c) \/ HandlerStep(c) \/ TeardownStep(c) \/ WriterStep(c)
      PROVE  AudienceInv'
  BY <1>8, SocketAudience
<1>9. CASE HubStep
  <2>1. CASE \E c \in Clients :
                HandleRegister(c) \/ HandleUnregister(c) \/ HandleUnregisterStale(c)
    BY <1>2, <1>3, <1>4, <1>9, <2>1 DEF HubStep
  <2>2. CASE ReceiveBroadcast \/ ReceiveTargeted
    BY <1>5, <1>9, <2>2 DEF HubStep
  <2>3. CASE \E w \in work : Deliver(w) \/ EvictSlow(w, Reading(RoomOf[w.client]))
    BY <1>6, <1>7, <1>9, <2>3 DEF HubStep
  <2> QED
    BY <1>9, <2>1, <2>2, <2>3 DEF HubStep
<1> QED
  BY <1>1, <1>8, <1>9 DEF Next, Step, Halt

\* A player state does not outlive its room's last socket (hub.go, Run: the state is
\* deleted with the room), for any number of sockets, but after an eviction or where the
\* host was there with two sockets.
THEOREM AudienceStays == Spec => []PlayerStateHasAudience
<1>1. Init => AudienceInv
  BY DEF Init, HubInit, AudienceInv, WriterIsHost, Accounted
<1>2. AudienceInv => PlayerStateHasAudience
  BY DEF AudienceInv, Audience, PlayerStateHasAudience
<1> QED
  BY <1>1, <1>2, StepAudience, Inductive, TypeCorrect, PTL DEF Spec

-----------------------------------------------------------------------------
(* Who learns of whom.                                                     *)

\* The member:join of d is still to be put into the queue, or is in it.
JoinQueued(d) ==
    \E i \in 1..Len(broadcast) : broadcast[i].kind = "join" /\ broadcast[i].from = d

JoinAhead(d) == serve[d] \in {"roomClients", "presence"} \/ JoinQueued(d)

JoinTo(c, d) == [op |-> "deliver", client |-> c, kind |-> "join", from |-> d]

\* c shows d's user, or something that is still to come makes it do so.
ToLearn(c, d) ==
    \/ JoinAhead(d)
    \/ JoinTo(c, d) \in work
    \/ IsCurrent(d) /\ serve[c] = "roomClients"
    \/ serve[c] = "presence" /\ d \in online[c]
    \/ UserOf[d] \in roster[c]

Arrived(c) == IsCurrent(c) \/ Registering(c)

Owed(c, d) ==
    /\ Arrived(c) /\ Arrived(d)
    /\ RoomOf[c] = RoomOf[d] /\ UserOf[c] # UserOf[d]
    /\ c \notin missed
    /\ ~HasRival(d)

\* A join is for everybody else in the room.
JoinExcludesOwn ==
    \A i \in 1..Len(broadcast) :
        broadcast[i].kind = "join" => broadcast[i].exclude = UserOf[broadcast[i].from]

StaysInRoom ==
    \A w \in work : w.op = "deliver" => RoomOf[w.from] = RoomOf[w.client]

PresenceInv ==
    /\ JoinExcludesOwn
    /\ StaysInRoom
    /\ \A d \in Clients : Registering(d) => JoinAhead(d)
    /\ \A c, d \in Clients : Owed(c, d) => ToLearn(c, d)

\* serve never returns to new: who is owed a join after a step was owed it before,
\* unless a socket arrived.
LEMMA OwedBefore ==
  ASSUME NEW c \in Clients, NEW d \in Clients, Owed(c, d)',
         Arrived(c), Arrived(d), missed \subseteq missed',
         \A e \in Clients : serve[e] # "new" => serve'[e] # "new"
  PROVE  Owed(c, d)
BY RivalsStay DEF Owed

\* What is appended to the queue leaves the joins in it where they are.
LEMMA QueueGrows ==
  ASSUME HubTypeOK, NEW m \in BroadcastMessage, broadcast' = Append(broadcast, m)
  PROVE  /\ \A d : JoinQueued(d) => JoinQueued(d)'
         /\ m.kind = "join" => JoinQueued(m.from)'
         /\ JoinExcludesOwn /\ (m.kind = "join" => m.exclude = UserOf[m.from])
            => JoinExcludesOwn'
<1>1. /\ broadcast \in Seq(BroadcastMessage)
      /\ Len(broadcast) \in Nat /\ Len(broadcast') = Len(broadcast) + 1
      /\ \A i \in 1..Len(broadcast) : i \in 1..Len(broadcast') /\ broadcast'[i] = broadcast[i]
      /\ broadcast'[Len(broadcast) + 1] = m
  BY DEF HubTypeOK
<1>2. \A i \in 1..Len(broadcast') : i \in 1..Len(broadcast) \/ i = Len(broadcast) + 1
  BY <1>1
<1>3. \A d : JoinQueued(d) => JoinQueued(d)'
  BY <1>1 DEF JoinQueued
<1>4. m.kind = "join" => JoinQueued(m.from)'
  <2>1. Len(broadcast) + 1 \in 1..Len(broadcast')
    BY <1>1
  <2> QED
    BY <1>1, <2>1 DEF JoinQueued
<1>5. ASSUME JoinExcludesOwn, m.kind = "join" => m.exclude = UserOf[m.from]
      PROVE  JoinExcludesOwn'
  BY <1>1, <1>2, <1>5 DEF JoinExcludesOwn
<1> QED
  BY <1>3, <1>4, <1>5

\* A step by which nobody arrives and no Serve goes on to a step about presence.
LEMMA PresenceFrame ==
  ASSUME HubTypeOK, PresenceInv,
         UNCHANGED <<online, missed>>,
         \/ UNCHANGED broadcast
         \/ \E m \in BroadcastMessage : m.kind # "join" /\ broadcast' = Append(broadcast, m),
         \A c \in Clients :
             \/ serve'[c] = serve[c]
             \/ serve[c] = "snapshot" /\ serve'[c] \in {"done", "panicked"},
         \A c \in Clients :
             /\ Arrived(c)' => Arrived(c)
             /\ Registering(c)' => Registering(c)
             /\ IsCurrent(c) /\ Arrived(c)' => IsCurrent(c)',
         StaysInRoom',
         \A c, d \in Clients :
             Owed(c, d)' /\ JoinTo(c, d) \in work =>
                 JoinTo(c, d) \in work' \/ UserOf[d] \in roster'[c],
         \A c, d \in Clients :
             Owed(c, d)' /\ UserOf[d] \in roster[c] => UserOf[d] \in roster'[c]
  PROVE  PresenceInv'
<1>1. /\ JoinExcludesOwn'
      /\ \A d : JoinQueued(d) => JoinQueued(d)'
  <2>1. CASE UNCHANGED broadcast
    BY <2>1 DEF PresenceInv, JoinExcludesOwn, JoinQueued
  <2>2. ASSUME NEW m \in BroadcastMessage, m.kind # "join", broadcast' = Append(broadcast, m)
        PROVE  /\ JoinExcludesOwn'
               /\ \A d : JoinQueued(d) => JoinQueued(d)'
    BY <2>2, QueueGrows DEF PresenceInv
  <2> QED
    BY <2>1, <2>2
<1>2. \A d \in Clients : JoinAhead(d) => JoinAhead(d)'
  BY <1>1 DEF JoinAhead
<1>3. \A d \in Clients : Registering(d)' => JoinAhead(d)'
  BY <1>2 DEF PresenceInv
<1>4. ASSUME NEW c \in Clients, NEW d \in Clients, Owed(c, d)'
      PROVE  ToLearn(c, d)'
  <2>1. Arrived(c) /\ Arrived(d) /\ Arrived(d)'
    BY <1>4 DEF Owed
  <2>2. \A e \in Clients : serve[e] # "new" => serve'[e] # "new"
    OBVIOUS
  <2>3. ToLearn(c, d)
    BY <1>4, <2>1, <2>2, OwedBefore DEF PresenceInv
  <2> QED
    BY <1>2, <1>4, <2>1, <2>3 DEF ToLearn
<1> QED
  BY <1>1, <1>3, <1>4 DEF PresenceInv

\* The goroutines of the sockets, but for what Serve does about presence.
LEMMA SocketPresence ==
  ASSUME TypeOK, PresenceInv, NEW c \in Clients,
         \/ ServeSnapshot(c) \/ ServeSnapshotPanics(c) \/ ServeSnapshotSkipped(c)
         \/ HandlerStep(c) \/ TeardownStep(c) \/ WriterStep(c)
  PROVE  PresenceInv'
<1> USE DEF TypeOK, HubTypeOK
<1>1. UNCHANGED <<rooms, roster, online, missed>>
  BY DEF ServeSnapshot, ServeSnapshotPanics, ServeSnapshotSkipped, HandlerStep, ReadEvent,
         ReadRequest, ReadRequestPanics, Emit, Signal, SetState, TeardownStep, ReadError,
         Check, ReaderUnregister, Leave, CloseConn, WriterStep, Write, WriterEnds,
         hubVars, wsVars
<1>2. \A d \in Clients :
          \/ serve'[d] = serve[d]
          \/ serve[d] = "snapshot" /\ serve'[d] \in {"done", "panicked"}
  BY DEF ServeSnapshot, ServeSnapshotPanics, ServeSnapshotSkipped, HandlerStep, ReadEvent,
         ReadRequest, ReadRequestPanics, Emit, Signal, SetState, TeardownStep, ReadError,
         Check, ReaderUnregister, Leave, CloseConn, WriterStep, Write, WriterEnds,
         hubVars, wsVars, StartPumps, ServeTo
<1>3. /\ work \subseteq work'
      /\ \A w \in work' : w \in work \/ w = [op |-> "unregister", client |-> c]
  BY DEF ServeSnapshot, ServeSnapshotPanics, ServeSnapshotSkipped, HandlerStep, ReadEvent,
         ReadRequest, ReadRequestPanics, Emit, Signal, SetState, TeardownStep, ReadError,
         Check, ReaderUnregister, Unregister, AtSelect, Leave, CloseConn, WriterStep, Write,
         WriterEnds, hubVars, wsVars
<1>4. \/ UNCHANGED broadcast
      \/ \E m \in BroadcastMessage : m.kind # "join" /\ broadcast' = Append(broadcast, m)
  <2>1. CASE Emit(c) \/ Leave(c)
    <3>1. PICK k \in {"event", "leave"}, x \in Users \cup {NoUser} : BroadcastToRoom(c, k, x)
      BY <2>1 DEF Emit, Leave
    <3>2. [kind |-> k, from |-> c, exclude |-> x] \in BroadcastMessage
      BY DEF BroadcastMessage, Kinds
    <3>3. [kind |-> k, from |-> c, exclude |-> x].kind # "join"
      OBVIOUS
    <3> QED
      BY <3>1, <3>2, <3>3, Zenon DEF BroadcastToRoom
  <2>2. CASE ~(Emit(c) \/ Leave(c))
    BY <2>2 DEF ServeSnapshot, ServeSnapshotPanics, ServeSnapshotSkipped, HandlerStep,
         ReadEvent, ReadRequest, ReadRequestPanics, Signal, SetState, TeardownStep,
         ReadError, Check, ReaderUnregister, CloseConn, WriterStep, Write, WriterEnds,
         hubVars
  <2> QED
    BY <2>1, <2>2
<1>5. \A d \in Clients : /\ IsCurrent(d)' <=> IsCurrent(d)
                         /\ Registering(d)' <=> Registering(d)
  BY <1>1, <1>3 DEF IsCurrent, Registering
<1>6. StaysInRoom'
  BY <1>3 DEF PresenceInv, StaysInRoom
<1> QED
  BY <1>1, <1>2, <1>3, <1>4, <1>5, <1>6, PresenceFrame DEF Arrived

\* What Serve does about presence: c registers, reads who is there, presents each of
\* them to its browser and announces c.
LEMMA ServePresenceSteps ==
  ASSUME TypeOK, IInv, PresenceInv, NEW c \in Clients,
         \/ ServeRegister(c)
         \/ ServeRoomClients(c)
         \/ \E d \in Clients : ServePresence(c, d)
         \/ ServeAnnounce(c)
  PROVE  PresenceInv'
<1> USE DEF TypeOK, HubTypeOK
<1>1. /\ UNCHANGED rooms
      /\ \A d \in Clients \ {c} : serve'[d] = serve[d]
      /\ serve'[c] # "new"
  BY DEF ServeRegister, ServeRoomClients, ServePresence, ServeAnnounce, ServeTo, StartPumps,
         hubVars
<1>2. /\ \A d \in Clients : IsCurrent(d)' <=> IsCurrent(d)
      /\ \A d \in Clients : serve[d] # "new" => serve'[d] # "new"
  BY <1>1 DEF IsCurrent
<1>3. CASE ServeRegister(c)
  <2>1. /\ work = {} /\ work' = {[op |-> "register", client |-> c]}
        /\ serve[c] = "new" /\ serve'[c] = "roomClients"
        /\ UNCHANGED <<broadcast, online, roster, missed>>
    BY <1>3 DEF ServeRegister, Register, AtSelect, ServeTo
  <2>2. \A d \in Clients : /\ ~Registering(d)
                           /\ Registering(d)' <=> d = c
                           /\ JoinAhead(d) => JoinAhead(d)'
    BY <1>1, <2>1 DEF Registering, JoinAhead, JoinQueued
  <2>3. JoinExcludesOwn' /\ StaysInRoom'
    BY <2>1 DEF PresenceInv, JoinExcludesOwn, StaysInRoom
  <2>4. JoinAhead(c)'
    BY <2>1 DEF JoinAhead
  <2>5. ASSUME NEW a \in Clients, NEW b \in Clients, Owed(a, b)'
        PROVE  ToLearn(a, b)'
    <3>1. CASE b = c
      BY <2>4, <3>1 DEF ToLearn
    <3>2. CASE b # c /\ a = c
      <4>1. IsCurrent(b)'
        BY <2>2, <2>5, <3>2 DEF Owed, Arrived
      <4> QED
        BY <2>1, <3>2, <4>1 DEF ToLearn
    <3>3. CASE b # c /\ a # c
      <4>1. Arrived(a) /\ Arrived(b)
        BY <1>2, <2>2, <2>5, <3>3 DEF Owed, Arrived
      <4>2. ToLearn(a, b)
        BY <1>2, <2>1, <2>5, <4>1, OwedBefore DEF PresenceInv
      <4> QED
        BY <1>1, <1>2, <2>1, <2>2, <3>3, <4>2 DEF ToLearn
    <3> QED
      BY <3>1, <3>2, <3>3
  <2> QED
    BY <2>2, <2>3, <2>4, <2>5 DEF PresenceInv
<1>4. CASE ServeRoomClients(c)
  <2>1. /\ UNCHANGED <<work, broadcast, roster, missed>>
        /\ serve[c] = "roomClients" /\ serve'[c] = "presence"
        /\ online'[c] = {d \in RoomClients(RoomOf[c]) : UserOf[d] # UserOf[c]}
        /\ \A d \in Clients \ {c} : online'[d] = online[d]
    BY <1>4 DEF ServeRoomClients, ServeTo, hubVars
  <2>2. \A d \in Clients : /\ Registering(d)' <=> Registering(d)
                           /\ JoinAhead(d) => JoinAhead(d)'
    BY <1>1, <2>1 DEF Registering, JoinAhead, JoinQueued
  <2>3. JoinExcludesOwn' /\ StaysInRoom'
    BY <2>1 DEF PresenceInv, JoinExcludesOwn, StaysInRoom
  <2>4. ASSUME NEW a \in Clients, NEW b \in Clients, Owed(a, b)'
        PROVE  ToLearn(a, b)'
    <3>1. Arrived(a) /\ Arrived(b)
      BY <1>2, <2>2, <2>4 DEF Owed, Arrived
    <3>2. ToLearn(a, b)
      BY <1>2, <2>1, <2>4, <3>1, OwedBefore DEF PresenceInv
    <3>3. CASE a = c /\ IsCurrent(b)
      <4>1. RoomOf[b] = RoomOf[c] /\ UserOf[b] # UserOf[c]
        BY <2>4, <3>3 DEF Owed
      <4>2. b \in RoomClients(RoomOf[c])
        BY <3>3, <4>1 DEF IsCurrent, RoomClients
      <4> QED
        BY <2>1, <3>3, <4>1, <4>2 DEF ToLearn
    <3>4. CASE ~(a = c /\ IsCurrent(b))
      BY <1>1, <1>2, <2>1, <2>2, <3>2, <3>4 DEF ToLearn
    <3> QED
      BY <3>3, <3>4
  <2> QED
    BY <2>2, <2>3, <2>4 DEF PresenceInv
<1>5. ASSUME NEW e \in Clients, ServePresence(c, e)
      PROVE  PresenceInv'
  <2>1. /\ UNCHANGED <<work, broadcast>>
        /\ serve[c] = "presence"
        /\ online' = [online EXCEPT ![c] = @ \ {e}]
        /\ missed \subseteq missed'
        /\ \A d \in Clients \ {c} : roster'[d] = roster[d]
    BY <1>5 DEF ServePresence
  <2>2. \/ Closed(c)
        \/ c \in missed'
        \/ /\ serve'[c] = "presence"
           /\ roster'[c] = roster[c] \cup {UserOf[e]}
    BY <1>5 DEF ServePresence, Fold
  <2>3. Closed(c) => ~Arrived(c)
    BY DEF IInv, LifeOK, Arrived
  <2>4. ~Closed(c) => serve' = serve
    BY <1>5 DEF ServePresence
  <2>5. \A d \in Clients : Registering(d)' <=> Registering(d)
    BY <2>1 DEF Registering
  <2>6. ASSUME NEW d \in Clients, Arrived(d)', JoinAhead(d)
        PROVE  JoinAhead(d)'
    BY <1>1, <1>2, <2>1, <2>3, <2>4, <2>5, <2>6 DEF JoinAhead, JoinQueued, Arrived
  <2>7. \A d \in Clients : Registering(d)' => JoinAhead(d)'
    BY <2>5, <2>6 DEF PresenceInv, Arrived
  <2>8. JoinExcludesOwn' /\ StaysInRoom'
    BY <2>1 DEF PresenceInv, JoinExcludesOwn, StaysInRoom
  <2>9. ASSUME NEW a \in Clients, NEW b \in Clients, Owed(a, b)'
        PROVE  ToLearn(a, b)'
    <3>1. Arrived(a) /\ Arrived(b) /\ Arrived(b)'
      BY <1>2, <2>5, <2>9 DEF Owed, Arrived
    <3>2. ToLearn(a, b)
      BY <1>2, <2>1, <2>9, <3>1, OwedBefore DEF PresenceInv
    <3>3. JoinAhead(b) => JoinAhead(b)'
      BY <2>6, <3>1
    <3>4. CASE a = c
      <4>1. serve'[c] = "presence" /\ roster'[c] = roster[c] \cup {UserOf[e]}
        BY <2>2, <2>3, <2>9, <3>1, <3>4 DEF Owed
      <4>2. b \in online[c] => b \in online'[c] \/ UserOf[b] \in roster'[c]
        BY <2>1, <4>1
      <4> QED
        BY <2>1, <3>2, <3>3, <3>4, <4>1, <4>2 DEF ToLearn
    <3>5. CASE a # c
      BY <1>1, <1>2, <2>1, <3>2, <3>3, <3>5 DEF ToLearn
    <3> QED
      BY <3>4, <3>5
  <2> QED
    BY <2>7, <2>8, <2>9 DEF PresenceInv
<1>6. CASE ServeAnnounce(c)
  <2> DEFINE m == [kind |-> "join", from |-> c, exclude |-> UserOf[c]]
  <2>1. /\ UNCHANGED <<work, online, roster, missed>>
        /\ serve[c] = "presence" /\ online[c] = {}
        /\ broadcast' = Append(broadcast, m)
    BY <1>6 DEF ServeAnnounce, BroadcastToRoom
  <2>2. /\ m \in BroadcastMessage
        /\ m.kind = "join" /\ m.from = c /\ m.exclude = UserOf[c]
    BY DEF BroadcastMessage, Kinds
  <2> HIDE DEF m
  <2>3. /\ \A d : JoinQueued(d) => JoinQueued(d)'
        /\ JoinQueued(c)'
        /\ JoinExcludesOwn'
    BY <2>1, <2>2, QueueGrows DEF PresenceInv
  <2>4. \A d \in Clients : /\ Registering(d)' <=> Registering(d)
                           /\ JoinAhead(d) => JoinAhead(d)'
    BY <1>1, <2>1, <2>3 DEF Registering, JoinAhead
  <2>5. StaysInRoom'
    BY <2>1 DEF PresenceInv, StaysInRoom
  <2>6. ASSUME NEW a \in Clients, NEW b \in Clients, Owed(a, b)'
        PROVE  ToLearn(a, b)'
    <3>1. Arrived(a) /\ Arrived(b)
      BY <1>2, <2>4, <2>6 DEF Owed, Arrived
    <3>2. ToLearn(a, b)
      BY <1>2, <2>1, <2>6, <3>1, OwedBefore DEF PresenceInv
    <3> QED
      BY <1>1, <1>2, <2>1, <2>4, <3>2 DEF ToLearn
  <2> QED
    BY <2>3, <2>4, <2>5, <2>6 DEF PresenceInv
<1> QED
  BY <1>3, <1>4, <1>5, <1>6

\* The loop receives a broadcast: a join in it goes out to everybody it is owed.
LEMMA ReceivePresence ==
  ASSUME TypeOK, IInv, PresenceInv, UNCHANGED wsVars, ReceiveBroadcast
  PROVE  PresenceInv'
<1> USE DEF TypeOK, HubTypeOK
<1> DEFINE m == Head(broadcast)
<1>1. /\ work = {} /\ broadcast \in Seq(BroadcastMessage) /\ broadcast # <<>>
      /\ broadcast' = Tail(broadcast)
      /\ work' = {[op |-> "deliver", client |-> c, kind |-> m.kind, from |-> m.from] :
                     c \in {c \in RoomClients(RoomOf[m.from]) : UserOf[c] # m.exclude}}
      /\ UNCHANGED <<rooms, roster, serve, online, missed>>
  BY DEF ReceiveBroadcast, AtSelect, wsVars
<1>2. /\ 1 \in 1..Len(broadcast) /\ m = broadcast[1]
      /\ \A i \in 1..Len(broadcast) :
            i # 1 => i - 1 \in 1..Len(broadcast') /\ broadcast'[i - 1] = broadcast[i]
      /\ \A i \in 1..Len(broadcast') :
            i + 1 \in 1..Len(broadcast) /\ broadcast'[i] = broadcast[i + 1]
  BY <1>1
<1>3. m.from \in Clients /\ (m.kind = "join" => m.exclude = UserOf[m.from])
  BY <1>2, QueuedMessage DEF PresenceInv, JoinExcludesOwn
<1> HIDE DEF m
<1>4. JoinExcludesOwn'
  BY <1>2 DEF PresenceInv, JoinExcludesOwn
<1>5. StaysInRoom' /\ \A d \in Clients : ~Registering(d) /\ ~Registering(d)'
  <2>1. \A w \in work' : \E c \in RoomClients(RoomOf[m.from]) :
            w = [op |-> "deliver", client |-> c, kind |-> m.kind, from |-> m.from]
    BY <1>1
  <2>2. \A c \in RoomClients(RoomOf[m.from]) : RoomOf[c] = RoomOf[m.from]
    BY <1>3 DEF RoomClients, IInv, PlaceOK
  <2>3. \A w \in work' : w.op = "deliver" /\ RoomOf[w.from] = RoomOf[w.client]
    BY <2>1, <2>2
  <2> QED
    BY <1>1, <2>3 DEF StaysInRoom, Registering
<1>6. \A d \in Clients : IsCurrent(d)' <=> IsCurrent(d)
  BY <1>1 DEF IsCurrent
<1>7. ASSUME NEW c \in Clients, NEW d \in Clients, Owed(c, d)'
      PROVE  ToLearn(c, d)'
  <2>1. IsCurrent(c) /\ IsCurrent(d)
    BY <1>5, <1>6, <1>7 DEF Owed, Arrived
  <2>2. ToLearn(c, d)
    BY <1>1, <1>7, <2>1, OwedBefore DEF PresenceInv, Arrived
  <2>3. CASE JoinQueued(d)
    <3>1. PICK i \in 1..Len(broadcast) : broadcast[i].kind = "join" /\ broadcast[i].from = d
      BY <2>3 DEF JoinQueued
    <3>2. CASE i = 1
      <4>1. m.kind = "join" /\ m.from = d /\ m.exclude = UserOf[d]
        BY <1>2, <1>3, <3>1, <3>2
      <4>2. c \in RoomClients(RoomOf[d]) /\ UserOf[c] # UserOf[d]
        BY <1>7, <2>1 DEF Owed, IsCurrent, RoomClients
      <4>3. JoinTo(c, d) \in work'
        BY <1>1, <4>1, <4>2 DEF JoinTo
      <4> QED
        BY <4>3 DEF ToLearn
    <3>3. CASE i # 1
      <4>1. JoinQueued(d)'
        BY <1>2, <3>1, <3>3 DEF JoinQueued
      <4> QED
        BY <4>1 DEF ToLearn, JoinAhead
    <3> QED
      BY <3>2, <3>3
  <2>4. CASE ~JoinQueued(d)
    BY <1>1, <1>6, <2>2, <2>4 DEF ToLearn, JoinAhead
  <2> QED
    BY <2>3, <2>4
<1> QED
  BY <1>4, <1>5, <1>7 DEF PresenceInv

\* The steps of the loop that change who is in the map, and the targeted messages.
LEMMA MapPresence ==
  ASSUME TypeOK, IInv, PresenceInv, UNCHANGED wsVars,
         \/ \E c \in Clients : \/ HandleRegister(c)
                               \/ HandleUnregister(c)
                               \/ HandleUnregisterStale(c)
         \/ ReceiveTargeted
  PROVE  PresenceInv'
<1> USE DEF TypeOK, HubTypeOK
<1>1. UNCHANGED <<broadcast, roster, serve, online, missed>>
  BY DEF HandleRegister, HandleUnregister, HandleUnregisterStale, ReceiveTargeted, wsVars
<1>2. \A w \in work : w.op # "deliver"
  <2>1. ASSUME NEW r \in work, r.op # "deliver"
        PROVE  \A w \in work : w.op # "deliver"
    BY <2>1 DEF IInv, WorkOK
  <2>2. CASE ReceiveTargeted
    BY <2>2 DEF ReceiveTargeted, AtSelect
  <2>3. ASSUME NEW c \in Clients,
               HandleRegister(c) \/ HandleUnregister(c) \/ HandleUnregisterStale(c)
        PROVE  \A w \in work : w.op # "deliver"
    BY <2>1, <2>3 DEF HandleRegister, HandleUnregister, HandleUnregisterStale
  <2> QED
    BY <2>2, <2>3
<1>3. \A c, d \in Clients : JoinTo(c, d) \notin work
  BY <1>2 DEF JoinTo
<1>4. StaysInRoom' /\ \A d \in Clients : ~Registering(d)'
  <2>1. CASE ReceiveTargeted
    <3> DEFINE m == Head(targeted)
    <3>1. m \in TargetedMessage
      BY <2>1 DEF ReceiveTargeted
    <3>2. m.from \in Clients /\ m.target \in Users
      BY <3>1 DEF TargetedMessage
    <3> HIDE DEF m
    <3>3. \A w \in work' : \E d \in {rooms[RoomOf[m.from]][m.target]} \ {NoClient} :
              w = [op |-> "deliver", client |-> d, kind |-> "event", from |-> m.from]
      BY <2>1 DEF ReceiveTargeted, m
    <3>4. \A d \in {rooms[RoomOf[m.from]][m.target]} \ {NoClient} : RoomOf[d] = RoomOf[m.from]
      BY <3>2 DEF IInv, PlaceOK
    <3>5. \A w \in work' : w.op = "deliver" /\ RoomOf[w.from] = RoomOf[w.client]
      BY <3>3, <3>4
    <3> QED
      BY <3>5 DEF StaysInRoom, Registering
  <2>2. CASE work' = {}
    BY <2>2 DEF StaysInRoom, Registering
  <2> QED
    BY <2>1, <2>2 DEF HandleRegister, HandleUnregister, HandleUnregisterStale
<1>5. \A d \in Clients : IsCurrent(d)' => Arrived(d)
  <2>1. ASSUME NEW c \in Clients, HandleRegister(c), NEW d \in Clients, IsCurrent(d)'
        PROVE  Arrived(d)
    BY <2>1 DEF HandleRegister, IsCurrent, Arrived, Registering
  <2>2. ASSUME NEW c \in Clients, HandleUnregister(c), NEW d \in Clients, IsCurrent(d)'
        PROVE  Arrived(d)
    BY <2>2 DEF HandleUnregister, IsCurrent, Arrived
  <2>3. CASE UNCHANGED rooms
    BY <2>3 DEF IsCurrent, Arrived
  <2> QED
    BY <2>1, <2>2, <2>3 DEF HandleUnregisterStale, ReceiveTargeted
<1>6. \A d \in Clients : /\ Arrived(d)' => Arrived(d)
                         /\ Registering(d)' => Registering(d)
                         /\ IsCurrent(d) /\ Arrived(d)' => IsCurrent(d)'
  BY <1>4, <1>5 DEF Arrived
<1> QED
  BY <1>1, <1>3, <1>4, <1>6, PresenceFrame

\* A socket that a leave could make its browser forget is not one it was owed.
LEMMA ForgottenIsGone ==
  ASSUME TypeOK, IInv, PresenceInv, NEW w \in work, w.op = "deliver", w.kind = "leave",
         NEW d \in Clients, Arrived(d), RoomOf[d] = RoomOf[w.client],
         UserOf[d] = UserOf[w.from]
  PROVE  HasRival(d)
<1> USE DEF TypeOK, HubTypeOK
<1>1. w.from \in Clients /\ RoomOf[w.from] = RoomOf[d]
  BY WorkFields DEF PresenceInv, StaysInRoom
<1>2. reader[w.from] \in {"close", "done"} /\ serve[w.from] = "done"
  BY <1>1 DEF IInv, LeaveOK, LifeOK
<1>3. ~Unregistering(w.from) /\ ~Registering(w.from)
  <2>1. \A r \in work : r.op = "deliver"
    BY DEF IInv, WorkOK
  <2> QED
    BY <2>1 DEF Unregistering, Registering
<1>4. ~Arrived(w.from)
  BY <1>1, <1>2, <1>3 DEF IInv, NoOrphan, Unregistering, Arrived
<1> QED
  BY <1>1, <1>2, <1>4 DEF HasRival

\* The loop delivers one message, or evicts the socket it was for.
LEMMA DeliverPresence ==
  ASSUME TypeOK, IInv, PresenceInv, UNCHANGED wsVars, NEW w \in work, NEW racing,
         Deliver(w) \/ EvictSlow(w, racing)
  PROVE  PresenceInv'
<1> USE DEF TypeOK, HubTypeOK
<1>1. /\ UNCHANGED <<broadcast, serve, online, missed>>
      /\ work' = work \ {w} /\ w.op = "deliver"
  BY DEF Deliver, EvictSlow, wsVars
<1>2. /\ w.client \in Clients /\ w.from \in Clients /\ w.kind \in Kinds
      /\ IsCurrent(w.client) /\ ~Closed(w.client)
  BY <1>1, WorkFields DEF IInv, WorkOK, LifeOK
<1>3. StaysInRoom' /\ \A d \in Clients : ~Registering(d) /\ ~Registering(d)'
  <2>1. \A r \in work : r.op = "deliver"
    BY <1>1 DEF IInv, WorkOK
  <2> QED
    BY <1>1, <2>1 DEF PresenceInv, StaysInRoom, Registering
<1>4. \A d \in Clients : IsCurrent(d)' => IsCurrent(d)
  <2>1. \/ UNCHANGED rooms
        \/ rooms' = [rooms EXCEPT ![RoomOf[w.client]][UserOf[w.client]] = NoClient]
    BY DEF Deliver, EvictSlow
  <2>2. ASSUME NEW c \in Clients, NEW d \in Clients, IsCurrent(d)',
               rooms' = [rooms EXCEPT ![RoomOf[c]][UserOf[c]] = NoClient]
        PROVE  IsCurrent(d)
    BY <2>2 DEF IsCurrent
  <2> QED
    BY <1>2, <2>1, <2>2 DEF IsCurrent
<1>5. \A d \in Clients : /\ Arrived(d)' => Arrived(d)
                         /\ IsCurrent(d) /\ Arrived(d)' => IsCurrent(d)'
  BY <1>3, <1>4 DEF Arrived
<1>6. CASE Deliver(w)
  <2>1. roster' = [roster EXCEPT ![w.client] = Fold(@, w.kind, w.from)]
    BY <1>2, <1>6 DEF Deliver, Enqueue
  <2>2. ASSUME NEW c \in Clients, NEW d \in Clients, Owed(c, d)', JoinTo(c, d) \in work
        PROVE  JoinTo(c, d) \in work' \/ UserOf[d] \in roster'[c]
    <3>1. CASE JoinTo(c, d) = w
      <4>1. w.client = c /\ w.kind = "join" /\ w.from = d
        BY <3>1 DEF JoinTo
      <4> QED
        BY <2>1, <4>1 DEF Fold
    <3>2. CASE JoinTo(c, d) # w
      BY <1>1, <2>2, <3>2
    <3> QED
      BY <3>1, <3>2
  <2>3. ASSUME NEW c \in Clients, NEW d \in Clients, Owed(c, d)', UserOf[d] \in roster[c]
        PROVE  UserOf[d] \in roster'[c]
    <3>1. CASE c = w.client /\ w.kind = "leave" /\ UserOf[d] = UserOf[w.from]
      <4>1. Arrived(d) /\ RoomOf[d] = RoomOf[w.client] /\ ~HasRival(d)'
        BY <1>5, <2>3, <3>1 DEF Owed
      <4>2. HasRival(d)
        BY <1>1, <3>1, <4>1, ForgottenIsGone
      <4> QED
        BY <1>1, <4>1, <4>2, RivalsStay
    <3>2. CASE ~(c = w.client /\ w.kind = "leave" /\ UserOf[d] = UserOf[w.from])
      BY <2>1, <2>3, <3>2 DEF Fold
    <3> QED
      BY <3>1, <3>2
  <2> QED
    BY <1>1, <1>3, <1>5, <2>2, <2>3, PresenceFrame
<1>7. CASE EvictSlow(w, racing)
  <2>1. roster' = roster /\ ~IsCurrent(w.client)'
    BY <1>2, <1>7 DEF EvictSlow, IsCurrent
  <2>2. ASSUME NEW c \in Clients, NEW d \in Clients, Owed(c, d)', JoinTo(c, d) \in work
        PROVE  JoinTo(c, d) \in work'
    <3>1. c # w.client
      BY <1>3, <2>1, <2>2 DEF Owed, Arrived
    <3>2. JoinTo(c, d) # w
      BY <3>1 DEF JoinTo
    <3> QED
      BY <1>1, <2>2, <3>2
  <2> QED
    BY <1>1, <1>3, <1>5, <2>1, <2>2, PresenceFrame
<1> QED
  BY <1>6, <1>7

LEMMA StepPresence == TypeOK /\ IInv /\ PresenceInv /\ [Next]_vars => PresenceInv'
<1> SUFFICES ASSUME TypeOK, IInv, PresenceInv, [Next]_vars
             PROVE  PresenceInv'
  OBVIOUS
<1>1. CASE UNCHANGED vars
  <2>1. UNCHANGED <<rooms, work, broadcast, roster, serve, online, missed>>
    BY <1>1 DEF vars, hubVars, wsVars
  <2>2. \A d \in Clients : /\ IsCurrent(d)' <=> IsCurrent(d)
                           /\ Registering(d)' <=> Registering(d)
    BY <2>1 DEF IsCurrent, Registering
  <2>3. StaysInRoom'
    BY <2>1 DEF PresenceInv, StaysInRoom
  <2> QED
    BY <2>1, <2>2, <2>3, PresenceFrame DEF Arrived, TypeOK
<1>2. CASE HubStep
  <2>1. CASE \/ \E c \in Clients : \/ HandleRegister(c)
                                   \/ HandleUnregister(c)
                                   \/ HandleUnregisterStale(c)
             \/ ReceiveTargeted
    BY <1>2, <2>1, MapPresence DEF HubStep
  <2>2. CASE ReceiveBroadcast
    BY <1>2, <2>2, ReceivePresence DEF HubStep
  <2>3. CASE \E w \in work : Deliver(w) \/ EvictSlow(w, Reading(RoomOf[w.client]))
    BY <1>2, <2>3, DeliverPresence DEF HubStep
  <2> QED
    BY <1>2, <2>1, <2>2, <2>3 DEF HubStep
<1>3. ASSUME NEW c \in Clients,
             ServeStep(c) \/ HandlerStep(c) \/ TeardownStep(c) \/ WriterStep(c)
      PROVE  PresenceInv'
  BY <1>3, SocketPresence, ServePresenceSteps DEF ServeStep
<1> QED
  BY <1>1, <1>2, <1>3 DEF Next, Step, Halt

\* Two users whose joins cross learn of each other, for any number of sockets, users and
\* rooms (ws_handler.go, Serve: it registers its socket before it reads who is online):
\* once all is quiet a browser shows every user online, unless its own Send was full or
\* that user reconnected.
THEOREM PresenceGetsComplete == Spec => []PresenceComplete
<1>1. Init => PresenceInv
  <2> SUFFICES ASSUME Init
               PROVE  PresenceInv
    OBVIOUS
  <2>1. /\ broadcast = <<>> /\ work = {}
        /\ \A c \in Clients : ~Arrived(c)
    BY DEF Init, HubInit, Arrived, IsCurrent, Registering
  <2> QED
    BY <2>1 DEF PresenceInv, JoinExcludesOwn, StaysInRoom, Owed, Arrived
<1>2. PresenceInv => PresenceComplete
  <2> SUFFICES ASSUME PresenceInv, Quiet, NEW c \in Clients, NEW d \in Clients,
                      IsCurrent(c), IsCurrent(d), RoomOf[c] = RoomOf[d],
                      UserOf[c] # UserOf[d], c \notin missed, ~HasRival(d)
               PROVE  UserOf[d] \in roster[c]
    BY DEF PresenceComplete
  <2>1. ToLearn(c, d)
    BY DEF PresenceInv, Owed, Arrived
  <2>2. ~JoinAhead(d)
    BY DEF Quiet, JoinAhead, JoinQueued
  <2> QED
    BY <2>1, <2>2 DEF ToLearn, Quiet, AtSelect
<1> QED
  BY <1>1, <1>2, StepPresence, Inductive, TypeCorrect, PTL DEF Spec

-----------------------------------------------------------------------------
(* The hub implements the registry of sockets.                             *)

\* What the status of a socket depends on.
LEMMA StatusFrame ==
  ASSUME \A d \in Clients : /\ IsCurrent(d)' <=> IsCurrent(d)
                            /\ Closed(d)' <=> Closed(d)
                            /\ (serve[d] = "new" \/ Registering(d))'
                                  <=> (serve[d] = "new" \/ Registering(d))
  PROVE  SocketStatus' = SocketStatus
BY DEF SocketStatus

\* A socket is registered: it takes its user's place.
LEMMA RegisterAttaches ==
  ASSUME TypeOK, IInv, UNCHANGED wsVars, NEW c \in Clients, HandleRegister(c)
  PROVE  Registry!Attach(c)
<1> USE DEF TypeOK, HubTypeOK, IInv
<1>1. /\ rooms' = [rooms EXCEPT ![RoomOf[c]][UserOf[c]] = c]
      /\ work = {[op |-> "register", client |-> c]}
      /\ work' = {}
      /\ UNCHANGED <<sendState, serve>>
  BY DEF HandleRegister, wsVars, WorkOK
<1>2. \A d \in Clients : (Registering(d) <=> d = c) /\ ~Registering(d)'
  BY <1>1 DEF Registering
<1>3. ~IsCurrent(c) /\ ~Closed(c) /\ IsCurrent(c)'
  <2>1. IsCurrent(c)'
    BY <1>1 DEF IsCurrent
  <2> QED
    BY <1>2, <2>1 DEF LifeOK
<1>4. \A d \in Clients \ {c} :
          IsCurrent(d)' <=> (IsCurrent(d) /\ ~Registry!SamePlace(c, d))
  BY <1>1 DEF IsCurrent, Registry!SamePlace
<1>5. \A d \in Clients : IsCurrent(d) => ~Closed(d) /\ serve[d] # "new"
  BY DEF LifeOK
<1>6. \A d \in Clients : Closed(d)' <=> Closed(d)
  BY <1>1 DEF Closed
<1>7. SocketStatus[c] = "new"
  BY <1>2, <1>3 DEF SocketStatus
<1>8. SocketStatus' =
        [d \in Clients |->
           IF d = c THEN "current"
           ELSE IF Registry!SamePlace(c, d) /\ SocketStatus[d] = "current" THEN "superseded"
           ELSE SocketStatus[d]]
  BY <1>1, <1>2, <1>3, <1>4, <1>5, <1>6 DEF SocketStatus
<1> QED
  BY <1>7, <1>8 DEF Registry!Attach

\* A registered socket is unregistered or evicted: it gives its place up.
LEMMA RemovalDetaches ==
  ASSUME TypeOK, IInv, UNCHANGED <<serve>>, NEW c \in Clients, IsCurrent(c),
         rooms' = [rooms EXCEPT ![RoomOf[c]][UserOf[c]] = NoClient],
         Closed(c)', \A d \in Clients \ {c} : Closed(d)' <=> Closed(d),
         \A d \in Clients : Registering(d)' <=> Registering(d)
  PROVE  Registry!Detach(c)
<1> USE DEF TypeOK, HubTypeOK
<1>1. ~IsCurrent(c)' /\ \A d \in Clients \ {c} : IsCurrent(d)' <=> IsCurrent(d)
  <2>1. ~IsCurrent(c)'
    BY DEF IsCurrent
  <2>2. ASSUME NEW d \in Clients \ {c}
        PROVE  IsCurrent(d)' <=> IsCurrent(d)
    BY DEF IsCurrent
  <2> QED
    BY <2>1, <2>2
<1>2. SocketStatus[c] = "current"
  BY DEF SocketStatus
<1>3. SocketStatus' = [SocketStatus EXCEPT ![c] = "gone"]
  BY <1>1 DEF SocketStatus
<1> QED
  BY <1>2, <1>3 DEF Registry!Detach

\* The hub implements SocketRegistry: one current socket per user and room, and
\* no socket that was superseded or closed is ever current again (hub.go, the
\* register and unregister cases and the evictions).
THEOREM HubImplementsRegistry == Spec => RegistrySpec
<1>1. Init => Registry!Init
  BY DEF Init, HubInit, Registry!Init, SocketStatus, IsCurrent, Closed
<1>2. TypeOK /\ IInv /\ [Next]_vars => [Registry!Next]_SocketStatus
  <2> SUFFICES ASSUME TypeOK, IInv, [Next]_vars
               PROVE  Registry!Next \/ SocketStatus' = SocketStatus
    BY DEF Registry!Next
  <2> USE DEF TypeOK, HubTypeOK
  <2>1. CASE UNCHANGED vars
    BY <2>1, StatusFrame DEF IsCurrent, Closed, Registering, vars, hubVars, wsVars
  <2>2. ASSUME NEW c \in Clients, HandleRegister(c), UNCHANGED wsVars
        PROVE  Registry!Next
    BY <2>2, RegisterAttaches DEF Registry!Next
  <2>3. ASSUME NEW c \in Clients, HandleUnregister(c), UNCHANGED wsVars
        PROVE  Registry!Next
    <3>1. \A d \in Clients : ~Registering(d) /\ ~Registering(d)'
      <4>1. work = {[op |-> "unregister", client |-> c]} /\ work' = {}
        BY <2>3 DEF HandleUnregister, IInv, WorkOK
      <4> QED
        BY <4>1 DEF Registering
    <3>2. /\ Closed(c)' /\ \A d \in Clients \ {c} : Closed(d)' <=> Closed(d)
          /\ IsCurrent(c) /\ UNCHANGED serve
          /\ rooms' = [rooms EXCEPT ![RoomOf[c]][UserOf[c]] = NoClient]
      BY <2>3 DEF HandleUnregister, Closed, wsVars
    <3> QED
      BY <3>1, <3>2, RemovalDetaches DEF Registry!Next
  <2>4. ASSUME NEW c \in Clients, HandleUnregisterStale(c), UNCHANGED wsVars
        PROVE  SocketStatus' = SocketStatus
    <3>1. \A d \in Clients : ~Registering(d) /\ ~Registering(d)'
      BY <2>4 DEF HandleUnregisterStale, Registering, IInv, WorkOK
    <3> QED
      BY <2>4, <3>1, StatusFrame DEF HandleUnregisterStale, IsCurrent, Closed, wsVars
  <2>5. ASSUME ReceiveBroadcast \/ ReceiveTargeted, UNCHANGED wsVars
        PROVE  SocketStatus' = SocketStatus
    <3>1. \A d \in Clients : ~Registering(d) /\ ~Registering(d)'
      BY <2>5 DEF ReceiveBroadcast, ReceiveTargeted, AtSelect, Registering
    <3> QED
      BY <2>5, <3>1, StatusFrame
      DEF ReceiveBroadcast, ReceiveTargeted, IsCurrent, Closed, wsVars
  <2>6. ASSUME NEW w \in work, Deliver(w), UNCHANGED wsVars
        PROVE  SocketStatus' = SocketStatus
    <3>1. \A d \in Clients : Registering(d)' <=> Registering(d)
      BY <2>6 DEF Deliver, Registering
    <3> QED
      BY <2>6, <3>1, StatusFrame DEF Deliver, IsCurrent, Closed, wsVars
  <2>7. ASSUME NEW w \in work, NEW racing, EvictSlow(w, racing), UNCHANGED wsVars
        PROVE  Registry!Next
    <3> DEFINE c == w.client
    <3>1. \A d \in Clients : Registering(d)' <=> Registering(d)
      BY <2>7 DEF EvictSlow, Registering
    <3>2. c \in Clients /\ IsCurrent(c)
      BY <2>7, WorkFields DEF EvictSlow, IInv, WorkOK
    <3>3. /\ Closed(c)' /\ \A d \in Clients \ {c} : Closed(d)' <=> Closed(d)
          /\ UNCHANGED serve
          /\ rooms' = [rooms EXCEPT ![RoomOf[c]][UserOf[c]] = NoClient]
      BY <2>7, <3>2 DEF EvictSlow, Closed, wsVars
    <3> HIDE DEF c
    <3> QED
      BY <3>1, <3>2, <3>3, RemovalDetaches DEF Registry!Next
  <2>8. ASSUME NEW c \in Clients, ServeRegister(c)
        PROVE  SocketStatus' = SocketStatus
    <3>1. /\ work = {} /\ work' = {[op |-> "register", client |-> c]}
          /\ serve[c] = "new"
          /\ \A d \in Clients \ {c} : serve'[d] = serve[d]
          /\ UNCHANGED <<rooms, sendState>>
      BY <2>8 DEF ServeRegister, ServeTo, Register, AtSelect
    <3>2. \A d \in Clients : ~Registering(d) /\ (Registering(d)' <=> d = c)
      BY <3>1 DEF Registering
    <3>3. \A d \in Clients : (serve[d] = "new" \/ Registering(d))'
                                <=> (serve[d] = "new" \/ Registering(d))
      BY <3>1, <3>2
    <3> QED
      BY <3>1, <3>3, StatusFrame DEF IsCurrent, Closed
  <2>9. ASSUME NEW c \in Clients, ReaderUnregister(c)
        PROVE  SocketStatus' = SocketStatus
    <3>1. \A d \in Clients : ~Registering(d) /\ ~Registering(d)'
      BY <2>9 DEF ReaderUnregister, Unregister, AtSelect, Registering
    <3> QED
      BY <2>9, <3>1, StatusFrame DEF ReaderUnregister, IsCurrent, Closed
  <2>10. ASSUME NEW c \in Clients, ServeStep(c), ~ServeRegister(c)
         PROVE  SocketStatus' = SocketStatus
    <3>1. UNCHANGED <<rooms, work, sendState>>
      BY <2>10 DEF ServeStep, ServeRoomClients, ServePresence, ServeAnnounce, ServeSnapshot,
           ServeSnapshotPanics, ServeSnapshotSkipped, hubVars
    <3>2. /\ serve[c] # "new" /\ serve'[c] # "new"
          /\ \A d \in Clients \ {c} : serve'[d] = serve[d]
      BY <2>10 DEF ServeStep, ServeRoomClients, ServePresence, ServeAnnounce, ServeSnapshot,
           ServeSnapshotPanics, ServeSnapshotSkipped, ServeTo, StartPumps
    <3> QED
      BY <3>1, <3>2, StatusFrame DEF IsCurrent, Closed, Registering
  <2>11. ASSUME NEW c \in Clients, ~ReaderUnregister(c),
                HandlerStep(c) \/ TeardownStep(c) \/ WriterStep(c)
         PROVE  SocketStatus' = SocketStatus
    <3>1. UNCHANGED <<rooms, work, sendState, serve>>
      BY <2>11 DEF HandlerStep, ReadEvent, ReadRequest, ReadRequestPanics, Emit, Signal,
           SetState, TeardownStep, ReadError, Check, Leave, CloseConn, WriterStep, Write,
           WriterEnds, hubVars, wsVars
    <3> QED
      BY <3>1, StatusFrame DEF IsCurrent, Closed, Registering
  <2> QED
    BY <2>1, <2>2, <2>3, <2>4, <2>5, <2>6, <2>7, <2>8, <2>9, <2>10, <2>11
    DEF Next, Step, Halt, HubStep
<1> QED
  BY <1>1, <1>2, Inductive, TypeCorrect, PTL DEF Spec, RegistrySpec, Registry!Spec

=============================================================================
