---------------------------- MODULE EventProofs ----------------------------
(***************************************************************************)
(* What the events of a room promise.  Of the player (PlayerSync), for any *)
(* number of tabs and viewers, events, restarts and PATCHes, and queues of *)
(* any capacity; of the chat (Chat), for any messages, any sizes of a page *)
(* and any number of seconds.                                              *)
(***************************************************************************)
EXTENDS PlayerSync, Chat, SequenceTheorems, FiniteSetTheorems, TLAPS

-----------------------------------------------------------------------------
(* The inductive invariant.                                                *)

\* Where a host and a viewer may be.
KindsOK ==
    /\ \A h \in Hosts : pc[h] \in HostPC
    /\ \A v \in Viewers : pc[v] \in ViewerPC

\* Nothing is ahead of the events there have been.
EventsOK ==
    /\ row <= events
    /\ hub <= events
    /\ \A s \in Sockets : val[s] <= events
    /\ \A x \in rest : x <= events
    /\ \A x \in closes : x <= events

\* One tab is in a handler at a time, and nobody else writes the hub's state.
HandlerOK ==
    /\ \A g, h \in Hosts : InHandler(g) /\ InHandler(h) => g = h
    /\ \A h \in Hosts :
          /\ pc[h] \in {"save", "set"} => val[h] # 0
          /\ pc[h] \in {"emit", "refresh"} => val[h] = hub /\ hub # 0

\* The row is at x, or was closed after it.
RowAt(x) == row = x \/ (Ended /\ x < row)

\* The row has what the hub will have, or has.
RowOK ==
    /\ \A h \in Hosts : pc[h] = "set" => RowAt(val[h])
    /\ (\A h \in Hosts : pc[h] # "set") => hub = 0 \/ RowAt(hub)

\* Nothing on its way is newer than the latest change.
Behind ==
    /\ \A i \in 1..Len(broadcast) : broadcast[i] <= events
    /\ \A v \in Viewers :
          /\ shown[v] <= events
          /\ \A i \in 1..Len(send[v]) : send[v][i] <= events

\* All that is on its way is behind the row.
SavedOK ==
    /\ hub <= row
    /\ \A i \in 1..Len(broadcast) : broadcast[i] <= row
    /\ \A v \in Viewers : \A i \in 1..Len(send[v]) : send[v][i] <= row
    /\ \A v \in Viewers : shown[v] <= row
    /\ \A v \in Viewers : pc[v] = "queue" => val[v] <= row
    /\ \A h \in Hosts : pc[h] \in {"set", "emit", "refresh"} => val[h] <= row

Newest(s) == s[Len(s)]

\* The last thing that v will have been told.
Last(v) == IF broadcast # <<>> THEN Newest(broadcast)
           ELSE IF send[v] # <<>> THEN Newest(send[v])
           ELSE shown[v]

\* v has been told something, or will be.
Told(v) == broadcast # <<>> \/ send[v] # <<>> \/ pc[v] = "read"

\* Between two events, the last thing that anybody is told is the current state.
ConvergeOK ==
    (\A h \in Hosts : pc[h] \notin {"set", "emit"}) /\ ~OnlyTheRowKnows =>
        /\ broadcast # <<>> => Newest(broadcast) = Current
        /\ \A v \in Viewers \ late : pc[v] # "off" /\ Told(v) => Last(v) = Current

IInv ==
    /\ TypeOK
    /\ KindsOK
    /\ EventsOK
    /\ Behind
    /\ ~crossed => HandlerOK
    /\ ~crossed /\ ~unsaved => RowOK
    /\ ~crossed /\ ~unsaved => SavedOK
    /\ ~crossed => ConvergeOK

-----------------------------------------------------------------------------
(* Sequences of states.                                                    *)

LEMMA AppendNewest ==
    ASSUME NEW S, NEW s \in Seq(S), NEW x \in S
    PROVE  /\ Append(s, x) \in Seq(S)
           /\ Append(s, x) # <<>>
           /\ Len(Append(s, x)) = Len(s) + 1
           /\ Newest(Append(s, x)) = x
           /\ \A i \in 1..Len(s) : Append(s, x)[i] = s[i]
  BY AppendProperties DEF Newest

LEMMA TailNewest ==
    ASSUME NEW S, NEW s \in Seq(S), s # <<>>
    PROVE  /\ Head(s) \in S
           /\ Head(s) = s[1]
           /\ Tail(s) \in Seq(S)
           /\ Len(s) \in Nat \ {0}
           /\ Len(Tail(s)) = Len(s) - 1
           /\ Tail(s) # <<>> => Newest(Tail(s)) = Newest(s)
           /\ Tail(s) = <<>> => Newest(s) = Head(s)
           /\ \A i \in 1..Len(Tail(s)) : Tail(s)[i] = s[i + 1]
  <1>1. /\ Head(s) \in S /\ Tail(s) \in Seq(S)
        /\ Len(Tail(s)) = Len(s) - 1
        /\ \A i \in 1..Len(Tail(s)) : Tail(s)[i] = s[i + 1]
    BY HeadTailProperties
  <1>2. Len(s) \in Nat \ {0}
    BY EmptySeq, LenProperties
  <1>3. Head(s) = s[1]
    OBVIOUS
  <1>4. ASSUME Tail(s) # <<>> PROVE Newest(Tail(s)) = Newest(s)
    <2>1. Len(Tail(s)) \in Nat \ {0}
      BY <1>1, <1>4, EmptySeq, LenProperties
    <2> QED
      BY <1>1, <1>2, <2>1 DEF Newest
  <1>5. ASSUME Tail(s) = <<>> PROVE Newest(s) = Head(s)
    <2>1. Len(s) = 1
      BY <1>1, <1>2, <1>5
    <2> QED
      BY <1>3, <2>1 DEF Newest
  <1> QED
    BY <1>1, <1>2, <1>3, <1>4, <1>5

-----------------------------------------------------------------------------
(* Types.                                                                  *)

LEMMA TypeInit == Init => TypeOK /\ KindsOK
  <1> SUFFICES ASSUME Init PROVE TypeOK /\ KindsOK
    OBVIOUS
  <1> USE PlayerSyncAssumption DEF Init, Sockets, States, HostPC, ViewerPC
  <1>1. TypeOK
    <2>1. send \in [Viewers -> Seq(States)] /\ \A v \in Viewers : Len(send[v]) <= SendCap
      BY EmptySeq
    <2>2. broadcast \in Seq(States)
      BY EmptySeq
    <2>3. 0 \in States /\ 0 \in 0..MaxRestarts /\ 0 \in 0..MaxUpdates
      OBVIOUS
    <2>4. /\ shown \in [Viewers -> States] /\ val \in [Sockets -> States]
          /\ pc \in [Sockets -> HostPC \cup ViewerPC]
      BY <2>3
    <2> QED
      BY <2>1, <2>2, <2>3, <2>4 DEF TypeOK
  <1>2. KindsOK
    BY DEF KindsOK
  <1> QED
    BY <1>1, <1>2

LEMMA TypeStep ==
    ASSUME TypeOK, KindsOK, [Next]_vars
    PROVE  TypeOK' /\ KindsOK'
  <1> USE PlayerSyncAssumption DEF TypeOK, KindsOK, Sockets, States, HostPC, ViewerPC, To
  <1>1. ASSUME NEW h \in Hosts, HostJoins(h) PROVE TypeOK' /\ KindsOK'
    BY <1>1 DEF HostJoins
  <1>2. ASSUME NEW h \in Hosts, Leaves(h) PROVE TypeOK' /\ KindsOK'
    BY <1>2 DEF Leaves
  <1>3. ASSUME NEW h \in Hosts, PlayerEvent(h) PROVE TypeOK' /\ KindsOK'
    BY <1>3 DEF PlayerEvent, Dispatch
  <1>4. ASSUME NEW h \in Hosts, SaveRow(h) PROVE TypeOK' /\ KindsOK'
    <2>1. CASE row' = val[h] /\ UNCHANGED unsaved
      BY <1>4, <2>1 DEF SaveRow
    <2>2. CASE unsaved' = TRUE /\ UNCHANGED row
      BY <1>4, <2>2 DEF SaveRow
    <2> QED
      BY <1>4, <2>1, <2>2 DEF SaveRow
  <1>5. ASSUME NEW h \in Hosts, SetState(h) PROVE TypeOK' /\ KindsOK'
    BY <1>5 DEF SetState
  <1>6. ASSUME NEW h \in Hosts, EmitSync(h) PROVE TypeOK' /\ KindsOK'
    BY <1>6, AppendNewest DEF EmitSync
  <1>7. ASSUME NEW h \in Hosts, RefreshRead(h) PROVE TypeOK' /\ KindsOK'
    BY <1>7 DEF RefreshRead, Dispatch
  <1>8. ASSUME NEW h \in Hosts, RefreshWrite(h) PROVE TypeOK' /\ KindsOK'
    BY <1>8 DEF RefreshWrite
  <1>9. ASSUME NEW v \in Viewers, ViewerJoins(v) PROVE TypeOK' /\ KindsOK'
    BY <1>9, EmptySeq DEF ViewerJoins
  <1>10. ASSUME NEW v \in Viewers, Leaves(v) PROVE TypeOK' /\ KindsOK'
    BY <1>10 DEF Leaves
  <1>11. ASSUME NEW v \in Viewers, RequestSync(v) PROVE TypeOK' /\ KindsOK'
    BY <1>11 DEF RequestSync
  <1>12. ASSUME NEW v \in Viewers, SnapshotHub(v) PROVE TypeOK' /\ KindsOK'
    <2>1. CASE hub # 0
      BY <1>12, <2>1 DEF SnapshotHub
    <2>2. CASE hub = 0
      BY <1>12, <2>2 DEF SnapshotHub
    <2> QED
      BY <2>1, <2>2
  <1>13. ASSUME NEW v \in Viewers, SnapshotRow(v) PROVE TypeOK' /\ KindsOK'
    BY <1>13 DEF SnapshotRow
  <1>14. ASSUME NEW v \in Viewers, SnapshotQueue(v) PROVE TypeOK' /\ KindsOK'
    <2>1. CASE Len(send[v]) < SendCap
      <3>1. /\ Append(send[v], val[v]) \in Seq(States)
            /\ Len(Append(send[v], val[v])) <= SendCap
        BY <2>1, AppendNewest, LenProperties
      <3>2. /\ send' \in [Viewers -> Seq(States)]
            /\ \A w \in Viewers : Len(send'[w]) <= SendCap
        BY <1>14, <2>1, <3>1 DEF SnapshotQueue
      <3>3. late' \subseteq Viewers
        BY <1>14, <2>1 DEF SnapshotQueue
      <3> QED
        BY <1>14, <3>2, <3>3 DEF SnapshotQueue
    <2>2. CASE ~(Len(send[v]) < SendCap)
      BY <1>14, <2>2 DEF SnapshotQueue
    <2> QED
      BY <2>1, <2>2
  <1>15. ASSUME NEW v \in Viewers, Follow(v) PROVE TypeOK' /\ KindsOK'
    BY <1>15, TailNewest DEF Follow
  <1>16. CASE Deliver
    <2>1. Head(broadcast) \in States /\ Tail(broadcast) \in Seq(States)
      BY <1>16, TailNewest DEF Deliver
    <2>2. ASSUME NEW v \in Listeners \ Slow
          PROVE  /\ Append(send[v], Head(broadcast)) \in Seq(States)
                 /\ Len(Append(send[v], Head(broadcast))) <= SendCap
      BY <2>1, <2>2, AppendNewest, LenProperties DEF Listeners, Slow
    <2>3. /\ send' \in [Viewers -> Seq(States)]
          /\ \A v \in Viewers : Len(send'[v]) <= SendCap
      BY <1>16, <2>2 DEF Deliver
    <2>4. /\ pc' \in [Sockets -> HostPC \cup ViewerPC]
          /\ \A h \in Hosts : pc'[h] = pc[h]
          /\ \A v \in Viewers : pc'[v] \in {"off", pc[v]}
      BY <1>16 DEF Deliver, Slow, Listeners
    <2> QED
      BY <1>16, <2>1, <2>3, <2>4 DEF Deliver
  <1>17. CASE Restart
    BY <1>17, EmptySeq DEF Restart
  <1>18. CASE UpdateFind
    BY <1>18 DEF UpdateFind
  <1>19. CASE UpdateSave
    BY <1>19 DEF UpdateSave
  <1>20. CASE Close
    BY <1>20 DEF Close
  <1>21. CASE UNCHANGED vars
    BY <1>21 DEF vars
  <1> QED
    BY <1>1, <1>2, <1>3, <1>4, <1>5, <1>6, <1>7, <1>8, <1>9, <1>10, <1>11, <1>12, <1>13,
       <1>14, <1>15, <1>16, <1>17, <1>18, <1>19, <1>20, <1>21 DEF Next, HostStep, ViewerStep

-----------------------------------------------------------------------------
(* Events.                                                                 *)

LEMMA EventsStep ==
    ASSUME TypeOK, EventsOK, [Next]_vars
    PROVE  EventsOK'
  <1> /\ events \in Nat /\ row \in Nat /\ hub \in Nat
      /\ val \in [Sockets -> Nat] /\ rest \subseteq Nat /\ closes \subseteq Nat
    BY PlayerSyncAssumption DEF TypeOK, States
  <1> USE DEF EventsOK, Sockets
  <1>1. ASSUME NEW h \in Hosts, HostJoins(h) PROVE EventsOK'
    BY <1>1 DEF HostJoins
  <1>2. ASSUME NEW h \in Hosts, Leaves(h) PROVE EventsOK'
    BY <1>2 DEF Leaves
  <1>3. ASSUME NEW h \in Hosts, PlayerEvent(h) PROVE EventsOK'
    BY <1>3 DEF PlayerEvent, Dispatch
  <1>4. ASSUME NEW h \in Hosts, SaveRow(h) PROVE EventsOK'
    BY <1>4 DEF SaveRow
  <1>5. ASSUME NEW h \in Hosts, SetState(h) PROVE EventsOK'
    BY <1>5 DEF SetState
  <1>6. ASSUME NEW h \in Hosts, EmitSync(h) PROVE EventsOK'
    BY <1>6 DEF EmitSync
  <1>7. ASSUME NEW h \in Hosts, RefreshRead(h) PROVE EventsOK'
    BY <1>7 DEF RefreshRead, Dispatch
  <1>8. ASSUME NEW h \in Hosts, RefreshWrite(h) PROVE EventsOK'
    BY <1>8 DEF RefreshWrite
  <1>9. ASSUME NEW v \in Viewers, ViewerStep(v) PROVE EventsOK'
    <2>1. /\ UNCHANGED <<row, closes, events, rest>>
          /\ hub' \in {0, hub}
      BY <1>9 DEF ViewerStep, ViewerJoins, Leaves, RequestSync, SnapshotHub, SnapshotRow,
                  SnapshotQueue, Follow
    <2>2. \A s \in Sockets : val'[s] \in {val[s], hub, row}
      BY <1>9 DEF ViewerStep, ViewerJoins, Leaves, RequestSync, SnapshotHub, SnapshotRow,
                  SnapshotQueue, Follow
    <2> QED
      BY <2>1, <2>2
  <1>10. CASE Deliver
    BY <1>10 DEF Deliver, Slow, Listeners
  <1>11. CASE Restart
    BY <1>11 DEF Restart
  <1>12. CASE UpdateFind
    BY <1>12 DEF UpdateFind
  <1>13. CASE UpdateSave
    BY <1>13 DEF UpdateSave
  <1>14. CASE Close
    BY <1>14 DEF Close
  <1>15. CASE UNCHANGED vars
    BY <1>15 DEF vars
  <1> QED
    BY <1>1, <1>2, <1>3, <1>4, <1>5, <1>6, <1>7, <1>8, <1>9, <1>10, <1>11, <1>12, <1>13,
       <1>14, <1>15 DEF Next, HostStep

-----------------------------------------------------------------------------
(* What is on its way.                                                     *)

LEMMA StatesAreNumbers ==
    States \subseteq Nat /\ \A s \in Seq(States) : s \in Seq(Nat)
  <1>1. States \subseteq Nat
    BY PlayerSyncAssumption DEF States
  <1>2. ASSUME NEW s \in Seq(States) PROVE s \in Seq(Nat)
    <2>1. Len(s) \in Nat /\ s \in [1..Len(s) -> States]
      BY LenProperties
    <2>2. s \in [1..Len(s) -> Nat]
      BY <1>1, <2>1
    <2> QED
      BY <2>1, <2>2
  <1> QED
    BY <1>1, <1>2

LEMMA OrderTypes ==
    ASSUME TypeOK
    PROVE  /\ events \in Nat /\ val \in [Sockets -> Nat]
           /\ broadcast \in Seq(Nat)
           /\ send \in [Viewers -> Seq(Nat)]
           /\ shown \in [Viewers -> Nat]
           /\ pc \in [Sockets -> HostPC \cup ViewerPC]
           /\ crossed \in BOOLEAN
BY StatesAreNumbers DEF TypeOK

\* What is appended stems from an event that was.
LEMMA BehindAppend ==
    ASSUME NEW s \in Seq(Nat), NEW e \in Nat, NEW n \in Nat, e <= n,
           \A i \in 1..Len(s) : s[i] <= n
    PROVE  \A i \in 1..Len(Append(s, e)) : Append(s, e)[i] <= n
  <1>1. /\ Len(s) \in Nat /\ Len(Append(s, e)) = Len(s) + 1
        /\ Append(s, e)[Len(s) + 1] = e
        /\ \A i \in 1..Len(s) : Append(s, e)[i] = s[i]
    BY AppendProperties, LenProperties
  <1> TAKE i \in 1..Len(Append(s, e))
  <1>2. i \in 1..Len(s) \/ i = Len(s) + 1
    BY <1>1
  <1> QED
    BY <1>1, <1>2

LEMMA BehindTail ==
    ASSUME NEW s \in Seq(Nat), NEW n \in Nat, s # <<>>,
           \A i \in 1..Len(s) : s[i] <= n
    PROVE  /\ Head(s) <= n
           /\ \A i \in 1..Len(Tail(s)) : Tail(s)[i] <= n
  <1>1. /\ Len(s) \in Nat \ {0} /\ Len(Tail(s)) = Len(s) - 1
        /\ Head(s) = s[1]
        /\ \A i \in 1..Len(Tail(s)) : Tail(s)[i] = s[i + 1] /\ i + 1 \in 1..Len(s)
    BY TailNewest
  <1> QED
    BY <1>1

LEMMA BehindStep ==
    ASSUME TypeOK, EventsOK, Behind, [Next]_vars
    PROVE  Behind'
  <1> /\ events \in Nat /\ val \in [Sockets -> Nat] /\ broadcast \in Seq(Nat)
      /\ send \in [Viewers -> Seq(Nat)] /\ shown \in [Viewers -> Nat]
    BY OrderTypes
  <1> USE DEF Behind
  <1>1. ASSUME UNCHANGED <<broadcast, send, shown>>, events' \in {events, events + 1}
        PROVE  Behind'
    <2>1. /\ \A i \in 1..Len(broadcast) : broadcast[i] \in Nat
          /\ \A v \in Viewers : \A i \in 1..Len(send[v]) : send[v][i] \in Nat
      BY ElementOfSeq
    <2>2. \A n \in Nat : n <= events => n <= events'
      BY <1>1
    <2> QED
      BY <1>1, <2>1, <2>2
  <1>2. ASSUME NEW h \in Hosts, HostStep(h), ~EmitSync(h) PROVE Behind'
    <2>1. UNCHANGED <<broadcast, send, shown>> /\ events' \in {events, events + 1}
      BY <1>2 DEF HostStep, HostJoins, Leaves, PlayerEvent, SaveRow, SetState, RefreshRead,
                  RefreshWrite
    <2> QED
      BY <1>1, <2>1
  <1>3. ASSUME NEW h \in Hosts, EmitSync(h) PROVE Behind'
    <2>1. val[h] \in Nat /\ val[h] <= events
      BY DEF Sockets, EventsOK
    <2> QED
      BY <1>3, <2>1, BehindAppend DEF EmitSync
  <1>4. ASSUME NEW v \in Viewers, ViewerStep(v), ~SnapshotQueue(v), ~Follow(v) PROVE Behind'
    <2>1. UNCHANGED <<broadcast, shown, events>>
      BY <1>4 DEF ViewerStep, ViewerJoins, Leaves, RequestSync, SnapshotHub, SnapshotRow
    <2>2. send' = send \/ send' = [send EXCEPT ![v] = <<>>]
      BY <1>4 DEF ViewerStep, ViewerJoins, Leaves, RequestSync, SnapshotHub, SnapshotRow
    <2> QED
      BY <2>1, <2>2
  <1>5. ASSUME NEW v \in Viewers, SnapshotQueue(v) PROVE Behind'
    <2>1. val[v] \in Nat /\ val[v] <= events
      BY DEF Sockets, EventsOK
    <2>2. UNCHANGED <<broadcast, shown, events>>
      BY <1>5 DEF SnapshotQueue
    <2>3. /\ \A w \in Viewers \ {v} : send'[w] = send[w]
          /\ send'[v] = send[v] \/ send'[v] = Append(send[v], val[v])
      <3>1. \/ send' = send
            \/ send' = [send EXCEPT ![v] = Append(send[v], val[v])]
        BY <1>5 DEF SnapshotQueue
      <3> QED
        BY <3>1
    <2>4. \A i \in 1..Len(Append(send[v], val[v])) : Append(send[v], val[v])[i] <= events
      BY <2>1, BehindAppend
    <2> QED
      BY <2>2, <2>3, <2>4
  <1>6. ASSUME NEW v \in Viewers, Follow(v) PROVE Behind'
    BY <1>6, BehindTail DEF Follow
  <1>7. CASE Deliver
    <2>1. Head(broadcast) \in Nat /\ Head(broadcast) <= events
      BY <1>7, BehindTail, TailNewest DEF Deliver
    <2>2. \A i \in 1..Len(broadcast') : broadcast'[i] <= events
      BY <1>7, BehindTail DEF Deliver
    <2>3. ASSUME NEW v \in Viewers
          PROVE  \A i \in 1..Len(send'[v]) : send'[v][i] <= events
      <3>1. send'[v] \in {send[v], Append(send[v], Head(broadcast))}
        BY <1>7 DEF Deliver
      <3> QED
        BY <2>1, <3>1, BehindAppend
    <2> QED
      BY <1>7, <2>2, <2>3 DEF Deliver
  <1>8. CASE Restart
    BY <1>8 DEF Restart
  <1>9. CASE UpdateFind \/ UpdateSave
    BY <1>9 DEF UpdateFind, UpdateSave
  <1>10. CASE Close
    <2>1. UNCHANGED <<broadcast, send, shown>> /\ events' = events + 1
      BY <1>10 DEF Close
    <2> QED
      BY <1>1, <2>1
  <1>11. CASE UNCHANGED vars
    BY <1>11 DEF vars
  <1> QED
    BY <1>2, <1>3, <1>4, <1>5, <1>6, <1>7, <1>8, <1>9, <1>10, <1>11 DEF Next

-----------------------------------------------------------------------------
(* The handlers.                                                           *)

LEMMA HandlerStep ==
    ASSUME TypeOK, KindsOK, ~crossed => HandlerOK, ~crossed', [Next]_vars
    PROVE  HandlerOK'
  <1> /\ Hosts \cap Viewers = {}
      /\ events \in Nat /\ val \in [Sockets -> Nat] /\ crossed \in BOOLEAN
      /\ pc \in [Sockets -> HostPC \cup ViewerPC]
    BY PlayerSyncAssumption DEF TypeOK, States
  <1> USE DEF HandlerOK, InHandler, Sockets, HostPC, To
  <1>1. ASSUME NEW h \in Hosts, HostJoins(h) PROVE HandlerOK'
    BY <1>1 DEF HostJoins
  <1>2. ASSUME NEW h \in Hosts, Leaves(h) PROVE HandlerOK'
    BY <1>2 DEF Leaves
  <1>3. ASSUME NEW h \in Hosts, PlayerEvent(h) PROVE HandlerOK'
    <2>1. /\ ~crossed
          /\ \A g \in Hosts : InHandler(g) => FALSE
      BY <1>3 DEF PlayerEvent, Dispatch
    <2>2. /\ events' = events + 1
          /\ val'[h] = events + 1
          /\ \A g \in Hosts : pc'[g] = IF g = h THEN "save" ELSE pc[g]
      BY <1>3 DEF PlayerEvent, Dispatch
    <2> QED
      BY <2>1, <2>2
  <1>4. ASSUME NEW h \in Hosts, SaveRow(h) PROVE HandlerOK'
    BY <1>4 DEF SaveRow
  <1>5. ASSUME NEW h \in Hosts, SetState(h) PROVE HandlerOK'
    BY <1>5 DEF SetState
  <1>6. ASSUME NEW h \in Hosts, EmitSync(h) PROVE HandlerOK'
    BY <1>6 DEF EmitSync
  <1>7. ASSUME NEW h \in Hosts, RefreshRead(h) PROVE HandlerOK'
    BY <1>7 DEF RefreshRead, Dispatch
  <1>8. ASSUME NEW h \in Hosts, RefreshWrite(h) PROVE HandlerOK'
    BY <1>8 DEF RefreshWrite
  <1>9. ASSUME NEW v \in Viewers, ViewerStep(v) PROVE HandlerOK'
    BY <1>9 DEF ViewerStep, ViewerJoins, Leaves, RequestSync, SnapshotHub, SnapshotRow,
       SnapshotQueue, Follow
  <1>10. CASE Deliver
    BY <1>10 DEF Deliver, Slow, Listeners
  <1>11. CASE Restart
    BY <1>11 DEF Restart
  <1>12. CASE UpdateFind
    BY <1>12 DEF UpdateFind
  <1>13. CASE UpdateSave
    BY <1>13 DEF UpdateSave
  <1>14. CASE Close
    BY <1>14 DEF Close
  <1>15. CASE UNCHANGED vars
    BY <1>15 DEF vars
  <1> QED
    BY <1>1, <1>2, <1>3, <1>4, <1>5, <1>6, <1>7, <1>8, <1>9, <1>10, <1>11, <1>12, <1>13,
       <1>14, <1>15 DEF Next, HostStep

LEMMA RowStep ==
    ASSUME TypeOK, KindsOK, EventsOK, ~crossed => HandlerOK, ~crossed /\ ~unsaved => RowOK,
           ~crossed', ~unsaved', [Next]_vars
    PROVE  RowOK'
  <1> /\ Hosts \cap Viewers = {}
      /\ row \in Nat /\ hub \in Nat /\ events \in Nat
      /\ val \in [Sockets -> Nat] /\ crossed \in BOOLEAN /\ unsaved \in BOOLEAN
      /\ pc \in [Sockets -> HostPC \cup ViewerPC]
    BY PlayerSyncAssumption DEF TypeOK, States
  <1> USE DEF HandlerOK, RowOK, RowAt, Ended, InHandler, Sockets, HostPC, To
  <1>1. ASSUME NEW h \in Hosts, HostJoins(h) PROVE RowOK'
    BY <1>1 DEF HostJoins
  <1>2. ASSUME NEW h \in Hosts, Leaves(h) PROVE RowOK'
    BY <1>2 DEF Leaves
  <1>3. ASSUME NEW h \in Hosts, PlayerEvent(h) PROVE RowOK'
    BY <1>3 DEF PlayerEvent, Dispatch
  <1>4. ASSUME NEW h \in Hosts, SaveRow(h) PROVE RowOK'
    BY <1>4 DEF SaveRow
  <1>5. ASSUME NEW h \in Hosts, SetState(h) PROVE RowOK'
    BY <1>5 DEF SetState
  <1>6. ASSUME NEW h \in Hosts, EmitSync(h) PROVE RowOK'
    BY <1>6 DEF EmitSync
  <1>7. ASSUME NEW h \in Hosts, RefreshRead(h) PROVE RowOK'
    BY <1>7 DEF RefreshRead, Dispatch
  <1>8. ASSUME NEW h \in Hosts, RefreshWrite(h) PROVE RowOK'
    BY <1>8 DEF RefreshWrite
  <1>9. ASSUME NEW v \in Viewers, ViewerStep(v) PROVE RowOK'
    BY <1>9 DEF ViewerStep, ViewerJoins, Leaves, RequestSync, SnapshotHub, SnapshotRow,
       SnapshotQueue, Follow
  <1>10. CASE Deliver
    BY <1>10 DEF Deliver, Slow, Listeners
  <1>11. CASE Restart
    BY <1>11 DEF Restart
  <1>12. CASE UpdateFind
    BY <1>12 DEF UpdateFind
  <1>13. CASE UpdateSave
    <2>1. row' = row /\ UNCHANGED <<hub, pc, val, closes, crossed, unsaved>>
      BY <1>13 DEF UpdateSave
    <2> QED
      BY <2>1
  <1>14. CASE Close
    BY <1>14 DEF Close, EventsOK
  <1>15. CASE UNCHANGED vars
    BY <1>15 DEF vars
  <1> QED
    BY <1>1, <1>2, <1>3, <1>4, <1>5, <1>6, <1>7, <1>8, <1>9, <1>10, <1>11, <1>12, <1>13,
       <1>14, <1>15 DEF Next, HostStep

-----------------------------------------------------------------------------
(* What is on its way is behind the row.                                   *)

LEMMA SavedStep ==
    ASSUME TypeOK, KindsOK, EventsOK, Behind, ~crossed => HandlerOK,
           ~crossed /\ ~unsaved => RowOK, ~crossed /\ ~unsaved => SavedOK,
           ~crossed', ~unsaved', [Next]_vars
    PROVE  SavedOK'
  <1> /\ Hosts \cap Viewers = {}
      /\ row \in Nat /\ hub \in Nat /\ events \in Nat
      /\ val \in [Sockets -> Nat] /\ crossed \in BOOLEAN /\ unsaved \in BOOLEAN
      /\ broadcast \in Seq(Nat) /\ send \in [Viewers -> Seq(Nat)] /\ shown \in [Viewers -> Nat]
      /\ pc \in [Sockets -> HostPC \cup ViewerPC]
    BY PlayerSyncAssumption DEF TypeOK, States
  <1> USE DEF HandlerOK, RowOK, RowAt, Ended, SavedOK, EventsOK, Sockets, HostPC, To
  <1>1. ASSUME NEW h \in Hosts, HostJoins(h) PROVE SavedOK'
    BY <1>1 DEF HostJoins
  <1>2. ASSUME NEW h \in Hosts, Leaves(h) PROVE SavedOK'
    BY <1>2 DEF Leaves
  <1>3. ASSUME NEW h \in Hosts, PlayerEvent(h) PROVE SavedOK'
    BY <1>3 DEF PlayerEvent, Dispatch
  <1>4. ASSUME NEW h \in Hosts, SaveRow(h) PROVE SavedOK'
    <2>1. row' = val[h] /\ val[h] = events
      BY <1>4 DEF SaveRow
    <2>2. /\ UNCHANGED <<hub, broadcast, send, shown, val>>
          /\ \A v \in Viewers : pc'[v] = pc[v]
      BY <1>4 DEF SaveRow
    <2> QED
      BY <2>1, <2>2 DEF Behind
  <1>5. ASSUME NEW h \in Hosts, SetState(h) PROVE SavedOK'
    BY <1>5 DEF SetState
  <1>6. ASSUME NEW h \in Hosts, EmitSync(h) PROVE SavedOK'
    BY <1>6 DEF EmitSync
  <1>7. ASSUME NEW h \in Hosts, RefreshRead(h) PROVE SavedOK'
    BY <1>7 DEF RefreshRead, Dispatch
  <1>8. ASSUME NEW h \in Hosts, RefreshWrite(h) PROVE SavedOK'
    BY <1>8 DEF RefreshWrite
  <1>9. ASSUME NEW v \in Viewers, ViewerStep(v) PROVE SavedOK'
    <2>1. CASE ViewerJoins(v)
      BY <2>1 DEF ViewerJoins
    <2>2. CASE Leaves(v)
      BY <2>2 DEF Leaves
    <2>3. CASE RequestSync(v)
      BY <2>3 DEF RequestSync
    <2>4. CASE SnapshotHub(v)
      BY <2>4 DEF SnapshotHub
    <2>5. CASE SnapshotRow(v)
      <3>1. /\ UNCHANGED <<row, hub, broadcast, send, shown, crossed, unsaved>>
            /\ \A s \in Sockets \ {v} : pc'[s] = pc[s] /\ val'[s] = val[s]
            /\ pc'[v] = "queue" => val'[v] = row
        BY <2>5 DEF SnapshotRow
      <3>2. SavedOK
        BY <3>1
      <3>3. ASSUME NEW w \in Viewers, pc'[w] = "queue" PROVE val'[w] <= row
        <4>1. CASE w = v
          BY <3>1, <3>3, <4>1
        <4>2. CASE w # v
          BY <3>1, <3>2, <3>3, <4>2
        <4> QED
          BY <4>1, <4>2
      <3>4. ASSUME NEW h \in Hosts, pc'[h] \in {"set", "emit", "refresh"}
            PROVE  val'[h] <= row
        <4>1. h \in Sockets \ {v}
          OBVIOUS
        <4> QED
          BY <3>1, <3>2, <3>4, <4>1
      <3> QED
        BY <3>1, <3>2, <3>3, <3>4
    <2>6. CASE SnapshotQueue(v)
      <3>1. val[v] <= row
        BY <2>6 DEF SnapshotQueue
      <3>2. CASE Len(send[v]) < SendCap
        <4> DEFINE t == Append(send[v], val[v])
        <4>1. /\ \A w \in Viewers : send'[w] = IF w = v THEN t ELSE send[w]
              /\ UNCHANGED <<row, crossed, unsaved>>
          BY <2>6, <3>2 DEF SnapshotQueue
        <4>2. \A w \in Viewers : \A i \in 1..Len(send[w]) : send[w][i] <= row
          BY <4>1
        <4>3. /\ Len(send[v]) \in Nat
              /\ Len(t) = Len(send[v]) + 1
              /\ \A i \in 1..Len(send[v]) : t[i] = send[v][i]
              /\ t[Len(t)] = val[v]
          BY AppendProperties, LenProperties
        <4> HIDE DEF t
        <4>4. \A i \in 1..Len(t) : t[i] <= row
          BY ONLY <3>1, <4>2, <4>3
        <4>5. \A w \in Viewers : \A i \in 1..Len(send'[w]) : send'[w][i] <= row
          BY ONLY <4>1, <4>2, <4>4
        <4> QED
          BY <2>6, <4>5 DEF SnapshotQueue
      <3>3. CASE ~(Len(send[v]) < SendCap)
        BY <2>6, <3>3 DEF SnapshotQueue
      <3> QED
        BY <3>2, <3>3
    <2>7. CASE Follow(v)
      BY <2>7 DEF Follow
    <2> QED
      BY <1>9, <2>1, <2>2, <2>3, <2>4, <2>5, <2>6, <2>7 DEF ViewerStep
  <1>10. CASE Deliver
    BY <1>10 DEF Deliver, Slow, Listeners
  <1>11. CASE Restart
    BY <1>11 DEF Restart
  <1>12. CASE UpdateFind
    BY <1>12 DEF UpdateFind
  <1>13. CASE UpdateSave
    <2>1. row' = row /\ UNCHANGED <<hub, broadcast, send, shown, pc, val, crossed, unsaved>>
      BY <1>13 DEF UpdateSave
    <2> QED
      BY <2>1
  <1>14. CASE Close
    BY <1>14 DEF Close
  <1>15. CASE UNCHANGED vars
    BY <1>15 DEF vars
  <1> QED
    BY <1>1, <1>2, <1>3, <1>4, <1>5, <1>6, <1>7, <1>8, <1>9, <1>10, <1>11, <1>12, <1>13,
       <1>14, <1>15 DEF Next, HostStep

-----------------------------------------------------------------------------
(* Convergence.                                                            *)

LEMMA ConvergeStep ==
    ASSUME TypeOK, KindsOK, ~crossed => HandlerOK, ~crossed /\ ~unsaved => RowOK,
           ~crossed => ConvergeOK, ~crossed', [Next]_vars
    PROVE  ConvergeOK'
  <1> /\ Hosts \cap Viewers = {}
      /\ row \in Nat /\ hub \in Nat /\ SendCap \in Nat \ {0}
      /\ val \in [Sockets -> Nat] /\ crossed \in BOOLEAN /\ unsaved \in BOOLEAN
      /\ broadcast \in Seq(Nat) /\ send \in [Viewers -> Seq(Nat)] /\ shown \in [Viewers -> Nat]
      /\ \A v \in Viewers : Len(send[v]) <= SendCap
      /\ pc \in [Sockets -> HostPC \cup ViewerPC]
    BY PlayerSyncAssumption DEF TypeOK, States
  <1> USE DEF HandlerOK, RowOK, RowAt, Ended, OnlyTheRowKnows, ConvergeOK, Last, Told, Current, Sockets, HostPC, To
  <1>1. ASSUME NEW h \in Hosts, HostJoins(h) PROVE ConvergeOK'
    BY <1>1 DEF HostJoins
  <1>2. ASSUME NEW h \in Hosts, Leaves(h) PROVE ConvergeOK'
    BY <1>2 DEF Leaves
  <1>3. ASSUME NEW h \in Hosts, PlayerEvent(h) PROVE ConvergeOK'
    BY <1>3 DEF PlayerEvent, Dispatch
  <1>4. ASSUME NEW h \in Hosts, SaveRow(h) PROVE ConvergeOK'
    BY <1>4 DEF SaveRow
  <1>5. ASSUME NEW h \in Hosts, SetState(h) PROVE ConvergeOK'
    BY <1>5 DEF SetState
  <1>6. ASSUME NEW h \in Hosts, EmitSync(h) PROVE ConvergeOK'
    <2>1. /\ broadcast' = Append(broadcast, val[h])
          /\ UNCHANGED <<row, hub, unsaved>>
          /\ ~crossed /\ pc[h] = "emit"
      BY <1>6 DEF EmitSync
    <2>2. broadcast' # <<>> /\ Newest(broadcast') = val[h]
      BY <2>1, AppendNewest
    <2>3. val[h] = hub /\ hub # 0
      BY <2>1
    <2> QED
      BY <2>1, <2>2, <2>3
  <1>7. ASSUME NEW h \in Hosts, RefreshRead(h) PROVE ConvergeOK'
    BY <1>7 DEF RefreshRead, Dispatch
  <1>8. ASSUME NEW h \in Hosts, RefreshWrite(h) PROVE ConvergeOK'
    BY <1>8 DEF RefreshWrite
  <1>9. ASSUME NEW v \in Viewers, ViewerStep(v) PROVE ConvergeOK'
    <2>1. CASE ViewerJoins(v)
      BY <2>1 DEF ViewerJoins
    <2>2. CASE Leaves(v)
      BY <2>2 DEF Leaves
    <2>3. CASE RequestSync(v)
      BY <2>3 DEF RequestSync
    <2>4. CASE SnapshotHub(v)
      BY <2>4 DEF SnapshotHub
    <2>5. CASE SnapshotRow(v)
      BY <2>5 DEF SnapshotRow
    <2>6. CASE SnapshotQueue(v)
      <3> /\ pc[v] = "queue" /\ pc' = [pc EXCEPT ![v] = "read"]
          /\ UNCHANGED <<row, hub, broadcast, shown, closes, crossed, unsaved>>
        BY <2>6 DEF SnapshotQueue
      <3>1. CASE Len(send[v]) < SendCap
        <4>1. /\ Append(send[v], val[v]) # <<>>
              /\ Newest(Append(send[v], val[v])) = val[v]
          <5>1. send[v] \in Seq(Nat) /\ val[v] \in Nat
            OBVIOUS
          <5> QED
            BY ONLY <5>1, AppendNewest
        <4>2. /\ send'[v] = Append(send[v], val[v])
              /\ \A w \in Viewers \ {v} : send'[w] = send[w] /\ (w \in late' <=> w \in late)
              /\ v \notin late' => val[v] = Current
          BY <2>6, <3>1 DEF SnapshotQueue
        <4>3. Last(v)' = IF broadcast # <<>> THEN Newest(broadcast) ELSE val[v]
          BY <4>1, <4>2
        <4>4. ASSUME NEW w \in Viewers \ {v}
              PROVE  Last(w)' = Last(w) /\ (Told(w)' => Told(w)) /\ pc'[w] = pc[w]
          BY <4>2
        <4>5. Current' = Current /\ OnlyTheRowKnows' = OnlyTheRowKnows /\ \A h \in Hosts : pc'[h] = pc[h]
          OBVIOUS
        <4> HIDE DEF Last, Told, Current, OnlyTheRowKnows, Ended
        <4> QED
          BY <4>2, <4>3, <4>4, <4>5
      <3>2. CASE ~(Len(send[v]) < SendCap)
        <4>1. send' = send /\ late' = late
          BY <2>6, <3>2 DEF SnapshotQueue
        <4>2. send[v] # <<>>
          BY <3>2, EmptySeq
        <4>3. ASSUME NEW w \in Viewers
              PROVE  /\ Last(w)' = Last(w) /\ (Told(w)' => Told(w))
                     /\ pc'[w] # "off" => pc[w] # "off"
          BY <4>1, <4>2
        <4>4. Current' = Current /\ OnlyTheRowKnows' = OnlyTheRowKnows /\ \A h \in Hosts : pc'[h] = pc[h]
          OBVIOUS
        <4> HIDE DEF Last, Told, Current, OnlyTheRowKnows, Ended
        <4> QED
          BY <4>1, <4>3, <4>4
      <3> QED
        BY <3>1, <3>2
    <2>7. CASE Follow(v)
      <3>1. /\ send[v] # <<>>
            /\ shown'[v] = Head(send[v]) /\ send'[v] = Tail(send[v])
            /\ \A w \in Viewers \ {v} : shown'[w] = shown[w] /\ send'[w] = send[w]
            /\ UNCHANGED <<row, hub, broadcast, pc, closes, crossed, unsaved, late>>
        BY <2>7 DEF Follow
      <3>2. /\ Tail(send[v]) # <<>> => Newest(Tail(send[v])) = Newest(send[v])
            /\ Tail(send[v]) = <<>> => Newest(send[v]) = Head(send[v])
        <4>1. send[v] \in Seq(Nat)
          OBVIOUS
        <4> QED
          BY ONLY <3>1, <4>1, TailNewest
      <3>3. ASSUME NEW w \in Viewers
            PROVE  Last(w)' = Last(w) /\ (Told(w)' => Told(w))
        BY <3>1, <3>2
      <3>4. Current' = Current /\ OnlyTheRowKnows' = OnlyTheRowKnows /\ \A s \in Sockets : pc'[s] = pc[s]
        BY <3>1
      <3> HIDE DEF Last, Told, Current, OnlyTheRowKnows, Ended
      <3> QED
        BY <3>1, <3>3, <3>4
    <2> QED
      BY <1>9, <2>1, <2>2, <2>3, <2>4, <2>5, <2>6, <2>7 DEF ViewerStep
  <1>10. CASE Deliver
    <2>1. /\ broadcast # <<>> /\ broadcast' = Tail(broadcast)
          /\ UNCHANGED <<row, hub, shown, closes, crossed, unsaved>>
          /\ late' = late \ Listeners
          /\ \A h \in Hosts : pc'[h] = pc[h]
      BY <1>10 DEF Deliver, Slow, Listeners
    <2>2. ASSUME NEW v \in Viewers, pc'[v] # "off"
          PROVE  send'[v] = Append(send[v], Head(broadcast))
      BY <1>10, <2>2 DEF Deliver, Slow, Listeners
    <2>3. /\ Head(broadcast) \in Nat
          /\ broadcast' # <<>> => Newest(broadcast') = Newest(broadcast)
          /\ broadcast' = <<>> => Head(broadcast) = Newest(broadcast)
      BY <2>1, TailNewest
    <2>4. ASSUME NEW v \in Viewers, pc'[v] # "off"
          PROVE  Last(v)' = Newest(broadcast)
      <3>1. send'[v] # <<>> /\ Newest(send'[v]) = Head(broadcast)
        <4>1. send[v] \in Seq(Nat) /\ Head(broadcast) \in Nat
          BY <2>3
        <4>2. Append(send[v], Head(broadcast)) # <<>>
              /\ Newest(Append(send[v], Head(broadcast))) = Head(broadcast)
          BY ONLY <4>1, AppendNewest
        <4> QED
          BY <2>2, <2>4, <4>2
      <3> QED
        BY <2>3, <3>1
    <2>5. Current' = Current /\ OnlyTheRowKnows' = OnlyTheRowKnows
      BY <2>1
    <2> HIDE DEF Last, Told, Current, OnlyTheRowKnows, Ended
    <2> QED
      BY <2>1, <2>3, <2>4, <2>5
  <1>11. CASE Restart
    BY <1>11 DEF Restart
  <1>12. CASE UpdateFind
    BY <1>12 DEF UpdateFind
  <1>13. CASE UpdateSave
    <2>1. UNCHANGED <<hub, broadcast, send, shown, pc, val, closes, late, crossed>>
      BY <1>13 DEF UpdateSave
    <2>2. CASE UNCHANGED <<row, unsaved>>
      BY <2>1, <2>2
    <2>3. CASE row' \in rest /\ unsaved' = (unsaved \/ rest # {row})
      <3>1. ~unsaved' => ~unsaved /\ rest = {row}
        BY <2>3, Zenon
      <3>2. ~unsaved' => row' = row
        BY <2>3, <3>1
      <3>3. CASE unsaved'
        BY <2>1, <3>3
      <3>4. CASE ~unsaved'
        BY <2>1, <3>1, <3>2, <3>4
      <3> QED
        BY <3>3, <3>4
    <2> QED
      BY <1>13, <2>2, <2>3 DEF UpdateSave
  <1>14. CASE Close
    BY <1>14 DEF Close
  <1>15. CASE UNCHANGED vars
    BY <1>15 DEF vars
  <1> QED
    BY <1>1, <1>2, <1>3, <1>4, <1>5, <1>6, <1>7, <1>8, <1>9, <1>10, <1>11, <1>12, <1>13,
       <1>14, <1>15 DEF Next, HostStep

-----------------------------------------------------------------------------
(* The theorems.                                                           *)

LEMMA InitIInv == Init => IInv
  <1> SUFFICES ASSUME Init PROVE IInv
    OBVIOUS
  <1>1. TypeOK /\ KindsOK
    BY TypeInit
  <1>2. EventsOK
    BY DEF Init, EventsOK
  <1>7. Behind
    BY EmptySeq DEF Init, Behind
  <1>3. HandlerOK
    BY DEF Init, HandlerOK, InHandler, Sockets, HostPC
  <1>4. RowOK
    BY DEF Init, RowOK, Sockets
  <1>5. SavedOK
    <2>1. Len(broadcast) = 0 /\ \A v \in Viewers : Len(send[v]) = 0
      BY EmptySeq DEF Init
    <2> QED
      BY <2>1 DEF Init, SavedOK, Sockets
  <1>6. ConvergeOK
    BY DEF Init, ConvergeOK, Told, Sockets
  <1> QED
    BY <1>1, <1>2, <1>3, <1>4, <1>5, <1>6, <1>7 DEF IInv

LEMMA StepIInv == IInv /\ [Next]_vars => IInv'
  <1> SUFFICES ASSUME IInv, [Next]_vars PROVE IInv'
    OBVIOUS
  <1> USE DEF IInv
  <1>1. TypeOK' /\ KindsOK'
    BY TypeStep
  <1>2. EventsOK'
    BY EventsStep
  <1>7. Behind'
    BY BehindStep
  <1>3. ~crossed' => HandlerOK'
    BY HandlerStep
  <1>4. ~crossed' /\ ~unsaved' => RowOK'
    BY RowStep
  <1>5. ~crossed' /\ ~unsaved' => SavedOK'
    BY SavedStep
  <1>6. ~crossed' => ConvergeOK'
    BY ConvergeStep
  <1> QED
    BY <1>1, <1>2, <1>3, <1>4, <1>5, <1>6, <1>7

LEMMA Invariance == Spec => []IInv
  BY InitIInv, StepIInv, PTL DEF Spec

\* The row, the hub's state, the queues and what the viewers hold stay states of the
\* player, and no Send takes more than its capacity.
THEOREM TypeCorrect == Spec => []TypeOK
  <1>1. IInv => TypeOK
    BY DEF IInv
  <1> QED
    BY <1>1, Invariance, PTL

\* A viewer that is at rest follows the current event, for any number of tabs, viewers,
\* Closes and restarts, unless its last snapshot was late or could not be read, two tabs
\* raced, or only a row that nobody was told of is left.
THEOREM ViewersDoConverge == Spec => []ViewersConverge
  <1>1. IInv => ViewersConverge
    <2> SUFFICES ASSUME IInv, NEW v \in Viewers, Settled(v), v \notin late, ~crossed,
                        ~OnlyTheRowKnows
                 PROVE  shown[v] = Current
      BY DEF ViewersConverge
    <2>1. \A h \in Hosts : pc[h] \notin {"set", "emit"}
      BY DEF Settled, InHandler, HostPC, IInv, KindsOK
    <2>2. Told(v) /\ pc[v] # "off" /\ Last(v) = shown[v]
      BY DEF Settled, Told, Last
    <2> QED
      BY <2>1, <2>2 DEF IInv, ConvergeOK
  <1> QED
    BY <1>1, Invariance, PTL

\* Between two events the row has what the hub has, or a Close that came after it,
\* unless the latest event was not saved, a stale row was saved since, or two tabs raced.
THEOREM RowDoesKeepUp == Spec => []RowKeepsUp
  <1>1. IInv => RowKeepsUp
    BY DEF IInv, RowOK, RowAt, RowKeepsUp, InHandler, HostPC
  <1> QED
    BY <1>1, Invariance, PTL

\* What a viewer is shown is never ahead of what a restart would bring back, with the
\* same exceptions of a Save.
THEOREM ShownIsSaved == Spec => []NothingUnsavedShown
  <1>1. IInv => NothingUnsavedShown
    BY DEF IInv, SavedOK, NothingUnsavedShown
  <1> QED
    BY <1>1, Invariance, PTL

-----------------------------------------------------------------------------
(* The order of the events.                                                *)

\* The order of the events, when those in C are Closes.
InOrder(C, a, b) == a <= b \/ {a, b} \cap C # {}

AscendsIn(C, s) == \A i, j \in 1..Len(s) : i <= j => InOrder(C, s[i], s[j])

\* A line of x, then s, then t ascends: it does so in its parts and between them.
InParts(C, x, s, t) ==
    /\ AscendsIn(C, s) /\ AscendsIn(C, t)
    /\ \A i \in 1..Len(s) : InOrder(C, x, s[i])
    /\ \A j \in 1..Len(t) : InOrder(C, x, t[j])
    /\ \A i \in 1..Len(s), j \in 1..Len(t) : InOrder(C, s[i], t[j])

\* Parts and the whole.
LEMMA LineParts ==
    ASSUME NEW C, NEW x \in Nat, NEW s \in Seq(Nat), NEW t \in Seq(Nat)
    PROVE  AscendsIn(C, <<x>> \o s \o t) <=> InParts(C, x, s, t)
  <1> DEFINE l == <<x>> \o s \o t
  <1>1. Len(s) \in Nat /\ Len(t) \in Nat
    BY LenProperties
  <1>2. /\ Len(l) = 1 + Len(s) + Len(t)
        /\ l[1] = x
        /\ \A i \in 1..Len(s) : l[1 + i] = s[i]
        /\ \A j \in 1..Len(t) : l[1 + Len(s) + j] = t[j]
    BY <1>1
  <1> HIDE DEF l
  <1>3. /\ \A k \in 2..1 + Len(s) : l[k] = s[k - 1]
        /\ \A k \in 2 + Len(s)..Len(l) : l[k] = t[k - 1 - Len(s)]
    <2>1. ASSUME NEW k \in 2..1 + Len(s) PROVE l[k] = s[k - 1]
      <3>1. k - 1 \in 1..Len(s) /\ 1 + (k - 1) = k
        BY <1>1
      <3> QED
        BY <1>2, <3>1
    <2>2. ASSUME NEW k \in 2 + Len(s)..Len(l) PROVE l[k] = t[k - 1 - Len(s)]
      <3>1. k - 1 - Len(s) \in 1..Len(t) /\ 1 + Len(s) + (k - 1 - Len(s)) = k
        BY <1>1, <1>2
      <3> QED
        BY <1>2, <3>1
    <2> QED
      BY <2>1, <2>2
  <1>4. ASSUME AscendsIn(C, l)
        PROVE  InParts(C, x, s, t)
    <2>1. \A i, j \in 1..Len(l) : i <= j => InOrder(C, l[i], l[j])
      BY <1>4 DEF AscendsIn
    <2>2. \A i \in 1..Len(s) : 1 + i \in 1..Len(l)
      BY <1>1, <1>2
    <2>3. \A j \in 1..Len(t) : 1 + Len(s) + j \in 1..Len(l)
      BY <1>1, <1>2
    <2>4. 1 \in 1..Len(l)
      BY <1>1, <1>2
    <2>5. AscendsIn(C, s)
      BY <1>1, <1>2, <2>1, <2>2 DEF AscendsIn
    <2>6. ASSUME NEW i \in 1..Len(t), NEW j \in 1..Len(t), i <= j PROVE InOrder(C, t[i], t[j])
      <3>1. 1 + Len(s) + i <= 1 + Len(s) + j
        BY <1>1, <2>6
      <3>2. InOrder(C, l[1 + Len(s) + i], l[1 + Len(s) + j])
        BY <2>1, <2>3, <3>1
      <3> QED
        BY <1>2, <3>2
    <2>7. \A i \in 1..Len(s) : InOrder(C, x, s[i])
      BY <1>1, <1>2, <2>1, <2>2, <2>4
    <2>8. \A j \in 1..Len(t) : InOrder(C, x, t[j])
      BY <1>1, <1>2, <2>1, <2>3, <2>4
    <2>9. ASSUME NEW i \in 1..Len(s), NEW j \in 1..Len(t) PROVE InOrder(C, s[i], t[j])
      <3>1. 1 + i <= 1 + Len(s) + j
        BY <1>1
      <3>2. InOrder(C, l[1 + i], l[1 + Len(s) + j])
        BY <2>1, <2>2, <2>3, <3>1
      <3> QED
        BY <1>2, <3>2
    <2> QED
      BY <2>5, <2>6, <2>7, <2>8, <2>9 DEF AscendsIn, InParts
  <1>5. ASSUME InParts(C, x, s, t),
               NEW i \in 1..Len(l), NEW j \in 1..Len(l), i <= j
        PROVE  InOrder(C, l[i], l[j])
    <2>2. CASE i = 1 /\ j = 1
      BY <1>2, <2>2 DEF InOrder
    <2>3. CASE i = 1 /\ j \in 2..1 + Len(s)
      <3>1. j - 1 \in 1..Len(s)
        BY <1>1, <2>3
      <3> QED
        BY <1>2, <1>3, <1>5, <2>3, <3>1 DEF InParts
    <2>4. CASE i = 1 /\ j \in 2 + Len(s)..Len(l)
      <3>1. j - 1 - Len(s) \in 1..Len(t)
        BY <1>1, <1>2, <2>4
      <3> QED
        BY <1>2, <1>3, <1>5, <2>4, <3>1 DEF InParts
    <2>5. CASE i \in 2..1 + Len(s) /\ j \in 2..1 + Len(s)
      <3>1. i - 1 \in 1..Len(s) /\ j - 1 \in 1..Len(s) /\ i - 1 <= j - 1
        BY <1>1, <1>5, <2>5
      <3> QED
        BY <1>3, <1>5, <2>5, <3>1 DEF AscendsIn, InParts
    <2>6. CASE i \in 2..1 + Len(s) /\ j \in 2 + Len(s)..Len(l)
      <3>1. i - 1 \in 1..Len(s) /\ j - 1 - Len(s) \in 1..Len(t)
        BY <1>1, <1>2, <2>6
      <3> QED
        BY <1>3, <1>5, <2>6, <3>1 DEF InParts
    <2>7. CASE i \in 2 + Len(s)..Len(l) /\ j \in 2 + Len(s)..Len(l)
      <3>1. /\ i - 1 - Len(s) \in 1..Len(t) /\ j - 1 - Len(s) \in 1..Len(t)
            /\ i - 1 - Len(s) <= j - 1 - Len(s)
        BY <1>1, <1>2, <1>5, <2>7
      <3> QED
        BY <1>3, <1>5, <2>7, <3>1 DEF AscendsIn, InParts
    <2> QED
      BY <1>1, <1>2, <1>5, <2>2, <2>3, <2>4, <2>5, <2>6, <2>7
  <1>6. InParts(C, x, s, t) => AscendsIn(C, l)
    BY <1>5 DEF AscendsIn
  <1> QED
    BY <1>4, <1>6 DEF l

\* At the end of the line comes what is not older than all of it.
LEMMA PartsAppend ==
    ASSUME NEW C, NEW x \in Nat, NEW s \in Seq(Nat), NEW t \in Seq(Nat), InParts(C, x, s, t),
           NEW e \in Nat, InOrder(C, x, e),
           \A i \in 1..Len(s) : InOrder(C, s[i], e),
           \A j \in 1..Len(t) : InOrder(C, t[j], e)
    PROVE  InParts(C, x, s, Append(t, e))
  <1>1. /\ Len(t) \in Nat /\ Len(Append(t, e)) = Len(t) + 1
        /\ Append(t, e)[Len(t) + 1] = e
        /\ \A j \in 1..Len(t) : Append(t, e)[j] = t[j]
    BY AppendProperties, LenProperties
  <1> DEFINE a == Append(t, e)
  <1> HIDE DEF a
  <1>2. /\ Len(a) = Len(t) + 1 /\ a[Len(t) + 1] = e
        /\ \A j \in 1..Len(t) : a[j] = t[j]
    BY <1>1 DEF a
  <1>3. \A j \in 1..Len(a) : j \in 1..Len(t) \/ j = Len(t) + 1
    BY <1>1, <1>2
  <1>4. ASSUME NEW i \in 1..Len(a), NEW j \in 1..Len(a), i <= j PROVE InOrder(C, a[i], a[j])
    <2>1. \A k, n \in 1..Len(t) : k <= n => InOrder(C, t[k], t[n])
      BY DEF InParts, AscendsIn
    <2>2. CASE j \in 1..Len(t)
      <3>1. i \in 1..Len(t)
        BY <1>1, <1>4, <2>2
      <3> QED
        BY <1>2, <1>4, <2>1, <2>2, <3>1
    <2>3. CASE j = Len(t) + 1 /\ i \in 1..Len(t)
      BY <1>2, <2>3
    <2>4. CASE j = Len(t) + 1 /\ i = Len(t) + 1
      BY <1>2, <2>4 DEF InOrder
    <2> QED
      BY <1>3, <2>2, <2>3, <2>4
  <1>5. InParts(C, x, s, a)
    BY <1>2, <1>3, <1>4 DEF InParts, AscendsIn
  <1> QED
    BY <1>5 DEF a

\* One is taken out of the hub's queue ...
LEMMA PartsDrop ==
    ASSUME NEW C, NEW x \in Nat, NEW s \in Seq(Nat), NEW t \in Seq(Nat), t # <<>>,
           InParts(C, x, s, t)
    PROVE  InParts(C, x, s, Tail(t))
  <1>1. /\ Len(t) \in Nat \ {0} /\ Len(Tail(t)) = Len(t) - 1
        /\ \A i \in 1..Len(Tail(t)) : Tail(t)[i] = t[i + 1]
    BY TailNewest
  <1> DEFINE a == Tail(t)
  <1> HIDE DEF a
  <1>2. /\ Len(a) = Len(t) - 1
        /\ \A i \in 1..Len(a) : a[i] = t[i + 1] /\ i + 1 \in 1..Len(t)
    BY <1>1 DEF a
  <1>3. AscendsIn(C, a)
    <2>1. ASSUME NEW i \in 1..Len(a), NEW j \in 1..Len(a), i <= j PROVE InOrder(C, a[i], a[j])
      <3>1. i + 1 <= j + 1
        BY <2>1
      <3> QED
        BY <1>2, <3>1 DEF InParts, AscendsIn
    <2> QED
      BY <2>1 DEF AscendsIn
  <1>4. InParts(C, x, s, a)
    BY <1>2, <1>3 DEF InParts
  <1> QED
    BY <1>4 DEF a

\* ... or handed on to a Send.
LEMMA PartsPass ==
    ASSUME NEW C, NEW x \in Nat, NEW s \in Seq(Nat), NEW t \in Seq(Nat), t # <<>>,
           InParts(C, x, s, t)
    PROVE  InParts(C, x, Append(s, Head(t)), Tail(t))
  <1>1. /\ Len(t) \in Nat \ {0} /\ Len(Tail(t)) = Len(t) - 1
        /\ Head(t) \in Nat /\ Head(t) = t[1] /\ Tail(t) \in Seq(Nat)
        /\ \A i \in 1..Len(Tail(t)) : Tail(t)[i] = t[i + 1]
    BY TailNewest
  <1>2. InParts(C, x, s, Tail(t))
    BY PartsDrop
  <1>3. InParts(C, x, s, <<>>)
    BY DEF InParts, AscendsIn
  <1>4. InParts(C, x, <<>>, Append(s, Head(t)))
    <2>1. InParts(C, x, <<>>, s)
      BY DEF InParts, AscendsIn
    <2>2. InOrder(C, x, Head(t)) /\ \A i \in 1..Len(s) : InOrder(C, s[i], Head(t))
      BY <1>1 DEF InParts
    <2>3. <<>> \in Seq(Nat) /\ \A i \in 1..Len(<<>>) : InOrder(C, <<>>[i], Head(t))
      OBVIOUS
    <2> QED
      BY <1>1, <2>1, <2>2, <2>3, PartsAppend
  <1>5. \A j \in 1..Len(Tail(t)) : InOrder(C, Head(t), Tail(t)[j])
    <2> TAKE j \in 1..Len(Tail(t))
    <2>1. 1 \in 1..Len(t) /\ j + 1 \in 1..Len(t) /\ 1 <= j + 1
      BY <1>1
    <2> QED
      BY <1>1, <2>1 DEF InParts, AscendsIn
  <1>6. ASSUME NEW i \in 1..Len(Append(s, Head(t))), NEW j \in 1..Len(Tail(t))
        PROVE  InOrder(C, Append(s, Head(t))[i], Tail(t)[j])
    <2>1. /\ i \in 1..Len(s) \/ i = Len(s) + 1
          /\ Append(s, Head(t))[Len(s) + 1] = Head(t)
          /\ \A k \in 1..Len(s) : Append(s, Head(t))[k] = s[k]
      BY <1>1, AppendProperties, LenProperties
    <2>2. CASE i \in 1..Len(s)
      BY <1>2, <2>1, <2>2 DEF InParts
    <2>3. CASE i = Len(s) + 1
      BY <1>5, <2>1, <2>3
    <2> QED
      BY <2>1, <2>2, <2>3
  <1> QED
    BY <1>2, <1>4, <1>6 DEF InParts

\* Nothing but Closes has come after the event of the tab that is in its handler.
NewestOK ==
    \A h \in Hosts : pc[h] \in {"save", "set", "emit"} =>
        \A k \in val[h] + 1..events : k \in closes

OrderInv ==
    /\ IInv
    /\ ~crossed => NewestOK

LEMMA NewestStep ==
    ASSUME TypeOK, KindsOK, ~crossed => HandlerOK /\ NewestOK, ~crossed', [Next]_vars
    PROVE  NewestOK'
  <1> /\ Hosts \cap Viewers = {} /\ crossed \in BOOLEAN
      /\ events \in Nat /\ val \in [Sockets -> Nat]
      /\ pc \in [Sockets -> HostPC \cup ViewerPC]
    BY PlayerSyncAssumption, OrderTypes
  <1> USE DEF NewestOK, Sockets, To
  <1>1. ASSUME NEW h \in Hosts, PlayerEvent(h) PROVE NewestOK'
    <2>1. /\ \A g \in Hosts \ {h} : ~InHandler(g)
          /\ \A g \in Hosts : pc'[g] = IF g = h THEN "save" ELSE pc[g]
          /\ val'[h] = events + 1 /\ events' = events + 1
      BY <1>1 DEF PlayerEvent, Dispatch
    <2>2. \A g \in Hosts : pc'[g] \in {"save", "set", "emit"} => g = h
      BY <2>1 DEF InHandler, HostPC
    <2> QED
      BY <2>1, <2>2
  <1>2. ASSUME NEW h \in Hosts, SaveRow(h) PROVE NewestOK'
    BY <1>2 DEF SaveRow, HandlerOK
  <1>3. ASSUME NEW h \in Hosts, HostJoins(h) \/ Leaves(h) PROVE NewestOK'
    BY <1>3 DEF HostJoins, Leaves
  <1>4. ASSUME NEW h \in Hosts, SetState(h) \/ EmitSync(h) PROVE NewestOK'
    BY <1>4 DEF SetState, EmitSync
  <1>5. ASSUME NEW h \in Hosts, RefreshRead(h) \/ RefreshWrite(h) PROVE NewestOK'
    BY <1>5 DEF RefreshRead, RefreshWrite, Dispatch
  <1>6. ASSUME NEW v \in Viewers, ViewerStep(v) PROVE NewestOK'
    BY <1>6 DEF ViewerStep, ViewerJoins, Leaves, RequestSync, SnapshotHub, SnapshotRow,
                SnapshotQueue, Follow
  <1>7. CASE Deliver
    BY <1>7 DEF Deliver, Slow, Listeners
  <1>8. CASE Restart
    BY <1>8 DEF Restart
  <1>9. CASE UpdateFind \/ UpdateSave
    BY <1>9 DEF UpdateFind, UpdateSave
  <1>10. CASE Close
    BY <1>10 DEF Close
  <1>11. CASE UNCHANGED vars
    BY <1>11 DEF vars
  <1> QED
    BY <1>1, <1>2, <1>3, <1>4, <1>5, <1>6, <1>7, <1>8, <1>9, <1>10, <1>11 DEF Next, HostStep

LEMMA OrderInvariance == Spec => []OrderInv
  <1>1. Init => OrderInv
    BY InitIInv DEF Init, OrderInv, NewestOK, Sockets
  <1>2. OrderInv /\ [Next]_vars => OrderInv'
    <2> SUFFICES ASSUME OrderInv, [Next]_vars PROVE OrderInv'
      OBVIOUS
    <2>1. IInv'
      BY StepIInv DEF OrderInv
    <2>2. ~crossed' => NewestOK'
      BY NewestStep DEF OrderInv, IInv
    <2> QED
      BY <2>1, <2>2 DEF OrderInv
  <1> QED
    BY <1>1, <1>2, PTL DEF Spec

LEMMA AscendsAnywhere ==
    ASSUME NEW s \in Seq(Nat)
    PROVE  Ascends(s) <=> AscendsIn(closes, s)
BY DEF Ascends, AscendsIn, InOrder

LEMMA InOneLine ==
    ASSUME TypeOK, NEW v \in Viewers
    PROVE  Ascends(Line(v)) <=> InParts(closes, shown[v], send[v], broadcast)
  <1>1. /\ shown[v] \in Nat /\ send[v] \in Seq(Nat) /\ broadcast \in Seq(Nat)
        /\ Line(v) \in Seq(Nat)
    BY OrderTypes DEF Line
  <1>2. Ascends(Line(v)) <=> AscendsIn(closes, Line(v))
    BY <1>1, AscendsAnywhere
  <1> QED
    BY <1>1, <1>2, LineParts DEF Line

\* The line of v after a step with which what it sees, has in its Send and would be
\* sent is what it was, or less.
LEMMA StaysInLine ==
    ASSUME OrderInv, TypeOK', [Next]_vars, NEW v \in Viewers,
           Ascends(Line(v)), ~SnapshotQueue(v), ~crossed
    PROVE  Ascends(Line(v))'
  <1> /\ events \in Nat /\ val \in [Sockets -> Nat] /\ broadcast \in Seq(Nat)
      /\ send \in [Viewers -> Seq(Nat)] /\ shown \in [Viewers -> Nat]
    BY OrderTypes DEF OrderInv, IInv
  <1>1. InParts(closes, shown[v], send[v], broadcast)
    BY InOneLine DEF OrderInv, IInv
  <1>2. /\ broadcast' \in Seq(Nat) /\ send' \in [Viewers -> Seq(Nat)]
        /\ shown' \in [Viewers -> Nat]
    BY StatesAreNumbers DEF TypeOK
  <1> SUFFICES InParts(closes', shown'[v], send'[v], broadcast')
    <2> SUFFICES AscendsIn(closes', <<shown'[v]>> \o send'[v] \o broadcast')
      BY DEF Line, Ascends, AscendsIn, InOrder
    <2> QED
      BY <1>2, LineParts
  <1>3. ASSUME shown'[v] = shown[v], send'[v] = send[v], broadcast' = broadcast,
               closes \subseteq closes'
        PROVE  InParts(closes', shown'[v], send'[v], broadcast')
    BY <1>1, <1>3 DEF InParts, AscendsIn, InOrder
  <1>4. ASSUME NEW h \in Hosts, HostStep(h), ~EmitSync(h)
        PROVE  InParts(closes', shown'[v], send'[v], broadcast')
    <2>1. UNCHANGED <<broadcast, send, shown, closes>>
      BY <1>4 DEF HostStep, HostJoins, Leaves, PlayerEvent, SaveRow, SetState, RefreshRead,
                  RefreshWrite
    <2> QED
      BY <1>3, <2>1
  <1>5. ASSUME NEW h \in Hosts, EmitSync(h)
        PROVE  InParts(closes', shown'[v], send'[v], broadcast')
    <2>1. /\ broadcast' = Append(broadcast, val[h])
          /\ UNCHANGED <<send, shown, closes>>
          /\ val[h] \in Nat
          /\ \A k \in val[h] + 1..events : k \in closes
      BY <1>5 DEF EmitSync, OrderInv, NewestOK, Sockets
    <2>2. /\ shown[v] <= events
          /\ \A i \in 1..Len(send[v]) : send[v][i] <= events
          /\ \A j \in 1..Len(broadcast) : broadcast[j] <= events
      BY DEF OrderInv, IInv, Behind
    <2>3. \A n \in Nat : n <= events => InOrder(closes, n, val[h])
      <3> TAKE n \in Nat
      <3> HAVE n <= events
      <3>1. n <= val[h] \/ n \in val[h] + 1..events
        BY <2>1
      <3> QED
        BY <2>1, <3>1 DEF InOrder
    <2>4. /\ \A i \in 1..Len(send[v]) : send[v][i] \in Nat
          /\ \A j \in 1..Len(broadcast) : broadcast[j] \in Nat
      BY ElementOfSeq
    <2>5. /\ InOrder(closes, shown[v], val[h])
          /\ \A i \in 1..Len(send[v]) : InOrder(closes, send[v][i], val[h])
          /\ \A j \in 1..Len(broadcast) : InOrder(closes, broadcast[j], val[h])
      BY <2>2, <2>3, <2>4
    <2> QED
      BY <1>1, <2>1, <2>5, PartsAppend
  <1>6. ASSUME NEW w \in Viewers, ViewerStep(w)
        PROVE  InParts(closes', shown'[v], send'[v], broadcast')
    <2> UNCHANGED closes
      BY <1>6 DEF ViewerStep, ViewerJoins, Leaves, RequestSync, SnapshotHub,
                  SnapshotRow, SnapshotQueue, Follow
    <2>1. CASE w # v
      <3>1. UNCHANGED broadcast /\ shown'[v] = shown[v] /\ send'[v] = send[v]
        BY <1>6, <2>1 DEF ViewerStep, ViewerJoins, Leaves, RequestSync, SnapshotHub,
                          SnapshotRow, SnapshotQueue, Follow
      <3> QED
        BY <1>3, <3>1
    <2>2. CASE w = v /\ ViewerJoins(v)
      BY <1>1, <2>2 DEF ViewerJoins, InParts, AscendsIn
    <2>3. CASE w = v /\ Follow(v)
      <3>1. /\ shown'[v] = Head(send[v]) /\ send'[v] = Tail(send[v]) /\ send[v] # <<>>
            /\ broadcast' = broadcast
        BY <2>3 DEF Follow
      <3>2. /\ Len(send[v]) \in Nat \ {0} /\ Len(Tail(send[v])) = Len(send[v]) - 1
            /\ Head(send[v]) = send[v][1]
            /\ \A i \in 1..Len(Tail(send[v])) : Tail(send[v])[i] = send[v][i + 1]
        BY <3>1, TailNewest
      <3>3. InParts(closes, shown[v], Tail(send[v]), <<>>)
        <4>1. InParts(closes, shown[v], <<>>, send[v])
          BY <1>1 DEF InParts, AscendsIn
        <4>2. InParts(closes, shown[v], <<>>, Tail(send[v]))
          BY <3>1, <4>1, PartsDrop, EmptySeq
        <4> QED
          BY <4>2 DEF InParts, AscendsIn
      <3>4. \A i \in 1..Len(Tail(send[v])) : 1 \in 1..Len(send[v]) /\ i + 1 \in 1..Len(send[v])
        BY <3>2
      <3>5. \A i \in 1..Len(Tail(send[v])) : InOrder(closes, Head(send[v]), Tail(send[v])[i])
        BY <1>1, <3>2, <3>4 DEF InParts, AscendsIn
      <3>6. /\ \A j \in 1..Len(broadcast) : InOrder(closes, Head(send[v]), broadcast[j])
            /\ \A i \in 1..Len(Tail(send[v])), j \in 1..Len(broadcast) :
                  InOrder(closes, Tail(send[v])[i], broadcast[j])
        BY <1>1, <3>2, <3>4 DEF InParts
      <3> QED
        BY <1>1, <3>1, <3>3, <3>5, <3>6 DEF InParts
    <2>4. CASE w = v /\ (Leaves(v) \/ RequestSync(v) \/ SnapshotHub(v) \/ SnapshotRow(v))
      BY <1>3, <2>4 DEF Leaves, RequestSync, SnapshotHub, SnapshotRow
    <2> QED
      BY <1>6, <2>1, <2>2, <2>3, <2>4 DEF ViewerStep
  <1>7. CASE Deliver
    <2>1. broadcast # <<>> /\ broadcast' = Tail(broadcast) /\ UNCHANGED <<shown, closes>>
      BY <1>7 DEF Deliver
    <2>2. send'[v] \in {send[v], Append(send[v], Head(broadcast))}
      BY <1>7 DEF Deliver
    <2>3. CASE send'[v] = send[v]
      BY <1>1, <2>1, <2>3, PartsDrop
    <2>4. CASE send'[v] = Append(send[v], Head(broadcast))
      BY <1>1, <2>1, <2>4, PartsPass
    <2> QED
      BY <2>2, <2>3, <2>4
  <1>8. CASE Restart
    BY <1>1, <1>8 DEF Restart, InParts, AscendsIn
  <1>9. CASE UpdateFind \/ UpdateSave \/ Close \/ UNCHANGED vars
    BY <1>3, <1>9 DEF UpdateFind, UpdateSave, Close, vars
  <1> QED
    BY <1>4, <1>5, <1>6, <1>7, <1>8, <1>9 DEF Next

\* For any number of tabs and viewers, and queues of any capacity, only a snapshot
\* crosses the events that are on their way to a viewer, or a race of two tabs.
THEOREM EventsKeepTheirOrder == Spec => OnlySnapshotsOvertake
  <1>1. OrderInv /\ OrderInv' /\ [Next]_vars =>
           [\A v \in Viewers :
              Ascends(Line(v)) /\ ~Ascends(Line(v))' => SnapshotQueue(v) \/ crossed]_vars
    BY StaysInLine DEF OrderInv, IInv
  <1> QED
    BY <1>1, OrderInvariance, PTL DEF Spec, OnlySnapshotsOvertake

-----------------------------------------------------------------------------
(* The chat: its inductive invariant.                                      *)

\* A row is there from the insertion on, and only the messages of sockets get further.
MessagesOK ==
    \A m \in Messages :
        /\ msg[m].row <=> msg[m].pc \in {"stored", "sent", "delivered"}
        /\ msg[m].pc \in {"sent", "delivered"} => msg[m].by = "socket"

\* A walk knows rows only, and its socket is the one that was registered as it began.
WalkOK ==
    /\ reader.base \subseteq Rows
    /\ reader.seen \subseteq Rows
    /\ reader.since => joined
    /\ reader.page >= 1

Missing == {m \in reader.base \ reader.seen : ~Tied(m)}

\* A walk by the cursor misses nothing that it has left behind.
CursorOK ==
    reader.pc # "idle" /\ reader.way = "before" =>
        /\ reader.page = 1
        /\ \A m \in Missing : msg[m].sec < reader.before

Newer(m) == {n \in Rows : msg[n].sec > msg[m].sec}

Offset == (reader.page - 1) * Clamped(reader.asked)

\* A walk by numbers misses only what the rows that are newer have pushed to a later
\* page, however many came since it began; and it has counted them all, unless some
\* crossed.
PagesOK ==
    reader.pc # "idle" /\ reader.way = "page" =>
        /\ reader.before = MaxTime + 1
        /\ reader.pc # "done" => \A m \in Missing : Offset <= Cardinality(Newer(m))
        /\ reader.pc = "find" /\ ~reader.crossed => reader.total = Cardinality(Rows)

ChatInv ==
    /\ MessagesOK
    /\ WalkOK
    /\ CursorOK
    /\ PagesOK
    /\ HistoryComplete
    /\ ShownSomewhere
    /\ SavedBeforeShown

-----------------------------------------------------------------------------
(* Type correctness.                                                       *)

HIDE PlayerSyncAssumption

USE ChatAssumption

LEMMA ClampedType ==
  ASSUME NEW n \in Nat
  PROVE  Clamped(n) \in Nat \ {0} /\ Reported(n) \in Nat
BY DEF Clamped, Reported

\* The rows are finitely many, in whatever state.
LEMMA RowsFinite ==
  ASSUME NEW S \in SUBSET Messages
  PROVE  IsFiniteSet(S) /\ Cardinality(S) \in Nat /\ Cardinality(S) <= Cardinality(Messages)
BY FS_Subset, FS_CardinalityType

\* What a message is, whichever statement it is at.
LEMMA MessageFields ==
  ASSUME ChatTypeOK, NEW m \in Messages
  PROVE  /\ msg[m] \in Message
         /\ msg[m].pc \in {"none", "made", "stored", "sent", "delivered"}
         /\ msg[m].by \in {"socket", "rest"}
         /\ msg[m].sec \in Seconds
         /\ msg[m].row \in BOOLEAN
BY DEF ChatTypeOK, Message

LEMMA ReaderFields ==
  ASSUME ChatTypeOK
  PROVE  /\ reader.pc \in {"idle", "count", "find", "done"}
         /\ reader.way \in Ways
         /\ reader.asked \in Asked /\ reader.asked \in Nat
         /\ reader.page \in Nat
         /\ reader.before \in 0..(MaxTime + 1)
         /\ reader.total \in Nat
         /\ reader.seen \subseteq Messages
         /\ reader.base \subseteq Messages
         /\ reader.since \in BOOLEAN
         /\ reader.crossed \in BOOLEAN
BY DEF ChatTypeOK, Reader

LEMMA NoWalkType == NoWalk \in Reader
<1>1. (CHOOSE n \in Asked : TRUE) \in Asked
  OBVIOUS
<1>2. 0 \in 0..(MaxTime + 1)
  OBVIOUS
<1> QED
  BY <1>1, <1>2 DEF NoWalk, Reader, Ways

\* The clock, the messages, the sockets and the walk keep their types.
THEOREM ChatTypeCorrect == ChatSpec => []ChatTypeOK
<1>1. ChatInit => ChatTypeOK
  <2> SUFFICES ASSUME ChatInit
               PROVE  ChatTypeOK
    OBVIOUS
  <2>1. NoMessage \in Message /\ 0 \in Seconds
    BY DEF NoMessage, Message, Seconds
  <2> QED
    BY <2>1, NoWalkType DEF ChatInit, ChatTypeOK
<1>2. ChatTypeOK /\ [ChatNext]_chatVars => ChatTypeOK'
  <2> SUFFICES ASSUME ChatTypeOK, [ChatNext]_chatVars
               PROVE  ChatTypeOK'
    OBVIOUS
  <2> USE ReaderFields DEF ChatTypeOK
  <2>1. CASE Tick
    BY <2>1 DEF Tick, Seconds
  <2>2. ASSUME NEW m \in Messages, Sending(m)
        PROVE  ChatTypeOK'
    <3> USE MessageFields
    <3>1. CASE Make(m)
      <4>1. PICK by \in {"socket", "rest"} :
               msg' = [msg EXCEPT ![m] = [pc |-> "made", by |-> by, sec |-> now, row |-> FALSE]]
        BY <3>1 DEF Make
      <4>2. [pc |-> "made", by |-> by, sec |-> now, row |-> FALSE] \in Message
        BY DEF Message
      <4>3. msg' \in [Messages -> Message]
        BY <4>1, <4>2
      <4> QED
        BY <4>3, <3>1 DEF Make
    <3>2. CASE Store(m)
      <4>1. msg' \in [Messages -> Message]
        BY <3>2 DEF Store, Message
      <4>2. reader' \in Reader
        BY <3>2 DEF Store, Shift, Reader
      <4> QED
        BY <4>1, <4>2, <3>2 DEF Store
    <3>3. CASE StoreFails(m)
      <4>1. NoMessage \in Message
        BY DEF NoMessage, Message, Seconds
      <4> QED
        BY <4>1, <3>3 DEF StoreFails
    <3>4. CASE Broadcast(m)
      <4>1. msg' \in [Messages -> Message]
        BY <3>4 DEF Broadcast, Message
      <4> QED
        BY <4>1, <3>4 DEF Broadcast
    <3>5. CASE DeliverChat(m)
      <4>1. msg' \in [Messages -> Message]
        BY <3>5 DEF DeliverChat, Message
      <4> QED
        BY <4>1, <3>5 DEF DeliverChat
    <3> QED
      BY <2>2, <3>1, <3>2, <3>3, <3>4, <3>5 DEF Sending
  <2>3. CASE Connect
    BY <2>3 DEF Connect
  <2>4. CASE Disconnect
    <3>1. reader' \in Reader
      BY <2>4 DEF Disconnect, Reader
    <3> QED
      BY <2>4, <3>1 DEF Disconnect
  <2>5. CASE Begin
    <3>1. Rows \subseteq Messages /\ MaxTime + 1 \in 0..(MaxTime + 1)
      BY DEF Rows
    <3>2. reader' \in Reader
      BY <2>5, <3>1 DEF Begin, Reader
    <3> QED
      BY <2>5, <3>2 DEF Begin
  <2>6. CASE Count
    <3>1. Matching \subseteq Messages
      BY DEF Matching, Rows
    <3>2. Cardinality(Matching) \in Nat
      BY <3>1, RowsFinite
    <3>3. reader' \in Reader
      BY <2>6, <3>2 DEF Count, Reader
    <3> QED
      BY <2>6, <3>3 DEF Count
  <2>7. CASE Find
    <3>1. PICK S \in SUBSET Matching : NextPage(S) \/ NextCursor(S)
      BY <2>7 DEF Find
    <3> DEFINE seen == reader.seen \cup S
    <3>2. seen \in SUBSET Messages
      BY DEF Matching, Rows
    <3> HIDE DEF seen
    <3>3. CASE NextPage(S)
      <4>1. \/ reader' = [reader EXCEPT !.seen = seen, !.pc = "done"]
            \/ reader' = [reader EXCEPT !.seen = seen, !.pc = "count", !.page = @ + 1]
        BY <3>3 DEF NextPage, seen
      <4>2. [reader EXCEPT !.seen = seen, !.pc = "done"] \in Reader
        BY <3>2 DEF Reader
      <4>3. [reader EXCEPT !.seen = seen, !.pc = "count", !.page = @ + 1] \in Reader
        BY <3>2, reader.page + 1 \in Nat DEF Reader
      <4>4. reader' \in Reader
        BY <4>1, <4>2, <4>3
      <4> QED
        BY <2>7, <4>4 DEF Find
    <3>4. CASE NextCursor(S)
      <4>1. \/ reader' = [reader EXCEPT !.pc = "done"]
            \/ \E t \in Seconds :
                  reader' = [reader EXCEPT !.seen = seen, !.pc = "count", !.before = t]
        BY <3>4 DEF NextCursor, seen
      <4>2. \A t \in Seconds : t \in 0..(MaxTime + 1)
        BY DEF Seconds
      <4>3. ASSUME NEW t \in Seconds
            PROVE  [reader EXCEPT !.seen = seen, !.pc = "count", !.before = t] \in Reader
        BY <3>2, <4>2 DEF Reader
      <4>4. [reader EXCEPT !.pc = "done"] \in Reader
        BY DEF Reader
      <4>5. reader' \in Reader
        BY <4>1, <4>3, <4>4
      <4> QED
        BY <2>7, <4>5 DEF Find
    <3> QED
      BY <3>1, <3>3, <3>4
  <2>8. CASE Abort
    BY <2>8, NoWalkType DEF Abort
  <2>9. CASE UNCHANGED chatVars
    BY <2>9 DEF chatVars
  <2> QED
    BY <2>1, <2>2, <2>3, <2>4, <2>5, <2>6, <2>7, <2>8, <2>9 DEF ChatNext, Reading
<1> QED
  BY <1>1, <1>2, PTL DEF ChatSpec

-----------------------------------------------------------------------------
(* What a page holds.                                                      *)

\* The newest row of a set of rows: the strict subsets of a finite set are well-founded.
LEMMA NewestExists ==
  ASSUME ChatTypeOK, NEW T \in SUBSET Messages, T # {}
  PROVE  \E m \in T : \A n \in T : msg[n].sec <= msg[m].sec
<1> DEFINE Above(m) == {n \in T : msg[n].sec > msg[m].sec}
           U == {Above(m) : m \in T}
<1>1. U \subseteq FiniteSubsetsOf(Messages) /\ U # {}
  <2>1. \A m \in T : Above(m) \in SUBSET Messages
    OBVIOUS
  <2>2. \A m \in T : IsFiniteSet(Above(m))
    BY <2>1, RowsFinite
  <2> QED
    BY <2>1, <2>2 DEF FiniteSubsetsOf
<1>2. IsWellFoundedOn(StrictSubsetOrdering(Messages), FiniteSubsetsOf(Messages))
  BY FS_StrictSubsetOrderingWellFounded
<1> HIDE DEF U
<1>3. PICK x \in U : \A y \in U : ~(<<y, x>> \in StrictSubsetOrdering(Messages))
  BY <1>1, <1>2, WFMin
<1>4. PICK m \in T : x = Above(m)
  BY DEF U
<1>5. ASSUME NEW n \in T, ~(msg[n].sec <= msg[m].sec)
      PROVE  FALSE
  <2>1. msg[n].sec \in Nat /\ msg[m].sec \in Nat
    BY MessageFields DEF Seconds
  <2>2. \A k \in T : msg[k].sec \in Nat
    BY MessageFields DEF Seconds
  <2>3. Above(n) \subseteq Above(m) /\ n \in Above(m) /\ n \notin Above(n)
    BY <1>5, <2>1, <2>2
  <2>4. Above(n) \in U
    BY DEF U
  <2>5. <<Above(n), Above(m)>> \in StrictSubsetOrdering(Messages)
    BY <2>3 DEF StrictSubsetOrdering
  <2> QED
    BY <1>3, <1>4, <2>4, <2>5
<1> QED
  BY <1>5

\* How many rows of the query come before a second's own, and with them.
Before(t) == Cardinality({m \in Matching : msg[m].sec > t})

Upto(t) == Cardinality({m \in Matching : msg[m].sec >= t})

Of(S, t) == {m \in S : msg[m].sec = t}

LEMMA RankType ==
  ASSUME NEW t
  PROVE  /\ Before(t) \in Nat /\ Before(t) <= Cardinality(Messages)
         /\ Upto(t) \in Nat /\ Upto(t) <= Cardinality(Messages)
<1>1. /\ {m \in Matching : msg[m].sec > t} \in SUBSET Messages
      /\ {m \in Matching : msg[m].sec >= t} \in SUBSET Messages
  BY DEF Matching, Rows
<1> QED
  BY <1>1, RowsFinite DEF Before, Upto

\* The positions of a second are as many as its rows.
LEMMA RanksOfSecond ==
  ASSUME ChatTypeOK, NEW t \in Seconds
  PROVE  Upto(t) = Before(t) + Cardinality(Of(Matching, t))
<1> DEFINE A == {m \in Matching : msg[m].sec > t}
           B == Of(Matching, t)
           C == {m \in Matching : msg[m].sec >= t}
<1>1. t \in Nat /\ \A m \in Matching : msg[m].sec \in Nat
  BY MessageFields DEF Seconds, Matching, Rows
<1>2. A \in SUBSET Messages /\ B \in SUBSET Messages
  BY DEF Matching, Rows, Of
<1>3. A \cap B = {} /\ C = A \cup B
  BY <1>1 DEF Of
<1> HIDE DEF A, B, C
<1>4. Cardinality(C) = Cardinality(A) + Cardinality(B) - Cardinality({})
  BY <1>2, <1>3, RowsFinite, FS_Union
<1>5. Cardinality({}) = 0 /\ Cardinality(A) \in Nat /\ Cardinality(B) \in Nat
  BY <1>2, RowsFinite, FS_EmptySet
<1>6. Cardinality(C) = Cardinality(A) + Cardinality(B)
  BY <1>4, <1>5
<1> QED
  BY <1>6 DEF Before, Upto, A, B, C

\* A newer second's rows come before those of an older one.
LEMMA RanksInOrder ==
  ASSUME ChatTypeOK, NEW t \in Seconds, NEW s \in Seconds, s < t
  PROVE  Upto(t) <= Before(s)
<1> DEFINE A == {m \in Matching : msg[m].sec >= t}
           B == {m \in Matching : msg[m].sec > s}
<1>1. A \subseteq B
  BY MessageFields DEF Seconds, Matching, Rows
<1>2. B \in SUBSET Messages
  BY DEF Matching, Rows
<1> HIDE DEF A, B
<1>3. Cardinality(A) <= Cardinality(B)
  BY <1>1, <1>2, RowsFinite, FS_Subset
<1> QED
  BY <1>3 DEF Upto, Before, A, B

LEMMA PageOfSecond ==
  ASSUME NEW S \in SUBSET Matching, Page(S), NEW t \in Seconds
  PROVE  Cardinality(Of(S, t)) =
            Cardinality(Positions(Offset, Offset + Clamped(reader.asked))
                          \cap Positions(Before(t), Upto(t)))
BY DEF Page, Offset, Of, Before, Upto

LEMMA OffsetType ==
  ASSUME ChatTypeOK, reader.page >= 1
  PROVE  Offset \in Nat
<1>1. reader.page - 1 \in Nat /\ Clamped(reader.asked) \in Nat
  BY ReaderFields, ClampedType
<1> QED
  BY <1>1 DEF Offset

\* A page that begins at or before a row and ends behind its newer ones has a row of
\* its second.
LEMMA PageReaches ==
  ASSUME ChatTypeOK, reader.page >= 1,
         NEW S \in SUBSET Matching, Page(S),
         NEW m \in Matching,
         Offset <= Before(msg[m].sec),
         Before(msg[m].sec) < Offset + Clamped(reader.asked)
  PROVE  \E n \in S : msg[n].sec = msg[m].sec
<1> DEFINE t == msg[m].sec
           k == Clamped(reader.asked)
           P == Positions(Offset, Offset + k) \cap Positions(Before(t), Upto(t))
<1>1. t \in Seconds /\ m \in Of(Matching, t) /\ Of(Matching, t) \in SUBSET Messages
  BY MessageFields DEF Of, Matching, Rows
<1>2. Cardinality(Of(Matching, t)) \in Nat \ {0}
  BY <1>1, RowsFinite, FS_EmptySet
<1>3. Upto(t) = Before(t) + Cardinality(Of(Matching, t))
  BY <1>1, RanksOfSecond
<1>4. /\ Before(t) \in Nat /\ Upto(t) \in Nat /\ Upto(t) <= Cardinality(Messages)
      /\ Offset \in Nat /\ k \in Nat /\ Cardinality(Messages) \in Nat
  BY RankType, OffsetType, ClampedType, ReaderFields, RowsFinite
<1>5. Offset <= Before(t) /\ Before(t) < Offset + k
  OBVIOUS
<1>6. Cardinality(Of(S, t)) = Cardinality(P)
  BY <1>1, PageOfSecond
<1> HIDE DEF t, k
<1>7. Before(t) + 1 \in P
  BY <1>2, <1>3, <1>4, <1>5 DEF Positions
<1>8. P \subseteq 1..Cardinality(Messages)
  BY DEF Positions
<1> HIDE DEF P
<1>9. IsFiniteSet(P) /\ Cardinality(P) # 0
  <2>1. IsFiniteSet(1..Cardinality(Messages))
    BY <1>4, FS_Interval
  <2> QED
    BY <1>7, <1>8, <2>1, FS_Subset, FS_EmptySet
<1>10. Of(S, t) # {}
  BY <1>6, <1>9, FS_EmptySet
<1> QED
  BY <1>10 DEF Of, t

\* A first page that has a row has all the rows that are newer.
LEMMA PageIsNewest ==
  ASSUME ChatTypeOK, reader.page = 1,
         NEW S \in SUBSET Matching, Page(S),
         NEW s \in S, NEW m \in Matching, msg[s].sec < msg[m].sec
  PROVE  m \in S
<1> DEFINE t == msg[m].sec
           u == msg[s].sec
           k == Clamped(reader.asked)
           P == Positions(Offset, Offset + k) \cap Positions(Before(t), Upto(t))
           Q == Positions(Offset, Offset + k) \cap Positions(Before(u), Upto(u))
<1>1. /\ t \in Seconds /\ u \in Seconds
      /\ Of(Matching, t) \in SUBSET Messages
      /\ Of(S, t) \in SUBSET Of(Matching, t)
      /\ Of(S, u) \in SUBSET Messages /\ s \in Of(S, u)
  BY MessageFields DEF Of, Matching, Rows
<1>2. Cardinality(Of(S, u)) = Cardinality(Q) /\ Cardinality(Of(S, t)) = Cardinality(P)
  BY <1>1, PageOfSecond
<1>3. /\ Before(t) \in Nat /\ Upto(t) \in Nat /\ Upto(t) <= Cardinality(Messages)
      /\ Before(u) \in Nat /\ Offset = 0 /\ k \in Nat
  BY RankType, ClampedType, ReaderFields DEF Offset
<1>4. Upto(t) <= Before(u)
  BY <1>1, RanksInOrder
<1>5. Upto(t) = Before(t) + Cardinality(Of(Matching, t))
  BY <1>1, RanksOfSecond
<1>6. Cardinality(Of(Matching, t)) \in Nat
  BY <1>1, RowsFinite
<1> HIDE DEF t, u, k
<1>7. Before(u) < k
  <2>1. Cardinality(Of(S, u)) # 0
    BY <1>1, RowsFinite, FS_EmptySet
  <2>2. Q # {}
    BY <1>2, <2>1, FS_EmptySet
  <2>3. PICK i \in Q : TRUE
    BY <2>2
  <2> QED
    BY <1>3, <2>3 DEF Positions
<1>8. P = (Before(t) + 1)..Upto(t)
  <2>1. Cardinality(Messages) \in Nat
    BY RowsFinite
  <2>2. ASSUME NEW i
        PROVE  i \in P <=> i \in (Before(t) + 1)..Upto(t)
    BY <1>3, <1>4, <1>7, <2>1 DEF Positions
  <2> QED
    BY <2>2
<1> HIDE DEF P, Q
<1>9. Cardinality(P) = Cardinality(Of(Matching, t))
  <2>1. Before(t) + 1 \in Int /\ Upto(t) \in Int
    BY <1>3
  <2>2. Cardinality((Before(t) + 1)..Upto(t)) =
           IF Before(t) + 1 > Upto(t) THEN 0 ELSE Upto(t) - (Before(t) + 1) + 1
    BY <2>1, FS_Interval
  <2> QED
    <3>1. CASE Before(t) + 1 > Upto(t)
      BY <1>3, <1>5, <1>6, <1>8, <2>2, <3>1
    <3>2. CASE ~(Before(t) + 1 > Upto(t))
      BY <1>3, <1>5, <1>6, <1>8, <2>2, <3>2
    <3> QED
      BY <3>1, <3>2
<1>10. Of(S, t) = Of(Matching, t)
  <2>1. IsFiniteSet(Of(Matching, t))
    BY <1>1, RowsFinite
  <2> QED
    BY <1>1, <1>2, <1>9, <2>1, FS_Subset
<1> QED
  BY <1>10 DEF Of, t

\* A first page is empty only when there is nothing to show.
LEMMA EmptyPage ==
  ASSUME ChatTypeOK, reader.page = 1, Page({})
  PROVE  Matching = {}
<1> SUFFICES ASSUME Matching # {}
             PROVE  FALSE
  OBVIOUS
<1>1. Matching \in SUBSET Messages
  BY DEF Matching, Rows
<1>2. PICK m \in Matching : \A n \in Matching : msg[n].sec <= msg[m].sec
  BY <1>1, NewestExists
<1>3. {n \in Matching : msg[n].sec > msg[m].sec} = {}
  BY <1>1, <1>2, MessageFields DEF Seconds
<1>4. Before(msg[m].sec) = 0
  BY <1>3, FS_EmptySet DEF Before
<1>5. Offset = 0 /\ Clamped(reader.asked) \in Nat \ {0}
  BY ClampedType, ReaderFields DEF Offset
<1> QED
  BY <1>1, <1>4, <1>5, PageReaches

-----------------------------------------------------------------------------
(* The chat's invariant holds.                                             *)

LEMMA ChatInitInv == ChatInit => ChatInv
<1> SUFFICES ASSUME ChatInit
             PROVE  ChatInv
  OBVIOUS
<1>1. Rows = {}
  BY DEF ChatInit, Rows, NoMessage
<1> QED
  BY <1>1 DEF ChatInit, ChatInv, NoMessage, NoWalk, MessagesOK, WalkOK, CursorOK, PagesOK,
              HistoryComplete, ShownSomewhere, SavedBeforeShown, Missing

\* A step that leaves the reader's walk alone: rows may come, and are noted.
Undisturbed ==
    /\ Rows \subseteq Rows'
    /\ \A n \in Rows : msg'[n].sec = msg[n].sec
    /\ reader'.pc = reader.pc /\ reader'.way = reader.way /\ reader'.asked = reader.asked
    /\ reader'.page = reader.page /\ reader'.before = reader.before
    /\ reader'.total = reader.total
    /\ reader'.seen = reader.seen /\ reader'.base = reader.base
    /\ reader.crossed => reader'.crossed
    /\ Rows' = Rows \/ (reader.pc = "find" => reader'.crossed)

\* No row goes, and none changes its second.
LEMMA SendingEffect ==
  ASSUME ChatTypeOK, MessagesOK, NEW m \in Messages, Sending(m)
  PROVE  MessagesOK' /\ Undisturbed /\ reader'.since = reader.since /\ joined' = joined
<1> USE MessageFields, ReaderFields DEF ChatTypeOK, Message
<1>1. CASE Make(m)
  BY <1>1 DEF Make, MessagesOK, Undisturbed, Rows, At
<1>2. CASE Store(m)
  <2>1. \A n \in Messages : msg'[n] = IF n = m THEN [msg[m] EXCEPT !.pc = "stored", !.row = TRUE]
                                      ELSE msg[n]
    BY <1>2 DEF Store
  <2>2. reader' = [reader EXCEPT !.crossed = reader.crossed \/ reader.pc = "find"]
    BY <1>2 DEF Store, Shift
  <2>3. /\ reader'.pc = reader.pc /\ reader'.way = reader.way /\ reader'.asked = reader.asked
        /\ reader'.page = reader.page /\ reader'.before = reader.before
        /\ reader'.total = reader.total /\ reader'.since = reader.since
        /\ reader'.seen = reader.seen /\ reader'.base = reader.base
        /\ reader'.crossed = (reader.crossed \/ reader.pc = "find")
    BY <2>2 DEF Reader
  <2>4. \A n \in Messages : msg'[n].sec = msg[n].sec /\ (msg[n].row => msg'[n].row)
    <3>1. msg'[m].sec = msg[m].sec /\ msg'[m].row = TRUE
      BY <2>1
    <3>2. \A n \in Messages \ {m} : msg'[n] = msg[n]
      BY <2>1
    <3> QED
      BY <3>1, <3>2
  <2>5. Undisturbed
    BY <2>3, <2>4 DEF Undisturbed, Rows
  <2> QED
    BY <1>2, <2>1, <2>3, <2>5 DEF Store, MessagesOK
<1>3. CASE StoreFails(m)
  BY <1>3 DEF StoreFails, MessagesOK, Undisturbed, Rows, At, NoMessage
<1>4. CASE Broadcast(m)
  <2>1. \A n \in Messages : msg'[n] = IF n = m THEN [msg[m] EXCEPT !.pc = "sent"] ELSE msg[n]
    BY <1>4 DEF Broadcast
  <2> QED
    BY <1>4, <2>1 DEF Broadcast, MessagesOK, Undisturbed, Rows, At
<1>5. CASE DeliverChat(m)
  <2>1. \A n \in Messages : msg'[n] = IF n = m THEN [msg[m] EXCEPT !.pc = "delivered"] ELSE msg[n]
    BY <1>5 DEF DeliverChat
  <2> QED
    BY <1>5, <2>1 DEF DeliverChat, MessagesOK, Undisturbed, Rows, At
<1> QED
  BY <1>1, <1>2, <1>3, <1>4, <1>5 DEF Sending

\* More rows are more that are newer.
LEMMA NewerGrows ==
  ASSUME ChatTypeOK, ChatTypeOK', NEW m \in Rows, Undisturbed
  PROVE  Cardinality(Newer(m)) <= Cardinality(Newer(m)')
<1>1. Newer(m) \subseteq Newer(m)'
  BY DEF Newer, Undisturbed
<1>2. Newer(m)' \in SUBSET Messages
  BY DEF Newer, Rows
<1> QED
  BY <1>1, <1>2, RowsFinite, FS_Subset

\* Such a step keeps what is known of the walk.
LEMMA WalkUndisturbed ==
  ASSUME ChatTypeOK, ChatTypeOK', ChatInv, Undisturbed
  PROVE  /\ reader'.base \subseteq Rows' /\ reader'.seen \subseteq Rows' /\ reader'.page >= 1
         /\ CursorOK' /\ PagesOK' /\ HistoryComplete'
<1> USE ReaderFields
<1>1. reader.base \subseteq Rows /\ reader.seen \subseteq Rows /\ reader.page >= 1
  BY DEF ChatInv, WalkOK
<1>2. ASSUME NEW m \in reader.base \cup reader.seen
      PROVE  /\ msg'[m].sec = msg[m].sec
             /\ Tied(m)' <=> Tied(m)
  <2>1. \A n \in reader.base \cup reader.seen : msg'[n].sec = msg[n].sec
    BY <1>1 DEF Undisturbed
  <2> QED
    BY <2>1 DEF Tied, Undisturbed
<1>3. Missing' = Missing
  BY <1>2 DEF Missing, Undisturbed
<1>4. CursorOK'
  BY <1>2, <1>3 DEF ChatInv, CursorOK, Missing, Undisturbed
<1>5. PagesOK'
  <2> SUFFICES ASSUME reader'.pc # "idle", reader'.way = "page"
               PROVE  PagesOK'
    BY DEF PagesOK
  <2>1. /\ reader.before = MaxTime + 1
        /\ reader.pc # "done" => \A m \in Missing : Offset <= Cardinality(Newer(m))
        /\ reader.pc = "find" /\ ~reader.crossed => reader.total = Cardinality(Rows)
    BY DEF ChatInv, PagesOK, Undisturbed
  <2>2. ASSUME reader.pc # "done", NEW m \in Missing
        PROVE  Offset' <= Cardinality(Newer(m)')
    <3>1. m \in Rows
      BY <1>1 DEF Missing
    <3>2. Offset' = Offset
      BY DEF Offset, Undisturbed
    <3>3. Newer(m) \in SUBSET Messages /\ Newer(m)' \in SUBSET Messages
      BY DEF Newer, Rows
    <3>4. Cardinality(Newer(m)) \in Nat /\ Cardinality(Newer(m)') \in Nat /\ Offset \in Nat
      BY <1>1, <3>3, RowsFinite, OffsetType
    <3>5. Cardinality(Newer(m)) <= Cardinality(Newer(m)')
      BY <3>1, NewerGrows
    <3> QED
      BY <2>1, <2>2, <3>2, <3>4, <3>5
  <2>3. reader'.pc = "find" /\ ~reader'.crossed => reader'.total = Cardinality(Rows')
    BY <2>1 DEF Undisturbed
  <2>4. reader'.before = MaxTime + 1 /\ reader'.pc = reader.pc
    BY <2>1 DEF Undisturbed
  <2> QED
    BY <1>3, <2>2, <2>3, <2>4 DEF PagesOK
<1>6. HistoryComplete'
  BY <1>2 DEF ChatInv, HistoryComplete, Undisturbed
<1> QED
  BY <1>1, <1>4, <1>5, <1>6 DEF Undisturbed

\* A page by its number.
LEMMA FindByNumber ==
  ASSUME ChatTypeOK, ChatInv, reader.pc = "find",
         NEW S \in SUBSET Matching, Page(S), NextPage(S),
         UNCHANGED <<now, msg, joined, live>>
  PROVE  /\ reader'.base \subseteq Rows' /\ reader'.seen \subseteq Rows' /\ reader'.page >= 1
         /\ reader'.since = reader.since
         /\ CursorOK' /\ PagesOK' /\ HistoryComplete'
<1> USE ReaderFields
<1> DEFINE k == Clamped(reader.asked)
<1>1. /\ reader.base \subseteq Rows /\ reader.seen \subseteq Rows /\ reader.page >= 1
      /\ reader.way = "page" /\ reader.before = MaxTime + 1
      /\ \A m \in Missing : Offset <= Cardinality(Newer(m))
      /\ ~reader.crossed => reader.total = Cardinality(Rows)
  BY DEF ChatInv, WalkOK, PagesOK, NextPage
<1>2. Matching = Rows
  BY <1>1, MessageFields DEF Matching, Seconds, Rows
<1>3. Rows' = Rows
  BY DEF Rows
<1>4. /\ reader'.base = reader.base /\ reader'.seen = reader.seen \cup S
      /\ reader'.way = "page" /\ reader'.before = MaxTime + 1 /\ reader'.asked = reader.asked
      /\ reader'.since = reader.since /\ reader'.crossed = reader.crossed
      /\ \/ /\ reader.page * Reported(reader.asked) >= reader.total
            /\ reader'.pc = "done" /\ reader'.page = reader.page
         \/ reader'.pc = "count" /\ reader'.page = reader.page + 1
  BY <1>1 DEF NextPage, Reader, ChatTypeOK
<1>5. Missing' \subseteq Missing
  BY <1>4 DEF Missing, Tied
<1>6. /\ k \in Nat /\ Offset \in Nat /\ Offset + k = reader.page * k
      /\ (reader.page + 1 - 1) * k = reader.page * k
  <2>1. k \in Nat /\ reader.page \in Nat
    BY ClampedType
  <2> QED
    BY <1>1, <2>1, OffsetType DEF Offset
<1>7. ASSUME NEW m \in Missing'
      PROVE  reader.page * k <= Cardinality(Newer(m))
  <2>1. m \in Missing /\ m \in Rows /\ m \in Messages
    BY <1>1, <1>5, <1>7 DEF Missing, Rows
  <2>2. Newer(m) = {n \in Matching : msg[n].sec > msg[m].sec}
    BY <1>2 DEF Newer
  <2>3. Cardinality(Newer(m)) = Before(msg[m].sec)
    BY <2>2 DEF Before
  <2>4. Offset <= Before(msg[m].sec) /\ Before(msg[m].sec) \in Nat
    BY <1>1, <2>1, <2>3, RankType
  <2>5. ASSUME Before(msg[m].sec) < Offset + k
        PROVE  FALSE
    <3>1. PICK n \in S : msg[n].sec = msg[m].sec
      BY <1>1, <1>2, <2>1, <2>4, <2>5, PageReaches
    <3>2. n \in reader'.seen /\ msg'[n].sec = msg'[m].sec
      BY <1>4, <3>1
    <3>3. m \notin reader'.seen /\ ~Tied(m)'
      BY <1>7 DEF Missing
    <3> QED
      BY <3>2, <3>3 DEF Tied
  <2> QED
    BY <1>6, <2>3, <2>4, <2>5
<1>8. CursorOK'
  BY <1>4 DEF CursorOK, Ways
<1>9. PagesOK'
  <2>1. ASSUME reader'.pc = "count", NEW m \in Missing'
        PROVE  Offset' <= Cardinality(Newer(m)')
    <3>1. Newer(m)' = Newer(m)
      BY <1>3 DEF Newer
    <3>2. Offset' = reader.page * k
      BY <1>4, <1>6, <2>1 DEF Offset
    <3> QED
      BY <1>7, <2>1, <3>1, <3>2
  <2> QED
    BY <1>4, <2>1 DEF PagesOK
<1>10. HistoryComplete'
  <2> SUFFICES ASSUME reader'.pc = "done", NEW m \in Missing', ~reader'.crossed,
                      Reported(reader.asked) = k
               PROVE  FALSE
    BY <1>4 DEF HistoryComplete, Missing
  <2>1. reader.page * k >= Cardinality(Rows)
    BY <1>1, <1>4
  <2>2. m \in Rows /\ Newer(m) \in SUBSET Rows /\ m \notin Newer(m) /\ Rows \in SUBSET Messages
    BY <1>1, <1>5, MessageFields DEF Missing, Newer, Seconds, Rows
  <2>3. /\ Cardinality(Newer(m)) <= Cardinality(Rows)
        /\ Cardinality(Newer(m)) # Cardinality(Rows)
    BY <2>2, RowsFinite, FS_Subset
  <2>4. Cardinality(Newer(m)) \in Nat /\ Cardinality(Rows) \in Nat
    BY <2>2, RowsFinite
  <2> QED
    BY <1>6, <1>7, <2>1, <2>3, <2>4
<1>11. reader'.seen \subseteq Rows' /\ reader'.page >= 1
  BY <1>1, <1>2, <1>3, <1>4
<1> QED
  BY <1>1, <1>3, <1>4, <1>8, <1>9, <1>10, <1>11

\* A page by the cursor.
LEMMA FindByCursor ==
  ASSUME ChatTypeOK, ChatInv, reader.pc = "find",
         NEW S \in SUBSET Matching, Page(S), NextCursor(S),
         UNCHANGED <<now, msg, joined, live>>
  PROVE  /\ reader'.base \subseteq Rows' /\ reader'.seen \subseteq Rows' /\ reader'.page >= 1
         /\ reader'.since = reader.since
         /\ CursorOK' /\ PagesOK' /\ HistoryComplete'
<1> USE ReaderFields
<1>1. /\ reader.base \subseteq Rows /\ reader.seen \subseteq Rows /\ reader.page = 1
      /\ reader.way = "before"
      /\ \A m \in Missing : msg[m].sec < reader.before
  BY DEF ChatInv, WalkOK, CursorOK, NextCursor
<1>2. Rows' = Rows /\ Matching \subseteq Rows
  BY DEF Rows, Matching
<1>3. Missing \subseteq Matching
  BY <1>1 DEF Missing, Matching
<1>4. CASE S = {} /\ reader' = [reader EXCEPT !.pc = "done"]
  <2>1. /\ reader'.base = reader.base /\ reader'.seen = reader.seen
        /\ reader'.way = "before" /\ reader'.before = reader.before /\ reader'.page = 1
        /\ reader'.since = reader.since /\ reader'.pc = "done"
    BY <1>1, <1>4 DEF Reader, ChatTypeOK
  <2>2. Matching = {}
    BY <1>1, <1>4, EmptyPage
  <2>3. Missing' = Missing
    BY <2>1 DEF Missing, Tied
  <2>4. Missing' = {}
    BY <1>3, <2>2, <2>3
  <2>5. HistoryComplete'
    BY <2>1, <2>4 DEF HistoryComplete, Missing
  <2> QED
    BY <1>1, <1>2, <2>1, <2>4, <2>5 DEF CursorOK, PagesOK
<1>5. ASSUME NEW t \in Seconds, NEW s \in S, msg[s].sec = t,
             \A m \in S : t <= msg[m].sec,
             reader' = [reader EXCEPT !.seen = @ \cup S, !.pc = "count", !.before = t]
      PROVE  /\ reader'.base \subseteq Rows' /\ reader'.seen \subseteq Rows' /\ reader'.page >= 1
             /\ reader'.since = reader.since
             /\ CursorOK' /\ PagesOK' /\ HistoryComplete'
  <2>1. /\ reader'.base = reader.base /\ reader'.seen = reader.seen \cup S
        /\ reader'.way = "before" /\ reader'.before = t /\ reader'.page = 1
        /\ reader'.since = reader.since /\ reader'.pc = "count"
    BY <1>1, <1>5 DEF Reader, ChatTypeOK
  <2>2. Missing' \subseteq Missing
    BY <2>1 DEF Missing, Tied
  <2>3. ASSUME NEW m \in Missing'
        PROVE  msg'[m].sec < reader'.before
    <3>1. m \in Matching /\ m \in Messages /\ s \in Messages
      BY <1>3, <2>2, <2>3 DEF Matching, Rows
    <3>2. m \notin reader'.seen /\ ~Tied(m)'
      BY <2>3 DEF Missing
    <3>3. m \notin S
      BY <2>1, <3>2
    <3>4. msg[m].sec # t
      BY <1>5, <2>1, <3>2 DEF Tied
    <3>5. ~(t < msg[m].sec)
      BY <1>1, <1>5, <3>1, <3>3, PageIsNewest
    <3> QED
      BY <2>1, <3>1, <3>4, <3>5, MessageFields DEF Seconds
  <2> QED
    BY <1>1, <1>2, <2>1, <2>3 DEF CursorOK, PagesOK, HistoryComplete
<1> QED
  BY <1>4, <1>5 DEF NextCursor

LEMMA ChatStepInv ==
  ASSUME ChatTypeOK, ChatTypeOK', ChatInv, [ChatNext]_chatVars
  PROVE  ChatInv'
<1> USE ReaderFields
<1>1. ASSUME NEW m \in Messages, Sending(m)
      PROVE  ChatInv'
  <2>1. MessagesOK' /\ Undisturbed /\ reader'.since = reader.since /\ joined' = joined
    BY <1>1, SendingEffect DEF ChatInv
  <2>2. /\ reader'.base \subseteq Rows' /\ reader'.seen \subseteq Rows' /\ reader'.page >= 1
        /\ CursorOK' /\ PagesOK' /\ HistoryComplete'
    BY <2>1, WalkUndisturbed
  <2>3. WalkOK'
    BY <2>1, <2>2 DEF WalkOK, ChatInv
  <2>4. SavedBeforeShown' /\ ShownSomewhere'
    <3> USE MessageFields DEF ChatInv, MessagesOK, SavedBeforeShown, ShownSomewhere, WalkOK, At
    <3>1. CASE ~DeliverChat(m)
      <4>1. live' = live /\ \A n \in Messages : msg'[n].pc = "delivered" => msg'[n] = msg[n]
        <5>1. CASE Make(m)
          BY <5>1 DEF Make, ChatTypeOK
        <5>2. CASE Store(m)
          BY <5>2 DEF Store, ChatTypeOK, Message
        <5>3. CASE StoreFails(m)
          BY <5>3 DEF StoreFails, ChatTypeOK, NoMessage
        <5>4. CASE Broadcast(m)
          BY <5>4 DEF Broadcast, ChatTypeOK, Message
        <5> QED
          BY <1>1, <3>1, <5>1, <5>2, <5>3, <5>4 DEF Sending
      <4>2. SavedBeforeShown'
        BY <2>1, <4>1 DEF Undisturbed
      <4>3. ShownSomewhere'
        BY <2>1, <4>1 DEF Undisturbed, Rows
      <4> QED
        BY <4>2, <4>3
    <3>2. CASE DeliverChat(m)
      <4>1. /\ \A n \in Messages : msg'[n] = IF n = m THEN [msg[m] EXCEPT !.pc = "delivered"]
                                             ELSE msg[n]
            /\ live' = IF joined THEN live \cup {m} ELSE live
            /\ m \in Rows
        BY <3>2 DEF DeliverChat, ChatTypeOK, Rows
      <4>2. SavedBeforeShown'
        BY <2>1, <4>1 DEF Undisturbed
      <4>3. ShownSomewhere'
        BY <2>1, <4>1 DEF Undisturbed, Rows, Message
      <4> QED
        BY <4>2, <4>3
    <3> QED
      BY <3>1, <3>2
  <2> QED
    BY <2>1, <2>2, <2>3, <2>4 DEF ChatInv
<1>2. CASE Tick \/ Connect \/ Disconnect \/ UNCHANGED chatVars
  <2>1. /\ msg' = msg /\ live' \subseteq live /\ (joined /\ joined' => live' = live)
        /\ reader'.since => reader.since /\ joined' /\ joined
    BY <1>2 DEF Tick, Connect, Disconnect, chatVars, ChatInv, WalkOK, Reader, ChatTypeOK
  <2>2. Rows' = Rows
    BY <2>1 DEF Rows
  <2>3. Undisturbed
    <3>1. /\ reader'.pc = reader.pc /\ reader'.way = reader.way
          /\ reader'.asked = reader.asked /\ reader'.page = reader.page
          /\ reader'.before = reader.before /\ reader'.total = reader.total
          /\ reader'.seen = reader.seen /\ reader'.base = reader.base
          /\ reader'.crossed = reader.crossed
      BY <1>2 DEF Tick, Connect, Disconnect, chatVars, Reader, ChatTypeOK
    <3> QED
      BY <2>1, <2>2, <3>1 DEF Undisturbed
  <2>4. /\ reader'.base \subseteq Rows' /\ reader'.seen \subseteq Rows' /\ reader'.page >= 1
        /\ CursorOK' /\ PagesOK' /\ HistoryComplete'
    BY <2>3, WalkUndisturbed
  <2>5. WalkOK' /\ MessagesOK' /\ SavedBeforeShown'
    BY <2>1, <2>2, <2>4 DEF WalkOK, MessagesOK, SavedBeforeShown, ChatInv
  <2>6. ShownSomewhere'
    BY <2>1, <2>2, <2>3 DEF ShownSomewhere, Undisturbed, ChatInv, At
  <2> QED
    BY <2>4, <2>5, <2>6 DEF ChatInv
<1>3. CASE Begin
  <2>1. /\ UNCHANGED <<now, msg, joined, live>>
        /\ reader'.pc = "count" /\ reader'.page = 1 /\ reader'.before = MaxTime + 1
        /\ reader'.way \in Ways /\ reader'.asked \in Asked
        /\ reader'.seen = {} /\ reader'.base = Rows /\ reader'.since = joined
    BY <1>3 DEF Begin
  <2>2. Rows' = Rows
    BY <2>1 DEF Rows
  <2>3. WalkOK' /\ MessagesOK' /\ SavedBeforeShown' /\ HistoryComplete' /\ ShownSomewhere'
    BY <2>1, <2>2 DEF WalkOK, MessagesOK, SavedBeforeShown, HistoryComplete, ShownSomewhere,
                      ChatInv
  <2>4. \A m \in Missing' : m \in Rows /\ msg'[m].sec < MaxTime + 1
    BY <2>1, MessageFields DEF Missing, Rows, Seconds
  <2>5. CursorOK'
    BY <2>1, <2>4 DEF CursorOK
  <2>6. PagesOK'
    <3>1. Offset' = 0
      <4>1. Clamped(reader'.asked) \in Nat
        BY <2>1, ClampedType
      <4> QED
        BY <2>1, <4>1 DEF Offset
    <3>2. ASSUME NEW m \in Missing'
          PROVE  0 <= Cardinality(Newer(m)')
      <4>1. Newer(m)' \in SUBSET Messages
        BY DEF Newer, Rows
      <4> QED
        BY <4>1, RowsFinite
    <3> QED
      BY <2>1, <3>1, <3>2 DEF PagesOK
  <2> QED
    BY <2>3, <2>5, <2>6 DEF ChatInv
<1>4. CASE Count
  <2>1. /\ UNCHANGED <<now, msg, joined, live>>
        /\ reader.pc = "count" /\ reader'.pc = "find" /\ reader'.total = Cardinality(Matching)
        /\ reader'.way = reader.way /\ reader'.asked = reader.asked
        /\ reader'.page = reader.page /\ reader'.before = reader.before
        /\ reader'.seen = reader.seen /\ reader'.base = reader.base
        /\ reader'.since = reader.since
    BY <1>4 DEF Count, Reader, ChatTypeOK
  <2>2. Rows' = Rows
    BY <2>1 DEF Rows
  <2>3. WalkOK' /\ MessagesOK' /\ SavedBeforeShown' /\ HistoryComplete' /\ ShownSomewhere'
    BY <2>1, <2>2 DEF WalkOK, MessagesOK, SavedBeforeShown, HistoryComplete, ShownSomewhere,
                      ChatInv, At
  <2>4. Missing' = Missing
    BY <2>1 DEF Missing, Tied
  <2>5. CursorOK'
    BY <2>1, <2>4 DEF CursorOK, ChatInv
  <2>6. PagesOK'
    <3>1. reader.before = MaxTime + 1 => Matching = Rows
      BY MessageFields DEF Matching, Seconds, Rows
    <3>2. \A m \in Missing : Newer(m)' = Newer(m)
      BY <2>1, <2>2 DEF Newer
    <3>3. Offset' = Offset
      BY <2>1 DEF Offset
    <3> QED
      BY <2>1, <2>2, <2>4, <3>1, <3>2, <3>3 DEF PagesOK, ChatInv
  <2> QED
    BY <2>3, <2>5, <2>6 DEF ChatInv
<1>5. CASE Find
  <2>1. PICK S \in SUBSET Matching : Page(S) /\ (NextPage(S) \/ NextCursor(S))
    BY <1>5 DEF Find
  <2>2. reader.pc = "find" /\ UNCHANGED <<now, msg, joined, live>>
    BY <1>5 DEF Find
  <2>3. /\ reader'.base \subseteq Rows' /\ reader'.seen \subseteq Rows' /\ reader'.page >= 1
        /\ reader'.since = reader.since
        /\ CursorOK' /\ PagesOK' /\ HistoryComplete'
    BY <2>1, <2>2, FindByNumber, FindByCursor
  <2>4. reader'.base = reader.base
    BY <2>1 DEF NextPage, NextCursor, Reader, ChatTypeOK
  <2>5. Rows' = Rows
    BY <2>2 DEF Rows
  <2>6. WalkOK' /\ MessagesOK' /\ SavedBeforeShown' /\ ShownSomewhere'
    BY <2>2, <2>3, <2>4, <2>5 DEF WalkOK, MessagesOK, SavedBeforeShown, ShownSomewhere,
                                  ChatInv, At
  <2> QED
    BY <2>3, <2>6 DEF ChatInv
<1>6. CASE Abort
  <2>1. UNCHANGED <<now, msg, joined, live>> /\ reader' = NoWalk
    BY <1>6 DEF Abort
  <2>2. Rows' = Rows
    BY <2>1 DEF Rows
  <2> QED
    BY <2>1, <2>2 DEF ChatInv, NoWalk, WalkOK, MessagesOK, CursorOK, PagesOK,
                      HistoryComplete, ShownSomewhere, SavedBeforeShown
<1> QED
  BY <1>1, <1>2, <1>3, <1>4, <1>5, <1>6 DEF ChatNext, Reading

LEMMA ChatInvariant == ChatSpec => [](ChatTypeOK /\ ChatInv)
<1>1. ChatTypeOK /\ ChatTypeOK' /\ ChatInv /\ [ChatNext]_chatVars => ChatInv'
  BY ChatStepInv
<1> QED
  BY <1>1, ChatInitInv, ChatTypeCorrect, PTL DEF ChatSpec

\* A reader who walks through the history to its end, by the cursor or by numbers,
\* misses no message that was there as it began, but for the cases HistoryComplete
\* names: whatever is sent meanwhile, and in whatever order the database returns the
\* rows of one second.
THEOREM HistoryIsComplete == ChatSpec => []HistoryComplete
<1>1. ChatInv => HistoryComplete
  BY DEF ChatInv
<1> QED
  BY <1>1, ChatInvariant, PTL

\* A message that came after the walk began is on the socket that was registered then.
THEOREM NothingFallsBetween == ChatSpec => []ShownSomewhere
<1>1. ChatInv => ShownSomewhere
  BY DEF ChatInv
<1> QED
  BY <1>1, ChatInvariant, PTL

\* What a socket has shown is in the table.
THEOREM ShownIsInHistory == ChatSpec => []SavedBeforeShown
<1>1. ChatInv => SavedBeforeShown
  BY DEF ChatInv
<1> QED
  BY <1>1, ChatInvariant, PTL
=============================================================================
