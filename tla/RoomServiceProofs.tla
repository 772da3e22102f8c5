------------------------- MODULE RoomServiceProofs -------------------------
(***************************************************************************)
(* Proofs about RoomService, for every set of users, slots, operations and *)
(* limits: the columns of the room keep their types and agree, a room that *)
(* is over stays over and takes nobody in, a mute outlives the membership  *)
(* it was given in, and joins that overlap overfill the room by no more    *)
(* than their number.                                                      *)
(***************************************************************************)
EXTENDS RoomService, FiniteSetTheorems, TLAPS

(* A request is where its operation leads.                                 *)
RequestOK(q) ==
    /\ q.pc = "find" => q.op # "create"
    /\ q.pc = "mute" => q.op \in {"mute", "unmute"}

Agree(row) == row.playing <=> row.status = "playing"

(* The row of the room agrees with itself, and so does every row that a    *)
(* Save is about to bring back.                                            *)
RowsAgree ==
    /\ room # NoRow => Agree(room)
    /\ \A r \in Requests :
          req[r].pc = "save" /\ req[r].row # NoRow => Agree(req[r].row)

IInv ==
    /\ StateOK
    /\ \A r \in Requests : RequestOK(req[r])
    /\ RowsAgree

(* A slot that is at work holds a request.                                 *)
LEMMA Working ==
    ASSUME StateOK, NEW r \in Requests, req[r].pc # "idle"
    PROVE  req[r] \in Request
BY DEF StateOK, NoRequest

(* The frame of req: only slot r changes, and its new value is a request's. *)
LEMMA SlotChanges ==
    ASSUME StateOK, NEW r \in Requests, NEW q \in Request \cup {NoRequest},
           req' = [req EXCEPT ![r] = q]
    PROVE  /\ req' \in [Requests -> Request \cup {NoRequest}]
           /\ req'[r] = q
           /\ \A s \in Requests \ {r} : req'[s] = req[s]
BY DEF StateOK

(* Moving to another statement keeps the rest of the request.              *)
LEMMA Moves ==
    ASSUME NEW q \in Request, NEW pc \in Steps
    PROVE  /\ [q EXCEPT !.pc = pc] \in Request
           /\ [q EXCEPT !.pc = pc].pc = pc
           /\ [q EXCEPT !.pc = pc].op = q.op
           /\ [q EXCEPT !.pc = pc].user = q.user
           /\ [q EXCEPT !.pc = pc].target = q.target
           /\ [q EXCEPT !.pc = pc].row = q.row
           /\ [q EXCEPT !.pc = pc].member = q.member
BY DEF Request

(* What a Save writes back is a row of the right type, whose columns agree *)
(* when those of the row that was read do.                                 *)
LEMMA ChangedRow ==
    ASSUME NEW op \in AllOps, NEW row \in Row, NEW cap \in Caps \cup {0}
    PROVE  /\ Changed(op, row, cap) \in Row
           /\ Agree(row) => Agree(Changed(op, row, cap))
           /\ op \notin {"play", "pause"} => Changed(op, row, cap).status = row.status
<1>1. CASE op = "play"
  BY <1>1 DEF Changed, Played, Row, Statuses, Agree
<1>2. CASE op = "pause"
  BY <1>2 DEF Changed, Paused, Row, Statuses, Agree
<1>3. CASE op \notin {"play", "pause"}
  BY <1>3 DEF Changed, Row, Statuses, Agree
<1> QED
  BY <1>1, <1>2, <1>3

(* Where each operation goes once the room is found.                       *)
LEMMA FirstStepType ==
    ASSUME NEW op \in AllOps, op # "create"
    PROVE  /\ FirstStep[op] \in Steps \ {"find", "insertRoom", "upsertWrite"}
           /\ FirstStep[op] = "mute" => op \in {"mute", "unmute"}
           /\ FirstStep[op] = "save" => op \in {"update", "play", "pause"}
BY DEF AllOps, FirstStep, Steps

-----------------------------------------------------------------------------
(* The inductive invariant.                                                *)

LEMMA InitIInv == Init => IInv
<1> SUFFICES ASSUME Init PROVE IInv
  OBVIOUS
<1>1. StateOK
  BY RoomAssumption DEF Init, StateOK
<1>2. \A r \in Requests : req[r] = NoRequest
  BY DEF Init
<1>3. RowsAgree
  BY <1>2 DEF Init, RowsAgree, NoRequest
<1> QED
  BY <1>1, <1>2, <1>3 DEF IInv, RequestOK, NoRequest

(* A request that moves on without touching the tables, or is answered,    *)
(* keeps the invariant, unless it comes to a Save with a row that disagrees.*)
LEMMA QuietStep ==
    ASSUME IInv, NEW r \in Requests, NEW q \in Request \cup {NoRequest},
           req' = [req EXCEPT ![r] = q],
           RequestOK(q),
           q.pc = "save" /\ q.row # NoRow => Agree(q.row),
           room' = room \/ (room' \in Row /\ Agree(room')) \/ room' = NoRow,
           members' \in [Users -> Member \cup {NoRow}],
           tokens' \in SUBSET Users,
           started' \in 0..MaxRequests
    PROVE  IInv'
<1>1. /\ req' \in [Requests -> Request \cup {NoRequest}]
      /\ req'[r] = q
      /\ \A s \in Requests \ {r} : req'[s] = req[s]
  BY SlotChanges DEF IInv
<1>2. StateOK'
  BY <1>1 DEF IInv, StateOK
<1>3. \A s \in Requests : RequestOK(req'[s])
  BY <1>1 DEF IInv
<1>4. RowsAgree'
  <2>1. room' # NoRow => Agree(room')
    BY DEF IInv, RowsAgree
  <2>2. \A s \in Requests : 
          req'[s].pc = "save" /\ req'[s].row # NoRow => Agree(req'[s].row)
    BY <1>1 DEF IInv, RowsAgree
  <2> QED
    BY <2>1, <2>2 DEF RowsAgree
<1> QED
  BY <1>2, <1>3, <1>4 DEF IInv

(* The last statement of a request.                                        *)
LEMMA LastStep ==
    ASSUME IInv, NEW r \in Requests, Respond(r),
           room' = room \/ (room' \in Row /\ Agree(room')) \/ room' = NoRow,
           members' \in [Users -> Member \cup {NoRow}],
           tokens' \in SUBSET Users,
           started' = started
    PROVE  IInv'
<1>1. RequestOK(NoRequest) /\ NoRequest.pc # "save"
  BY DEF RequestOK, NoRequest
<1>2. started' \in 0..MaxRequests
  BY DEF IInv, StateOK
<1> QED
  BY <1>1, <1>2, QuietStep DEF Respond

(* A statement that another one of the same request follows.               *)
LEMMA InnerStep ==
    ASSUME IInv, NEW r \in Requests, req[r].pc # "idle",
           NEW pc \in Steps \ {"find", "mute", "save"},
           To(r, pc),
           room' = room \/ (room' \in Row /\ Agree(room')),
           members' \in [Users -> Member \cup {NoRow}],
           tokens' = tokens, started' = started
    PROVE  IInv'
<1> DEFINE q == [req[r] EXCEPT !.pc = pc]
<1>1. req[r] \in Request
  BY Working DEF IInv
<1>2. q \in Request /\ q.pc = pc
  BY <1>1, Moves
<1>3. req' = [req EXCEPT ![r] = q]
  BY DEF To
<1>4. RequestOK(q)
  BY <1>2 DEF RequestOK
<1>5. tokens' \in SUBSET Users /\ started' \in 0..MaxRequests
  BY DEF IInv, StateOK
<1> HIDE DEF q
<1> QED
  BY <1>2, <1>3, <1>4, <1>5, QuietStep

LEMMA StartStep == ASSUME IInv, NEW r \in Requests, Start(r) PROVE IInv'
<1>1. started' \in 0..MaxRequests
  BY RoomAssumption DEF IInv, StateOK, Start
<1>2. PICK op \in Ops, u \in Users, t \in Users \cup {NoUser}, cap \in Caps \cup {0} :
         /\ op = "create" <=> started = 0
         /\ req' = [req EXCEPT ![r] =
               [pc |-> IF op = "create" THEN "insertRoom" ELSE "find",
                op |-> op, user |-> u, target |-> t, cap |-> cap,
                row |-> NoRow, member |-> NoRow]]
  BY DEF Start
<1> DEFINE q == [pc |-> IF op = "create" THEN "insertRoom" ELSE "find",
                 op |-> op, user |-> u, target |-> t, cap |-> cap,
                 row |-> NoRow, member |-> NoRow]
<1>3. q \in Request
  BY RoomAssumption DEF Request, Steps
<1>4. RequestOK(q) /\ q.pc # "save"
  BY DEF RequestOK
<1>5. /\ room' = room
      /\ members' \in [Users -> Member \cup {NoRow}]
      /\ tokens' \in SUBSET Users
  BY DEF Start, IInv, StateOK
<1>6. req' = [req EXCEPT ![r] = q]
  BY <1>2
<1> HIDE DEF q
<1> QED
  BY <1>1, <1>3, <1>4, <1>5, <1>6, QuietStep

LEMMA FindStep == ASSUME IInv, NEW r \in Requests, FindRoom(r) PROVE IInv'
<1>1. /\ room' = room
      /\ members' \in [Users -> Member \cup {NoRow}]
      /\ tokens' \in SUBSET Users
      /\ started' = started
      /\ started \in 0..MaxRequests
  BY DEF FindRoom, IInv, StateOK
<1>2. req[r] \in Request /\ req[r].pc = "find" /\ req[r].op # "create"
  BY Working DEF FindRoom, At, IInv, RequestOK
<1>3. CASE ~(room # NoRow /\ Allowed(r))
  <2>1. Respond(r)
    BY <1>3 DEF FindRoom
  <2> QED
    BY <1>1, <2>1, LastStep
<1>4. CASE room # NoRow /\ Allowed(r)
  <2> DEFINE op == req[r].op
             row == Changed(op, room, req[r].cap)
             q == [req[r] EXCEPT !.pc = FirstStep[op], !.row = row]
  <2>1. op \in AllOps /\ req[r].cap \in Caps \cup {0} /\ room \in Row
    BY <1>2, <1>4 DEF Request, IInv, StateOK
  <2>2. row \in Row /\ Agree(row)
    BY <1>4, <2>1, ChangedRow DEF IInv, RowsAgree
  <2>3. /\ FirstStep[op] \in Steps \ {"find"}
        /\ FirstStep[op] = "mute" => op \in {"mute", "unmute"}
    BY <1>2, <2>1, FirstStepType
  <2> HIDE DEF row
  <2>4. /\ q \in Request /\ q.pc = FirstStep[op] /\ q.op = op /\ q.row = row
    BY <1>2, <2>2, <2>3 DEF Request
  <2>5. RequestOK(q)
    BY <2>3, <2>4 DEF RequestOK
  <2>6. req' = [req EXCEPT ![r] = q]
    BY <1>4 DEF FindRoom, row
  <2> HIDE DEF q, op
  <2> QED
    BY <1>1, <2>2, <2>4, <2>5, <2>6, QuietStep
<1> QED
  BY <1>3, <1>4

(* The statements that write a member's row.                               *)
LEMMA MemberSteps ==
    ASSUME IInv, NEW r \in Requests,
           InsertHost(r) \/ UpsertWrite(r) \/ LeaveRoom(r) \/ SetMuted(r)
    PROVE  IInv'
<1>1. /\ members \in [Users -> Member \cup {NoRow}]
      /\ tokens \in SUBSET Users
      /\ Host \in Users
  BY RoomAssumption DEF IInv, StateOK
<1>2. req[r] \in Request
  BY Working DEF InsertHost, UpsertWrite, LeaveRoom, SetMuted, At, IInv
<1>3. CASE InsertHost(r)
  <2>1. members' \in [Users -> Member \cup {NoRow}]
    BY <1>1, <1>3 DEF InsertHost, Member
  <2> QED
    BY <1>1, <1>3, <2>1, LastStep DEF InsertHost
<1>4. CASE UpsertWrite(r)
  <2>1. req[r].user \in Users /\ req[r].member \in Member \cup {NoRow}
    BY <1>2 DEF Request
  <2>2. (req[r].member # NoRow /\ req[r].member.muted) \in BOOLEAN
    BY <2>1, Zenon
  <2>3. members' \in [Users -> Member \cup {NoRow}]
    BY <1>1, <1>4, <2>2 DEF UpsertWrite, Member
  <2>4. req[r].pc # "idle" /\ "token" \in Steps \ {"find", "mute", "save"}
    BY <1>4 DEF UpsertWrite, At, Steps
  <2>5. CASE To(r, "token")
    BY <1>4, <2>3, <2>4, <2>5, InnerStep DEF UpsertWrite
  <2>6. CASE Respond(r)
    BY <1>1, <1>4, <2>3, <2>6, LastStep DEF UpsertWrite
  <2> QED
    BY <1>4, <2>5, <2>6 DEF UpsertWrite
<1>5. CASE LeaveRoom(r)
  <2>1. members' \in [Users -> Member \cup {NoRow}]
    BY <1>1, <1>5 DEF LeaveRoom, Member
  <2> QED
    BY <1>1, <1>5, <2>1, LastStep DEF LeaveRoom
<1>6. CASE SetMuted(r)
  <2>1. members' \in [Users -> Member \cup {NoRow}]
    BY <1>1, <1>6 DEF SetMuted, Member
  <2> QED
    BY <1>1, <1>6, <2>1, LastStep DEF SetMuted
<1> QED
  BY <1>3, <1>4, <1>5, <1>6

(* The statements that write the room's row.                               *)
LEMMA RoomSteps ==
    ASSUME IInv, NEW r \in Requests,
           InsertRoom(r) \/ Close(r) \/ Delete(r) \/ Save(r)
    PROVE  IInv'
<1>1. /\ members \in [Users -> Member \cup {NoRow}]
      /\ tokens \in SUBSET Users
      /\ room \in Row \cup {NoRow}
  BY DEF IInv, StateOK
<1>2. req[r] \in Request /\ req[r].pc # "idle"
  BY Working DEF InsertRoom, Close, Delete, Save, At, IInv
<1>3. CASE InsertRoom(r)
  <2>1. (IF req[r].cap = 0 THEN DefaultCap ELSE req[r].cap) \in Caps
    BY <1>2, RoomAssumption DEF Request
  <2>2. room' \in Row /\ Agree(room')
    BY <1>3, <2>1 DEF InsertRoom, Row, Statuses, Agree
  <2>3. "insertHost" \in Steps \ {"find", "mute", "save"}
    BY DEF Steps
  <2> QED
    BY <1>1, <1>2, <1>3, <2>2, <2>3, InnerStep DEF InsertRoom
<1>4. CASE Close(r)
  <2>1. room' = NoRow \/ (room' \in Row /\ Agree(room'))
    BY <1>1, <1>4 DEF Close, Row, Statuses, Agree
  <2> QED
    BY <1>1, <1>4, <2>1, LastStep DEF Close
<1>5. CASE Delete(r)
  BY <1>1, <1>5, LastStep DEF Delete
<1>6. CASE Save(r)
  <2>1. room' = NoRow \/ (room' \in Row /\ Agree(room'))
    BY <1>2, <1>6 DEF Save, At, Request, IInv, RowsAgree
  <2> QED
    BY <1>1, <1>6, <2>1, LastStep DEF Save
<1> QED
  BY <1>3, <1>4, <1>5, <1>6

(* The statements that only read, and the answers.                         *)
LEMMA ReadSteps ==
    ASSUME IInv, NEW r \in Requests,
           \/ Fail(r) \/ CheckPassword(r) \/ CountActive(r) \/ RecheckMember(r)
           \/ UpsertFind(r) \/ IssueToken(r)
    PROVE  IInv'
<1>1. /\ members \in [Users -> Member \cup {NoRow}]
      /\ tokens \in SUBSET Users
      /\ started \in 0..MaxRequests
  BY DEF IInv, StateOK
<1>2. req[r] \in Request /\ req[r].pc # "idle" /\ req[r].user \in Users
  BY Working DEF Fail, CheckPassword, CountActive, RecheckMember, UpsertFind,
                 IssueToken, At, IInv, Request
<1>3. {"count", "recheck", "upsertFind"} \subseteq Steps \ {"find", "mute", "save"}
  BY DEF Steps
<1>4. CASE Fail(r)
  BY <1>1, <1>4, LastStep DEF Fail
<1>5. CASE CheckPassword(r) \/ CountActive(r) \/ RecheckMember(r)
  <2>1. UNCHANGED <<room, members, tokens, started>>
    BY <1>5 DEF CheckPassword, CountActive, RecheckMember
  <2>2. Respond(r) \/ To(r, "count") \/ To(r, "recheck") \/ To(r, "upsertFind")
    BY <1>5 DEF CheckPassword, CountActive, RecheckMember
  <2>3. CASE Respond(r)
    BY <1>1, <2>1, <2>3, LastStep
  <2>4. CASE \E pc \in {"count", "recheck", "upsertFind"} : To(r, pc)
    BY <1>1, <1>2, <1>3, <2>1, <2>4, InnerStep
  <2> QED
    BY <2>2, <2>3, <2>4
<1>6. CASE UpsertFind(r)
  <2> DEFINE q == [req[r] EXCEPT !.pc = "upsertWrite", !.member = members[req[r].user]]
  <2>1. members[req[r].user] \in Member \cup {NoRow}
    BY <1>1, <1>2
  <2>2. q \in Request /\ q.pc = "upsertWrite"
    BY <1>2, <2>1 DEF Request, Steps
  <2>3. RequestOK(q)
    BY <2>2 DEF RequestOK
  <2>4. req' = [req EXCEPT ![r] = q] /\ UNCHANGED <<room, members, tokens, started>>
    BY <1>6 DEF UpsertFind
  <2> HIDE DEF q
  <2> QED
    BY <1>1, <2>2, <2>3, <2>4, QuietStep
<1>7. CASE IssueToken(r)
  <2>1. tokens' \in SUBSET Users
    BY <1>1, <1>2, <1>7 DEF IssueToken
  <2> QED
    BY <1>1, <1>7, <2>1, LastStep DEF IssueToken
<1> QED
  BY <1>4, <1>5, <1>6, <1>7

LEMMA StepIInv == IInv /\ [Next]_vars => IInv'
<1> SUFFICES ASSUME IInv, [Next]_vars PROVE IInv'
  OBVIOUS
<1>1. CASE UNCHANGED vars
  BY <1>1 DEF vars, IInv, StateOK, RowsAgree
<1>2. CASE Served
  BY <1>1, <1>2 DEF Served
<1>3. ASSUME NEW r \in Requests, Step(r) PROVE IInv'
  BY <1>3, StartStep, FindStep, MemberSteps, RoomSteps, ReadSteps DEF Step
<1> QED
  BY <1>1, <1>2, <1>3 DEF Next

LEMMA Inductive == Spec => []IInv
BY InitIInv, StepIInv, PTL DEF Spec

(* status and is_playing agree in the room's row, whichever of the stale   *)
(* rows that requests hold is saved over it (room_service.go:281-316,      *)
(* ws_handler.go:294-325, room_repo.go:80-83).                             *)
THEOREM StatusAgrees == Spec => []StatusConsistent
<1>1. IInv => StatusConsistent
  BY DEF IInv, RowsAgree, Agree, StatusConsistent
<1> QED
  BY <1>1, Inductive, PTL

-----------------------------------------------------------------------------
(* A room that is over stays over.                                         *)

LEMMA OverStep == IInv /\ [Next]_vars => (Over => Over')
<1> SUFFICES ASSUME IInv, [Next]_vars, Over PROVE Over'
  OBVIOUS
<1>1. CASE UNCHANGED vars
  BY <1>1 DEF vars, Over, At
<1>2. CASE Served
  BY <1>1, <1>2 DEF Served
<1>3. ASSUME NEW r \in Requests, Step(r) PROVE Over'
  <2>1. /\ started \in Nat /\ started > 0
        /\ req \in [Requests -> Request \cup {NoRequest}]
        /\ \A s \in Requests :
              /\ req[s].pc # "insertRoom"
              /\ req[s].pc = "save" => req[s].row.status = "ended"
    BY RoomAssumption DEF IInv, StateOK, Over, At
  <2>2. req[r].pc # "idle" => req[r] \in Request
    BY Working DEF IInv
  (* It is enough that the room does not come back, and that r itself is   *)
  (* neither about to insert it nor to save a row that had not ended.      *)
  <2>3. ASSUME NEW q, req' = [req EXCEPT ![r] = q],
               room' = NoRow \/ room'.status = "ended",
               started' > 0,
               q.pc # "insertRoom",
               q.pc = "save" => q.row.status = "ended"
        PROVE  Over'
    <3>1. req'[r] = q /\ \A s \in Requests \ {r} : req'[s] = req[s]
      BY <2>1, <2>3
    <3> QED
      BY <2>1, <2>3, <3>1 DEF Over, At
  <2>4. room = NoRow \/ room.status = "ended"
    BY DEF Over
  <2>5. CASE Start(r)
    <3>1. PICK op \in Ops, u \in Users, t \in Users \cup {NoUser}, cap \in Caps \cup {0} :
             /\ op = "create" <=> started = 0
             /\ req' = [req EXCEPT ![r] =
                   [pc |-> IF op = "create" THEN "insertRoom" ELSE "find",
                    op |-> op, user |-> u, target |-> t, cap |-> cap,
                    row |-> NoRow, member |-> NoRow]]
      BY <2>5 DEF Start
    <3> DEFINE q == [pc |-> IF op = "create" THEN "insertRoom" ELSE "find",
                     op |-> op, user |-> u, target |-> t, cap |-> cap,
                     row |-> NoRow, member |-> NoRow]
    <3>2. op # "create"
      BY <2>1, <3>1
    <3>3. q.pc = "find"
      BY <3>2
    <3>4. (room' = NoRow \/ room'.status = "ended") /\ started' > 0
      BY <2>1, <2>4, <2>5 DEF Start
    <3>5. req' = [req EXCEPT ![r] = q]
      BY <3>1
    <3> HIDE DEF q
    <3> QED
      BY <2>3, <3>3, <3>4, <3>5
  <2>6. CASE FindRoom(r) /\ room # NoRow /\ Allowed(r)
    <3> DEFINE op == req[r].op
               row == Changed(op, room, req[r].cap)
               q == [req[r] EXCEPT !.pc = FirstStep[op], !.row = row]
    <3>1. req[r] \in Request /\ req[r].pc = "find"
      BY <2>2, <2>6 DEF FindRoom, At
    <3>2. op \in AllOps /\ op # "create" /\ room \in Row /\ req[r].cap \in Caps \cup {0}
      BY <2>6, <3>1 DEF Request, IInv, StateOK, RequestOK
    <3>3. op \notin {"play", "pause"}
      BY <2>4, <2>6 DEF Allowed
    <3>4. row.status = "ended"
      BY <2>4, <2>6, <3>2, <3>3, ChangedRow
    <3> HIDE DEF row
    <3>5. q.pc = FirstStep[op] /\ q.row = row /\ FirstStep[op] # "insertRoom"
      BY <3>1, <3>2, FirstStepType DEF Request
    <3>6. req' = [req EXCEPT ![r] = q] /\ room' = room /\ started' = started
      BY <2>6 DEF FindRoom, row
    <3> HIDE DEF q, op
    <3> QED
      BY <2>1, <2>3, <2>4, <3>4, <3>5, <3>6
  <2>7. CASE Save(r)
    <3>1. room' = req[r].row /\ req[r].row.status = "ended" /\ started' = started
      BY <2>1, <2>7 DEF Save, At
    <3>2. req' = [req EXCEPT ![r] = NoRequest] /\ NoRequest.pc = "idle"
      BY <2>7 DEF Save, Respond, NoRequest
    <3> QED
      BY <2>1, <2>3, <3>1, <3>2
  <2>8. CASE /\ room' = room \/ room' = NoRow \/ room'.status = "ended"
             /\ started' = started
             /\ Respond(r)
    <3>1. req' = [req EXCEPT ![r] = NoRequest] /\ NoRequest.pc = "idle"
      BY <2>8 DEF Respond, NoRequest
    <3> QED
      BY <2>1, <2>3, <2>4, <2>8, <3>1
  <2>9. CASE /\ UNCHANGED <<room, started>>
             /\ req[r].pc # "idle"
             /\ \E pc \in {"count", "recheck", "upsertFind", "token"} : To(r, pc)
    <3>1. PICK pc \in {"count", "recheck", "upsertFind", "token"} : To(r, pc)
      BY <2>9
    <3> DEFINE q == [req[r] EXCEPT !.pc = pc]
    <3>2. q.pc = pc
      BY <2>2, <2>9, <3>1 DEF Request
    <3>3. req' = [req EXCEPT ![r] = q]
      BY <3>1 DEF To
    <3> HIDE DEF q
    <3> QED
      BY <2>1, <2>3, <2>4, <2>9, <3>2, <3>3
  <2>10. CASE UpsertFind(r)
    <3> DEFINE q == [req[r] EXCEPT !.pc = "upsertWrite", !.member = members[req[r].user]]
    <3>1. req[r] \in Request
      BY <2>2, <2>10 DEF UpsertFind, At
    <3>2. q.pc = "upsertWrite"
      BY <3>1 DEF Request
    <3>3. req' = [req EXCEPT ![r] = q] /\ room' = room /\ started' = started
      BY <2>10 DEF UpsertFind
    <3> HIDE DEF q
    <3> QED
      BY <2>1, <2>3, <2>4, <3>2, <3>3
  <2>11. ~InsertRoom(r)
    BY <2>1 DEF InsertRoom, At
  <2>12. CASE CheckPassword(r) \/ CountActive(r) \/ RecheckMember(r) \/ UpsertWrite(r)
    <3>1. UNCHANGED <<room, started>> /\ req[r].pc # "idle"
      BY <2>12 DEF CheckPassword, CountActive, RecheckMember, UpsertWrite, At
    <3>2. Respond(r) \/ \E pc \in {"count", "recheck", "upsertFind", "token"} : To(r, pc)
      BY <2>12 DEF CheckPassword, CountActive, RecheckMember, UpsertWrite
    <3> QED
      BY <2>8, <2>9, <3>1, <3>2
  <2>13. CASE \/ Fail(r) \/ InsertHost(r) \/ IssueToken(r) \/ LeaveRoom(r)
              \/ SetMuted(r) \/ Delete(r)
              \/ FindRoom(r) /\ ~(room # NoRow /\ Allowed(r))
    BY <2>8, <2>13 DEF Fail, InsertHost, IssueToken, LeaveRoom, SetMuted, Delete, FindRoom
  <2>14. CASE Close(r)
    <3>1. room' = NoRow \/ room'.status = "ended"
      BY <2>14 DEF Close, IInv, StateOK, Row
    <3> QED
      BY <2>8, <2>14, <3>1 DEF Close
  <2> QED
    BY <1>3, <2>5, <2>6, <2>7, <2>10, <2>11, <2>12, <2>13, <2>14 DEF Step
<1> QED
  BY <1>1, <1>2, <1>3 DEF Next

(* Once a room was closed or deleted, and the Saves that read it before are *)
(* through, no request that starts later revives it: handlePlayerSync      *)
(* refuses an ended room and Update writes its status back.                *)
THEOREM OverStaysOver == Spec => OverForGood
<1>1. IInv /\ [Next]_vars => [Over => Over']_vars
  BY OverStep
<1> QED
  BY <1>1, Inductive, PTL DEF Spec, OverForGood

-----------------------------------------------------------------------------
(* A mute is held.                                                         *)

(* The step of slot r keeps u's mute when it leaves u muted and is neither *)
(* about to unmute u nor to save an unmuted row of u's.                    *)
LEMMA MuteKept ==
    ASSUME IInv, NEW u \in Users, MuteHeld(u), NEW r \in Requests, NEW q,
           req' = [req EXCEPT ![r] = q],
           members'[u] # NoRow, members'[u].muted,
           q.pc = "mute" => ~(q.target = u /\ q.op = "unmute"),
           q.pc = "upsertWrite" /\ q.user = u => q.member # NoRow /\ q.member.muted
    PROVE  MuteHeld(u)'
<1>1. req'[r] = q /\ \A s \in Requests \ {r} : req'[s] = req[s]
  BY DEF IInv, StateOK
<1>2. \A s \in Requests :
         /\ req'[s].pc = "mute" => ~(req'[s].target = u /\ req'[s].op = "unmute")
         /\ req'[s].pc = "upsertWrite" /\ req'[s].user = u =>
               req'[s].member # NoRow /\ req'[s].member.muted
  BY <1>1 DEF MuteHeld, At
<1> QED
  BY <1>2 DEF MuteHeld, At

(* What a statement does to the members' rows, seen from a muted user.     *)
LEMMA MutedStays ==
    ASSUME IInv, NEW u \in Users, MuteHeld(u), NEW r \in Requests, Step(r), ~Delete(r)
    PROVE  members'[u] # NoRow /\ members'[u].muted
<1>1. /\ members \in [Users -> Member \cup {NoRow}]
      /\ members[u] # NoRow /\ members[u].muted
      /\ Host \in Users
      /\ members[u] \in Member
  BY RoomAssumption DEF IInv, StateOK, MuteHeld
<1>2. req[r].pc # "idle" => req[r] \in Request
  BY Working DEF IInv
<1>3. CASE UNCHANGED members
  BY <1>1, <1>3
<1>4. CASE InsertHost(r)
  BY <1>1, <1>4 DEF InsertHost
<1>5. CASE UpsertWrite(r)
  <2>1. CASE req[r].user = u
    <3>1. req[r].member # NoRow /\ req[r].member.muted
      BY <1>5, <2>1 DEF UpsertWrite, MuteHeld, At
    <3>2. members'[u] = [active |-> TRUE,
                         muted |-> req[r].member # NoRow /\ req[r].member.muted]
      BY <1>1, <1>5, <2>1 DEF UpsertWrite
    <3>3. members'[u] = [active |-> TRUE, muted |-> TRUE]
      <4>1. (req[r].member # NoRow /\ req[r].member.muted) = TRUE
        BY <3>1, Zenon
      <4> QED
        BY <3>2, <4>1, Zenon
    <3>4. members'[u] \in Member
      BY <3>3 DEF Member
    <3>5. members'[u].muted
      <4>1. members'[u].muted = TRUE
        BY <3>3
      <4> QED
        BY <4>1, Zenon
    <3> QED
      BY <3>4, <3>5, NoRowAssumption
  <2>2. CASE req[r].user # u
    BY <1>1, <1>5, <2>2 DEF UpsertWrite
  <2> QED
    BY <2>1, <2>2
<1>6. CASE LeaveRoom(r)
  <2> DEFINE v == IF req[r].op = "kick" THEN req[r].target ELSE req[r].user
  <2>1. CASE v = u
    <3>1. members'[u] = [members[u] EXCEPT !.active = FALSE]
      BY <1>1, <1>6, <2>1 DEF LeaveRoom
    <3>2. members'[u] \in Member /\ members'[u].muted
      BY <1>1, <3>1 DEF Member
    <3> QED
      BY <3>2, NoRowAssumption
  <2>2. CASE v # u
    BY <1>1, <1>6, <2>2 DEF LeaveRoom
  <2> QED
    BY <2>1, <2>2
<1>7. CASE SetMuted(r)
  <2>1. CASE req[r].target = u
    <3>1. req[r].op = "mute"
      BY <1>7, <2>1 DEF SetMuted, At, MuteHeld, IInv, RequestOK
    <3>2. members'[u] = [members[u] EXCEPT !.muted = TRUE]
      BY <1>1, <1>7, <2>1, <3>1 DEF SetMuted
    <3>3. members'[u] \in Member /\ members'[u].muted
      BY <1>1, <3>2 DEF Member
    <3> QED
      BY <3>3, NoRowAssumption
  <2>2. CASE req[r].target # u
    BY <1>1, <1>7, <2>2 DEF SetMuted
  <2> QED
    BY <2>1, <2>2
<1> QED
  BY <1>3, <1>4, <1>5, <1>6, <1>7
     DEF Step, Start, Fail, InsertRoom, FindRoom, CheckPassword, CountActive,
         RecheckMember, UpsertFind, IssueToken, Close, Save

LEMMA MuteStep ==
    ASSUME IInv, NEW u \in Users, MuteHeld(u), NEW r \in Requests, Step(r)
    PROVE  \/ MuteHeld(u)'
           \/ members'[u] = NoRow
           \/ At(r, "mute")' /\ req'[r].op = "unmute" /\ req'[r].target = u
<1>1. CASE Delete(r)
  BY <1>1 DEF Delete
<1>2. CASE ~Delete(r)
  <2>1. members'[u] # NoRow /\ members'[u].muted
    BY <1>2, MutedStays
  <2>2. req[r].pc # "idle" => req[r] \in Request
    BY Working DEF IInv
  <2>3. CASE Respond(r)
    <3>1. req' = [req EXCEPT ![r] = NoRequest] /\ NoRequest.pc = "idle"
      BY <2>3 DEF Respond, NoRequest
    <3> QED
      BY <2>1, <3>1, MuteKept
  <2>4. CASE /\ req[r].pc # "idle"
             /\ \E pc \in {"insertHost", "count", "recheck", "upsertFind", "token"} : To(r, pc)
    <3>1. PICK pc \in {"insertHost", "count", "recheck", "upsertFind", "token"} : To(r, pc)
      BY <2>4
    <3> DEFINE q == [req[r] EXCEPT !.pc = pc]
    <3>2. q.pc = pc
      BY <2>2, <2>4 DEF Request
    <3>3. req' = [req EXCEPT ![r] = q]
      BY <3>1 DEF To
    <3> HIDE DEF q
    <3> QED
      BY <2>1, <3>2, <3>3, MuteKept
  <2>5. CASE Start(r)
    <3>1. PICK op \in Ops, v \in Users, t \in Users \cup {NoUser}, cap \in Caps \cup {0} :
             req' = [req EXCEPT ![r] =
                   [pc |-> IF op = "create" THEN "insertRoom" ELSE "find",
                    op |-> op, user |-> v, target |-> t, cap |-> cap,
                    row |-> NoRow, member |-> NoRow]]
      BY <2>5 DEF Start
    <3> DEFINE q == [pc |-> IF op = "create" THEN "insertRoom" ELSE "find",
                     op |-> op, user |-> v, target |-> t, cap |-> cap,
                     row |-> NoRow, member |-> NoRow]
    <3>2. q.pc # "mute" /\ q.pc # "upsertWrite" /\ req' = [req EXCEPT ![r] = q]
      BY <3>1
    <3> HIDE DEF q
    <3> QED
      BY <2>1, <3>2, MuteKept
  <2>6. CASE FindRoom(r) /\ room # NoRow /\ Allowed(r)
    <3> DEFINE op == req[r].op
               row == Changed(op, room, req[r].cap)
               q == [req[r] EXCEPT !.pc = FirstStep[op], !.row = row]
    <3>1. req[r] \in Request /\ op \in AllOps /\ op # "create"
      BY <2>2, <2>6 DEF FindRoom, At, Request, IInv, RequestOK
    <3> HIDE DEF row
    <3>2. /\ q.pc = FirstStep[op] /\ q.op = op /\ q.target = req[r].target
          /\ FirstStep[op] # "upsertWrite"
      BY <3>1, FirstStepType DEF Request
    <3>3. req' = [req EXCEPT ![r] = q]
      BY <2>6 DEF FindRoom, row
    <3> HIDE DEF q, op
    <3>4. req'[r] = q
      BY <3>3 DEF IInv, StateOK
    <3>5. CASE q.pc = "mute" /\ q.op = "unmute" /\ q.target = u
      BY <3>4, <3>5 DEF At
    <3>6. CASE ~(q.pc = "mute" /\ q.op = "unmute" /\ q.target = u)
      BY <2>1, <3>2, <3>3, <3>6, MuteKept
    <3> QED
      BY <3>5, <3>6
  <2>7. CASE UpsertFind(r)
    <3> DEFINE q == [req[r] EXCEPT !.pc = "upsertWrite", !.member = members[req[r].user]]
    <3>1. req[r] \in Request
      BY <2>2, <2>7 DEF UpsertFind, At
    <3>2. q.pc = "upsertWrite" /\ q.user = req[r].user /\ q.member = members[req[r].user]
      BY <3>1 DEF Request
    <3>3. req' = [req EXCEPT ![r] = q]
      BY <2>7 DEF UpsertFind
    <3> HIDE DEF q
    <3>4. q.user = u => q.member # NoRow /\ q.member.muted
      BY <3>2 DEF MuteHeld
    <3> QED
      BY <2>1, <3>2, <3>3, <3>4, MuteKept
  <2>8. CASE InsertRoom(r) \/ CheckPassword(r) \/ CountActive(r) \/ RecheckMember(r)
             \/ UpsertWrite(r)
    <3>1. req[r].pc # "idle"
      BY <2>8 DEF InsertRoom, CheckPassword, CountActive, RecheckMember, UpsertWrite, At
    <3>2. \/ Respond(r)
          \/ \E pc \in {"insertHost", "count", "recheck", "upsertFind", "token"} : To(r, pc)
      BY <2>8 DEF InsertRoom, CheckPassword, CountActive, RecheckMember, UpsertWrite
    <3> QED
      BY <2>3, <2>4, <3>1, <3>2
  <2>9. CASE \/ Fail(r) \/ InsertHost(r) \/ IssueToken(r) \/ LeaveRoom(r)
             \/ SetMuted(r) \/ Close(r) \/ Save(r)
             \/ FindRoom(r) /\ ~(room # NoRow /\ Allowed(r))
    BY <2>3, <2>9 DEF Fail, InsertHost, IssueToken, LeaveRoom, SetMuted, Close, Save, FindRoom
  <2> QED
    BY <1>2, <2>5, <2>6, <2>7, <2>8, <2>9 DEF Step
<1> QED
  BY <1>1, <1>2

(* A mute outlives being kicked, leaving, joining again and opening another *)
(* socket: only the host's unmute and the end of the row take it away.     *)
THEOREM MuteOutlivesMembership == Spec => MuteSurvivesRejoin
<1> DEFINE Kept(u) ==
      \/ MuteHeld(u)'
      \/ members'[u] = NoRow
      \/ \E r \in Requests :
            (At(r, "mute") /\ req[r].op = "unmute" /\ req[r].target = u)'
<1>1. IInv /\ [Next]_vars => [\A u \in Users : MuteHeld(u) => Kept(u)]_vars
  <2> SUFFICES ASSUME IInv, Next, NEW u \in Users, MuteHeld(u), ~UNCHANGED vars
               PROVE  Kept(u)
    OBVIOUS
  <2>1. PICK r \in Requests : Step(r)
    BY DEF Next, Served
  <2> QED
    BY <2>1, MuteStep DEF At
<1> QED
  BY <1>1, Inductive, PTL DEF Spec, MuteSurvivesRejoin

-----------------------------------------------------------------------------
(* How full the room gets.                                                 *)

(* Which operation a request at a statement belongs to, and that the rows  *)
(* it works with were found.                                               *)
Kind(q) ==
    /\ q.pc \in {"insertRoom", "insertHost"} => q.op = "create" /\ q.user = Host
    /\ q.pc \in {"password", "count", "recheck", "token"} => q.op = "join"
    /\ q.pc \in {"upsertFind", "upsertWrite"} => q.op \in {"join", "serve"}
    /\ q.pc \in {"password", "count", "save"} => q.row \in Row

(* Nothing is there before the one request that creates the room inserts it. *)
Beginning ==
    /\ started = 0 => loosest = 0 /\ \A r \in Requests : req[r].pc = "idle"
    /\ \A r \in Requests : req[r].pc = "insertRoom" =>
          loosest = 0 /\ \A s \in Requests \ {r} : req[s].pc # "insertRoom"
    /\ loosest = 0 =>
          /\ room = NoRow
          /\ \A u \in Users : members[u] = NoRow
          /\ \A r \in Requests : req[r].pc \in {"idle", "find", "insertRoom"}

(* No Join counts against a limit that the room never had.                 *)
Limits ==
    /\ room # NoRow => room.max <= loosest
    /\ \A r \in Requests : req[r].pc \in {"password", "count"} => req[r].row.max <= loosest

HistoryOK == unchecked \subseteq Users /\ loosest \in Caps \cup {0}

CapInv ==
    /\ HistoryOK
    /\ \A r \in Requests : Kind(req[r])
    /\ Beginning
    /\ Limits
    /\ OvershootBounded

(* r's request is a Join past its check, or the host's own.                *)
Entering(q) ==
    \/ q.pc = "insertHost"
    \/ q.pc \in {"upsertFind", "upsertWrite"} /\ q.op = "join"

LEMMA AdmittedAlt ==
    Admitted = Active \cup {req[r].user : r \in {q \in Requests : Entering(req[q])}}
BY DEF Admitted, Entering

LEMMA CapsAreNat == Caps \cup {0} \subseteq Nat
BY RoomAssumption

(* The bound survives a step of slot r that brings nobody in unseen.       *)
LEMMA BoundKept ==
    ASSUME IInv, CapInv, loosest > 0, NEW r \in Requests, NEW q,
           req' = [req EXCEPT ![r] = q],
           Active' \subseteq Admitted \cup unchecked',
           Entering(q) => q.user \in Admitted,
           unchecked \subseteq unchecked',
           loosest' \in Nat, loosest <= loosest'
    PROVE  OvershootBounded'
<1>1. req'[r] = q /\ \A s \in Requests \ {r} : req'[s] = req[s]
  BY DEF IInv, StateOK
<1>2. Admitted' \ unchecked' \subseteq Admitted \ unchecked
  <2>1. Admitted' = Active' \cup {req'[s].user : s \in {t \in Requests : Entering(req'[t])}}
    BY DEF Admitted, Entering
  <2>2. ASSUME NEW s \in Requests, Entering(req'[s]) PROVE req'[s].user \in Admitted
    <3>1. CASE s = r
      BY <1>1, <2>2, <3>1
    <3>2. CASE s # r
      BY <1>1, <2>2, <3>2, AdmittedAlt
    <3> QED
      BY <3>1, <3>2
  <2>3. \A x : x \in Admitted' => x \in Active' \/ \E s \in Requests : Entering(req'[s]) /\ x = req'[s].user
    BY <2>1
  <2> QED
    BY <2>2, <2>3
<1>3. IsFiniteSet(Admitted \ unchecked)
  <2>1. Admitted \subseteq Users
    BY Working DEF Admitted, Active, IInv, Request, StateOK, NoRequest
  <2>2. IsFiniteSet(Users)
    BY RoomAssumption
  <2> QED
    BY <2>1, <2>2, FS_Subset
<1>4. /\ Cardinality(Admitted' \ unchecked') <= Cardinality(Admitted \ unchecked)
      /\ Cardinality(Admitted' \ unchecked') \in Nat
      /\ Cardinality(Admitted \ unchecked) \in Nat
  BY <1>2, <1>3, FS_Subset, FS_CardinalityType
<1>5. Cardinality(Requests) \in Nat /\ loosest \in Nat
  BY RoomAssumption, CapsAreNat, FS_CardinalityType DEF CapInv, HistoryOK
<1>6. Cardinality(Admitted \ unchecked) <= loosest + Cardinality(Requests) - 1
  BY DEF CapInv, OvershootBounded
<1>7. Cardinality(Admitted' \ unchecked') <= loosest' + Cardinality(Requests) - 1
  BY <1>4, <1>5, <1>6
<1> QED
  BY <1>7 DEF OvershootBounded

(* The bound is established whenever a Join has just counted: fewer active *)
(* than a limit the room has had, and at most one more for each slot.      *)
LEMMA BoundCounted ==
    ASSUME IInv', CapInv, Cardinality(Active') < loosest', loosest' \in Nat
    PROVE  OvershootBounded'
<1> DEFINE in == {q \in Requests : Entering(req'[q])}
           users == {req'[r].user : r \in in}
<1>1. Admitted' = Active' \cup users
  BY DEF Admitted, Entering
<1>2. IsFiniteSet(in) /\ Cardinality(in) <= Cardinality(Requests)
      /\ IsFiniteSet(Requests) /\ IsFiniteSet(Users)
  BY RoomAssumption, FS_Subset
<1>3. IsFiniteSet(users) /\ Cardinality(users) <= Cardinality(in)
  <2> DEFINE f == [r \in in |-> req'[r].user]
  <2>1. f \in Surjection(in, users)
    BY DEF Surjection
  <2> HIDE DEF f, in, users
  <2> QED
    BY <1>2, <2>1, FS_Surjection
<1>4. IsFiniteSet(Active')
  <2>1. Active' \subseteq Users
    BY DEF Active
  <2> QED
    BY <1>2, <2>1, FS_Subset
<1> HIDE DEF users, in
<1>5. IsFiniteSet(Admitted') /\ Cardinality(Admitted') <= Cardinality(Active') + Cardinality(users)
  <2>1. /\ IsFiniteSet(Active' \cup users)
        /\ Cardinality(Active' \cup users) =
              Cardinality(Active') + Cardinality(users) - Cardinality(Active' \cap users)
        /\ IsFiniteSet(Active' \cap users)
    BY <1>3, <1>4, FS_Union, FS_Intersection
  <2>2. /\ Cardinality(Active' \cap users) \in Nat
        /\ Cardinality(Active') \in Nat /\ Cardinality(users) \in Nat
    BY <2>1, <1>3, <1>4, FS_CardinalityType
  <2> QED
    BY <1>1, <2>1, <2>2
<1>6. Cardinality(Admitted' \ unchecked') <= Cardinality(Admitted')
  BY <1>5, FS_Subset
<1>7. /\ Cardinality(Admitted' \ unchecked') \in Nat /\ Cardinality(Admitted') \in Nat
      /\ Cardinality(Active') \in Nat /\ Cardinality(users) \in Nat
      /\ Cardinality(in) \in Nat /\ Cardinality(Requests) \in Nat
  BY <1>2, <1>3, <1>4, <1>5, FS_Subset, FS_CardinalityType
<1>8. Cardinality(Admitted' \ unchecked') <= loosest' + Cardinality(Requests) - 1
  BY <1>2, <1>3, <1>5, <1>6, <1>7
<1> QED
  BY <1>8 DEF OvershootBounded

(* Once the room was there: slot r's step keeps the invariant when the     *)
(* limits only grow, r's new request is of its kind, and the bound holds.  *)
LEMMA CapFrame ==
    ASSUME IInv, CapInv, loosest > 0, NEW r \in Requests, NEW q,
           req' = [req EXCEPT ![r] = q],
           started' # 0,
           unchecked' \subseteq Users,
           loosest' \in Caps, loosest <= loosest',
           Kind(q), q.pc # "insertRoom",
           q.pc \in {"password", "count"} => q.row.max <= loosest',
           room' # NoRow => room'.max <= loosest',
           OvershootBounded'
    PROVE  CapInv'
<1>1. req'[r] = q /\ \A s \in Requests \ {r} : req'[s] = req[s]
  BY DEF IInv, StateOK
<1>2. loosest \in Nat /\ loosest' \in Nat /\ loosest' # 0
  BY CapsAreNat, RoomAssumption DEF CapInv, HistoryOK
<1>3. HistoryOK'
  BY DEF HistoryOK
<1>4. \A s \in Requests : Kind(req'[s])
  BY <1>1 DEF CapInv
<1>5. Beginning'
  BY <1>1, <1>2 DEF CapInv, Beginning
<1>6. Limits'
  <2>1. ASSUME NEW s \in Requests, req'[s].pc \in {"password", "count"}
        PROVE  req'[s].row.max <= loosest'
    <3>1. CASE s = r
      BY <1>1, <2>1, <3>1
    <3>2. CASE s # r
      <4>1. /\ req[s].pc \in {"password", "count"} /\ req'[s] = req[s]
            /\ req[s].row.max <= loosest
        BY <1>1, <2>1, <3>2 DEF CapInv, Limits
      <4>2. req[s].row \in Row
        BY <4>1 DEF CapInv, Kind
      <4>3. req[s].row.max \in Nat
        BY <4>2, CapsAreNat DEF Row
      <4> QED
        BY <1>2, <4>1, <4>3
    <3> QED
      BY <3>1, <3>2
  <2> QED
    BY <2>1 DEF Limits
<1> QED
  BY <1>3, <1>4, <1>5, <1>6 DEF CapInv

(* A step that leaves the limits as they are and lets nobody in unseen.    *)
LEMMA CapQuiet ==
    ASSUME IInv, CapInv, loosest > 0, NEW r \in Requests, NEW q,
           req' = [req EXCEPT ![r] = q],
           started' # 0,
           unchecked \subseteq unchecked', unchecked' \subseteq Users,
           loosest' = loosest,
           Kind(q), q.pc # "insertRoom",
           q.pc \in {"password", "count"} => q.row.max <= loosest,
           room' = room \/ room' = NoRow \/ (room # NoRow /\ room'.max = room.max),
           Active' \subseteq Admitted \cup unchecked',
           Entering(q) => q.user \in Admitted
    PROVE  CapInv'
<1>1. loosest \in Caps /\ loosest' \in Caps /\ loosest' \in Nat /\ loosest <= loosest'
  BY CapsAreNat DEF CapInv, HistoryOK
<1>2. room' # NoRow => room'.max <= loosest'
  BY DEF CapInv, Limits
<1>3. OvershootBounded'
  BY <1>1, BoundKept
<1> QED
  BY <1>1, <1>2, <1>3, CapFrame

(* An answer.                                                              *)
LEMMA CapAnswer ==
    ASSUME IInv, CapInv, loosest > 0, NEW r \in Requests, Respond(r),
           started' = started,
           unchecked \subseteq unchecked', unchecked' \subseteq Users,
           loosest' = loosest,
           room' = room \/ room' = NoRow \/ (room # NoRow /\ room'.max = room.max),
           Active' \subseteq Admitted \cup unchecked'
    PROVE  CapInv'
<1>1. NoRequest.pc = "idle" /\ Kind(NoRequest) /\ ~Entering(NoRequest)
  BY DEF NoRequest, Kind, Entering
<1>2. started' # 0
  BY DEF CapInv, Beginning
<1> QED
  BY <1>1, <1>2, CapQuiet DEF Respond

(* A request that moves on to another statement of its operation.          *)
LEMMA CapMoves ==
    ASSUME IInv, CapInv, loosest > 0, NEW r \in Requests, req[r] \in Request,
           NEW pc \in {"count", "recheck", "upsertFind", "token"}, To(r, pc),
           req[r].op = "join",
           pc = "count" => req[r].pc = "password",
           pc = "upsertFind" => req[r].user \in Admitted,
           UNCHANGED <<room, started, loosest>>,
           unchecked \subseteq unchecked', unchecked' \subseteq Users,
           Active' \subseteq Admitted \cup unchecked'
    PROVE  CapInv'
<1> DEFINE q == [req[r] EXCEPT !.pc = pc]
<1>1. q.pc = pc /\ q.op = "join" /\ q.user = req[r].user /\ q.row = req[r].row
  BY DEF Request
<1>2. req' = [req EXCEPT ![r] = q]
  BY DEF To
<1>3. started' # 0
  BY DEF CapInv, Beginning
<1> HIDE DEF q
<1>4. pc = "count" => q.row \in Row /\ q.row.max <= loosest
  BY <1>1 DEF CapInv, Kind, Limits
<1>5. Kind(q)
  BY <1>1, <1>4 DEF Kind
<1>6. Entering(q) => q.user \in Admitted
  BY <1>1 DEF Entering
<1>7. q.pc # "insertRoom"
  BY <1>1
<1> QED
  BY <1>7, <1>1, <1>2, <1>3, <1>4, <1>5, <1>6, CapQuiet

(* The statements before the room is there.                                *)
LEMMA CapBefore ==
    ASSUME IInv, CapInv, loosest = 0, NEW r \in Requests, Step(r), IInv'
    PROVE  CapInv'
<1>1. /\ room = NoRow
      /\ \A u \in Users : members[u] = NoRow
      /\ \A s \in Requests : req[s].pc \in {"idle", "find", "insertRoom"}
  BY DEF CapInv, Beginning
<1>2. Start(r) \/ Fail(r) \/ InsertRoom(r) \/ FindRoom(r)
  BY <1>1 DEF Step, InsertHost, CheckPassword, CountActive, RecheckMember, UpsertFind,
              UpsertWrite, IssueToken, LeaveRoom, SetMuted, Close, Delete, Save, At
<1>3. NoRequest.pc = "idle" /\ Kind(NoRequest)
  BY DEF NoRequest, Kind
<1>4. started \in 0..MaxRequests /\ MaxRequests \in Nat
  BY RoomAssumption DEF IInv, StateOK
<1>5. CASE Start(r)
  <2>1. PICK op \in Ops, u \in Users, t \in Users \cup {NoUser}, cap \in Caps \cup {0} :
           /\ op = "create" <=> started = 0
           /\ op = "create" => u = Host
           /\ req' = [req EXCEPT ![r] =
                 [pc |-> IF op = "create" THEN "insertRoom" ELSE "find",
                  op |-> op, user |-> u, target |-> t, cap |-> cap,
                  row |-> NoRow, member |-> NoRow]]
    BY <1>5 DEF Start
  <2> DEFINE q == [pc |-> IF op = "create" THEN "insertRoom" ELSE "find",
                   op |-> op, user |-> u, target |-> t, cap |-> cap,
                   row |-> NoRow, member |-> NoRow]
  <2>2. /\ q.pc = (IF op = "create" THEN "insertRoom" ELSE "find")
        /\ q.op = op /\ q.user = u /\ req' = [req EXCEPT ![r] = q]
    BY <2>1
  <2> HIDE DEF q
  <2>3. req'[r] = q /\ \A s \in Requests \ {r} : req'[s] = req[s]
    BY <2>2 DEF IInv, StateOK
  <2>4. Kind(q)
    BY <2>1, <2>2 DEF Kind
  <2>5. /\ started' = started + 1 /\ started' # 0
        /\ UNCHANGED <<room, members, loosest, unchecked>>
    BY <1>4, <1>5 DEF Start, history
  <2>6. q.pc = "insertRoom" => \A s \in Requests : req[s].pc = "idle"
    BY <2>1, <2>2 DEF CapInv, Beginning
  <2>7. \A s \in Requests : req'[s].pc \in {"idle", "find", "insertRoom"}
    BY <1>1, <2>2, <2>3
  <2>8. Beginning'
    BY <1>1, <2>3, <2>5, <2>6, <2>7 DEF CapInv, Beginning
  <2>9. Limits' /\ HistoryOK' /\ OvershootBounded'
    BY <1>1, <2>5, <2>7 DEF CapInv, Limits, HistoryOK, OvershootBounded
  <2>10. \A s \in Requests : Kind(req'[s])
    BY <2>3, <2>4 DEF CapInv
  <2> QED
    BY <2>8, <2>9, <2>10 DEF CapInv
<1>6. CASE Fail(r) \/ FindRoom(r)
  <2>1. Respond(r) /\ UNCHANGED <<room, members, loosest, unchecked, started>>
    BY <1>1, <1>6 DEF Fail, FindRoom, history
  <2>2. req'[r] = NoRequest /\ \A s \in Requests \ {r} : req'[s] = req[s]
    BY <2>1 DEF Respond, IInv, StateOK
  <2>3. \A s \in Requests : req'[s].pc \in {"idle", "find", "insertRoom"}
    BY <1>1, <1>3, <2>2
  <2>4. Beginning'
    BY <1>1, <1>3, <2>1, <2>2, <2>3 DEF CapInv, Beginning
  <2>5. Limits' /\ HistoryOK' /\ OvershootBounded'
    BY <1>1, <2>1, <2>3 DEF CapInv, Limits, HistoryOK, OvershootBounded
  <2>6. \A s \in Requests : Kind(req'[s])
    BY <1>3, <2>2 DEF CapInv
  <2> QED
    BY <2>4, <2>5, <2>6 DEF CapInv
<1>7. CASE InsertRoom(r)
  <2> DEFINE q == [req[r] EXCEPT !.pc = "insertHost"]
             max == IF req[r].cap = 0 THEN DefaultCap ELSE req[r].cap
  <2>1. req[r] \in Request /\ req[r].pc = "insertRoom"
    BY <1>7, Working DEF InsertRoom, At, IInv
  <2>2. max \in Caps
    BY <2>1, RoomAssumption DEF Request
  <2>3. room'.max = max /\ room' # NoRow
    <3>1. room' = [status |-> "waiting", playing |-> FALSE, max |-> max]
      BY <1>7 DEF InsertRoom
    <3>2. room' \in Row
      BY <2>2, <3>1 DEF Row, Statuses
    <3> QED
      BY <3>1, <3>2, NoRowAssumption
  <2>4. q.pc = "insertHost" /\ q.op = req[r].op /\ q.user = req[r].user
    BY <2>1 DEF Request
  <2>5. req' = [req EXCEPT ![r] = q]
    BY <1>7 DEF InsertRoom, To
  <2> HIDE DEF q, max
  <2>6. req'[r] = q /\ \A s \in Requests \ {r} : req'[s] = req[s]
    BY <2>5 DEF IInv, StateOK
  <2>7. loosest' = max /\ max \in Nat /\ max > 0
    BY <1>7, <2>2, <2>3, RoomAssumption DEF InsertRoom, Loosen
  <2>8. UNCHANGED <<members, started, unchecked>> /\ started # 0
    BY <1>7, <2>1 DEF InsertRoom, CapInv, Beginning
  <2>9. \A s \in Requests : Kind(req'[s])
    BY <2>1, <2>4, <2>6 DEF CapInv, Kind
  <2>10. \A s \in Requests : req'[s].pc \in {"idle", "find", "insertHost"}
    <3>1. ASSUME NEW s \in Requests \ {r} PROVE req[s].pc # "insertRoom"
      BY <2>1, <3>1 DEF CapInv, Beginning
    <3> QED
      BY <1>1, <2>4, <2>6, <3>1
  <2>11. Beginning'
    BY <2>7, <2>8, <2>10 DEF Beginning
  <2>12. Limits'
    BY <2>3, <2>7, <2>10 DEF Limits
  <2>13. HistoryOK'
    BY <2>2, <2>7, <2>8 DEF HistoryOK, CapInv
  <2>14. OvershootBounded'
    <3>1. Active' = {}
      BY <1>1, <2>8 DEF Active
    <3>2. Cardinality(Active') = 0
      BY <3>1, FS_EmptySet
    <3> QED
      BY <2>7, <3>2, BoundCounted
  <2> QED
    BY <2>9, <2>11, <2>12, <2>13, <2>14 DEF CapInv
<1> QED
  BY <1>2, <1>5, <1>6, <1>7

(* The statements that write members' rows let in only who was admitted,   *)
(* and who came through a socket.                                          *)
LEMMA ActiveGrows ==
    ASSUME IInv, CapInv, NEW r \in Requests, Step(r)
    PROVE  Active' \subseteq Admitted \cup unchecked'
<1>1. /\ members \in [Users -> Member \cup {NoRow}]
      /\ Host \in Users
      /\ Active \subseteq Admitted
  BY RoomAssumption, AdmittedAlt DEF IInv, StateOK
<1>2. req[r].pc # "idle" => req[r] \in Request
  BY Working DEF IInv
<1>3. Kind(req[r])
  BY DEF CapInv
<1>4. CASE UNCHANGED members
  BY <1>1, <1>4 DEF Active
<1>5. CASE InsertHost(r)
  <2>1. Entering(req[r]) /\ req[r].user = Host
    BY <1>3, <1>5 DEF InsertHost, At, Entering, Kind
  <2>2. Host \in Admitted
    BY <2>1, AdmittedAlt
  <2>3. \A u \in Users \ {Host} : members'[u] = members[u]
    BY <1>1, <1>5 DEF InsertHost
  <2> QED
    BY <1>1, <2>2, <2>3 DEF Active
<1>6. CASE UpsertWrite(r)
  <2>1. /\ req[r].pc = "upsertWrite" /\ req[r].op \in {"join", "serve"}
        /\ req[r].user \in Users
    BY <1>2, <1>3, <1>6 DEF UpsertWrite, At, Kind, Request
  <2>2. \A u \in Users \ {req[r].user} : members'[u] = members[u]
    BY <1>1, <1>6 DEF UpsertWrite
  <2>3. req[r].user \in Admitted \cup unchecked'
    <3>1. CASE req[r].op = "join"
      <4>1. Entering(req[r])
        BY <2>1, <3>1 DEF Entering
      <4> QED
        BY <4>1, AdmittedAlt
    <3>2. CASE req[r].op = "serve"
      BY <1>1, <1>6, <3>2 DEF UpsertWrite, Unchecked
    <3> QED
      BY <2>1, <3>1, <3>2
  <2> QED
    BY <1>1, <2>2, <2>3 DEF Active
<1>7. CASE LeaveRoom(r)
  <2>1. \A u \in Users :
            \/ members'[u] = members[u]
            \/ members[u] \in Member /\ members'[u] = [members[u] EXCEPT !.active = FALSE]
    BY <1>1, <1>7 DEF LeaveRoom
  <2>2. \A u \in Users : members'[u] = members[u] \/ members'[u].active = FALSE
    BY <2>1 DEF Member
  <2>3. \A u \in Active' : u \in Active
    BY <2>2, Zenon DEF Active
  <2> QED
    BY <1>1, <2>3
<1>8. CASE SetMuted(r)
  <2>1. \A u \in Users :
            \/ members'[u] = members[u]
            \/ members[u] \in Member /\ members'[u] = [members[u] EXCEPT !.muted = (req[r].op = "mute")]
    BY <1>1, <1>8 DEF SetMuted
  <2>2. \A u \in Users :
            \/ members'[u] = members[u]
            \/ members[u] \in Member /\ members'[u].active = members[u].active
    BY <2>1 DEF Member
  <2>3. \A u \in Active' : u \in Active
    BY <2>2, NoRowAssumption, Zenon DEF Active
  <2> QED
    BY <1>1, <2>3
<1>9. CASE Delete(r)
  BY <1>9 DEF Delete, Active
<1> QED
  BY <1>4, <1>5, <1>6, <1>7, <1>8, <1>9
     DEF Step, Start, Fail, InsertRoom, FindRoom, CheckPassword, CountActive,
         RecheckMember, UpsertFind, IssueToken, Close, Save

(* The statements once the room was there.                                 *)
LEMMA CapLater ==
    ASSUME IInv, CapInv, loosest > 0, NEW r \in Requests, Step(r), IInv'
    PROVE  CapInv'
<1>1. /\ loosest \in Caps /\ loosest \in Nat
      /\ started \in 0..MaxRequests /\ started # 0
      /\ unchecked \subseteq Users
      /\ room \in Row \cup {NoRow}
      /\ Active \subseteq Admitted
  BY CapsAreNat, AdmittedAlt DEF CapInv, HistoryOK, Beginning, IInv, StateOK
<1>2. req[r].pc # "idle" => req[r] \in Request
  BY Working DEF IInv
<1>3. Kind(req[r]) /\ Active' \subseteq Admitted \cup unchecked'
  BY ActiveGrows DEF CapInv
<1>4. ~InsertRoom(r)
  BY <1>1 DEF InsertRoom, At, CapInv, Beginning
<1>5. CASE Start(r)
  <2>1. PICK op \in Ops, u \in Users, t \in Users \cup {NoUser}, cap \in Caps \cup {0} :
           /\ op = "create" <=> started = 0
           /\ req' = [req EXCEPT ![r] =
                 [pc |-> IF op = "create" THEN "insertRoom" ELSE "find",
                  op |-> op, user |-> u, target |-> t, cap |-> cap,
                  row |-> NoRow, member |-> NoRow]]
    BY <1>5 DEF Start
  <2> DEFINE q == [pc |-> IF op = "create" THEN "insertRoom" ELSE "find",
                   op |-> op, user |-> u, target |-> t, cap |-> cap,
                   row |-> NoRow, member |-> NoRow]
  <2>2. q.pc = "find" /\ req' = [req EXCEPT ![r] = q]
    BY <1>1, <2>1
  <2> HIDE DEF q
  <2>3. Kind(q) /\ ~Entering(q)
    BY <2>2 DEF Kind, Entering
  <2>4. /\ started' # 0
        /\ UNCHANGED <<room, loosest, unchecked>>
    BY <1>1, <1>5, RoomAssumption DEF Start, history
  <2> QED
    BY <1>1, <1>3, <2>2, <2>3, <2>4, CapQuiet
<1>6. CASE FindRoom(r) /\ room # NoRow /\ Allowed(r)
  <2> DEFINE op == req[r].op
             row == Changed(op, room, req[r].cap)
             q == [req[r] EXCEPT !.pc = FirstStep[op], !.row = row]
  <2>1. /\ req[r] \in Request /\ op \in AllOps /\ op # "create" /\ room \in Row
        /\ req[r].cap \in Caps \cup {0}
    BY <1>1, <1>2, <1>6 DEF FindRoom, At, Request, IInv, RequestOK
  <2>2. row \in Row /\ (op = "join" => row = room)
    BY <2>1, ChangedRow DEF Changed
  <2>3. /\ FirstStep[op] \notin {"insertRoom", "insertHost", "upsertWrite", "count", "recheck", "token"}
        /\ FirstStep[op] = "password" => op = "join"
        /\ FirstStep[op] = "upsertFind" => op = "serve"
    BY <2>1 DEF AllOps, FirstStep
  <2> HIDE DEF row
  <2>4. q.pc = FirstStep[op] /\ q.op = op /\ q.row = row
    BY <2>1 DEF Request
  <2>5. req' = [req EXCEPT ![r] = q]
    BY <1>6 DEF FindRoom, row
  <2> HIDE DEF q
  <2>6. Kind(q) /\ ~Entering(q) /\ q.pc # "insertRoom"
    BY <2>2, <2>3, <2>4 DEF Kind, Entering
  <2>7. q.pc \in {"password", "count"} => q.row.max <= loosest
    BY <1>6, <2>2, <2>3, <2>4 DEF CapInv, Limits
  <2>8. UNCHANGED <<room, loosest, unchecked, started>>
    BY <1>6 DEF FindRoom, history
  <2> HIDE DEF op
  <2> QED
    BY <1>1, <1>3, <2>5, <2>6, <2>7, <2>8, CapQuiet
<1>7. CASE UpsertFind(r)
  <2> DEFINE q == [req[r] EXCEPT !.pc = "upsertWrite", !.member = members[req[r].user]]
  <2>1. req[r] \in Request /\ req[r].pc = "upsertFind"
    BY <1>2, <1>7 DEF UpsertFind, At
  <2>2. q.pc = "upsertWrite" /\ q.op = req[r].op /\ q.user = req[r].user
    BY <2>1 DEF Request
  <2>3. req' = [req EXCEPT ![r] = q] /\ UNCHANGED <<room, loosest, unchecked, started>>
    BY <1>7 DEF UpsertFind, history
  <2> HIDE DEF q
  <2>4. Kind(q)
    BY <1>3, <2>1, <2>2 DEF Kind
  <2>5. Entering(q) => q.user \in Admitted
    BY <2>1, <2>2, AdmittedAlt DEF Entering
  <2> QED
    BY <1>1, <1>3, <2>2, <2>3, <2>4, <2>5, CapQuiet
<1>8. CASE CountActive(r)
  <2>1. req[r] \in Request /\ req[r].pc = "count" /\ req[r].op = "join" /\ req[r].row \in Row
    BY <1>2, <1>3, <1>8 DEF CountActive, At, Kind
  <2>2. UNCHANGED <<room, members, loosest, unchecked, started>>
    BY <1>8 DEF CountActive, history
  <2>3. CASE To(r, "recheck")
    BY <1>1, <1>3, <2>1, <2>2, <2>3, CapMoves
  <2>4. CASE To(r, "upsertFind") /\ ~(Cardinality(Active) >= req[r].row.max)
    <3> DEFINE q == [req[r] EXCEPT !.pc = "upsertFind"]
    <3>1. q.pc = "upsertFind" /\ q.op = "join"
      BY <2>1 DEF Request
    <3>2. req' = [req EXCEPT ![r] = q]
      BY <2>4 DEF To
    <3> HIDE DEF q
    <3>3. Kind(q)
      BY <3>1 DEF Kind
    <3>4. req[r].row.max \in Nat /\ req[r].row.max <= loosest
      BY <2>1, CapsAreNat DEF CapInv, Limits, Row
    <3>5. Cardinality(Active) \in Nat
      <4>1. Active \subseteq Users /\ IsFiniteSet(Users)
        BY RoomAssumption DEF Active
      <4> QED
        BY <4>1, FS_Subset, FS_CardinalityType
    <3>6. Active' = Active
      BY <2>2 DEF Active
    <3>7. Cardinality(Active') < loosest' /\ loosest' \in Nat
      BY <1>1, <2>2, <2>4, <3>4, <3>5, <3>6
    <3>8. OvershootBounded'
      BY <3>7, BoundCounted
    <3>9. room' # NoRow => room'.max <= loosest'
      BY <2>2 DEF CapInv, Limits
    <3>10. loosest' \in Caps /\ loosest <= loosest' /\ unchecked' \subseteq Users /\ started' # 0
      BY <1>1, <2>2
    <3> QED
      BY <3>1, <3>2, <3>3, <3>8, <3>9, <3>10, CapFrame
  <2> QED
    BY <1>8, <2>3, <2>4 DEF CountActive
<1>9. CASE RecheckMember(r) \/ CheckPassword(r)
  <2>1. /\ req[r] \in Request /\ req[r].op = "join"
        /\ UNCHANGED <<room, loosest, unchecked, started>>
    BY <1>2, <1>3, <1>9 DEF RecheckMember, CheckPassword, At, Kind, history
  <2>2. CASE Respond(r)
    BY <1>1, <1>3, <2>1, <2>2, CapAnswer
  <2>3. CASE RecheckMember(r) /\ To(r, "upsertFind") /\ req[r].user \in Active
    BY <1>1, <1>3, <2>1, <2>3, CapMoves
  <2>4. CASE CheckPassword(r) /\ To(r, "count")
    BY <1>1, <1>3, <2>1, <2>4, CapMoves DEF CheckPassword, At
  <2> QED
    BY <1>9, <2>2, <2>3, <2>4 DEF RecheckMember, CheckPassword
<1>10. CASE UpsertWrite(r)
  <2>1. req[r] \in Request /\ req[r].user \in Users
    BY <1>2, <1>10 DEF UpsertWrite, At, Request
  <2>2. /\ UNCHANGED <<room, loosest, started>>
        /\ unchecked \subseteq unchecked' /\ unchecked' \subseteq Users
    BY <1>1, <1>10, <2>1 DEF UpsertWrite, Unchecked
  <2>3. CASE Respond(r)
    BY <1>1, <1>3, <2>2, <2>3, CapAnswer
  <2>4. CASE req[r].op = "join" /\ To(r, "token")
    BY <1>1, <1>3, <2>1, <2>2, <2>4, CapMoves
  <2> QED
    BY <1>10, <2>3, <2>4 DEF UpsertWrite
<1>11. CASE Save(r)
  <2>1. req[r].row \in Row /\ room' = req[r].row
    BY <1>3, <1>11 DEF Save, At, Kind
  <2>2. room'.max \in Caps /\ room'.max \in Nat
    BY <2>1, CapsAreNat DEF Row
  <2>3. loosest' \in Caps /\ loosest' \in Nat /\ loosest <= loosest' /\ room'.max <= loosest'
    BY <1>1, <1>11, <2>2 DEF Save, Loosen
  <2>4. UNCHANGED <<started, unchecked>> /\ req' = [req EXCEPT ![r] = NoRequest]
    BY <1>11 DEF Save, Respond
  <2>5. NoRequest.pc = "idle" /\ Kind(NoRequest) /\ ~Entering(NoRequest)
    BY DEF NoRequest, Kind, Entering
  <2>6. OvershootBounded'
    BY <1>3, <2>3, <2>4, <2>5, BoundKept
  <2> QED
    BY <1>1, <2>3, <2>4, <2>5, <2>6, CapFrame
<1>12. CASE \/ Fail(r) \/ InsertHost(r) \/ IssueToken(r) \/ LeaveRoom(r)
            \/ SetMuted(r) \/ Delete(r) \/ Close(r)
            \/ FindRoom(r) /\ ~(room # NoRow /\ Allowed(r))
  <2>1. Respond(r) /\ UNCHANGED <<started, loosest, unchecked>>
    BY <1>12 DEF Fail, InsertHost, IssueToken, LeaveRoom, SetMuted, Delete, Close, FindRoom, history
  <2>2. room' = room \/ room' = NoRow \/ (room # NoRow /\ room'.max = room.max)
    BY <1>1, <1>12 DEF Fail, InsertHost, IssueToken, LeaveRoom, SetMuted, Delete, Close, FindRoom, Row
  <2> QED
    BY <1>1, <1>3, <2>1, <2>2, CapAnswer
<1> QED
  BY <1>4, <1>5, <1>6, <1>7, <1>8, <1>9, <1>10, <1>11, <1>12 DEF Step

LEMMA InitCapInv == Init => CapInv
<1> SUFFICES ASSUME Init PROVE CapInv
  OBVIOUS
<1>1. \A r \in Requests : req[r] = NoRequest
  BY DEF Init
<1>2. \A r \in Requests : req[r].pc = "idle"
  BY <1>1 DEF NoRequest
<1>3. \A r \in Requests : Kind(req[r])
  BY <1>2 DEF Kind
<1>4. Beginning /\ Limits /\ HistoryOK /\ OvershootBounded
  BY <1>2 DEF Init, Beginning, Limits, HistoryOK, OvershootBounded
<1> QED
  BY <1>3, <1>4 DEF CapInv

LEMMA StepCapInv == IInv /\ CapInv /\ [Next]_vars => CapInv'
<1> SUFFICES ASSUME IInv, CapInv, [Next]_vars PROVE CapInv'
  OBVIOUS
<1>1. IInv'
  BY StepIInv
<1>2. CASE UNCHANGED vars
  <2>1. HistoryOK' /\ Limits' /\ Beginning' /\ \A r \in Requests : Kind(req'[r])
    BY <1>2 DEF vars, history, CapInv, HistoryOK, Limits, Beginning
  <2>2. Active' = Active /\ Admitted' = Admitted
    BY <1>2 DEF vars, Active, Admitted
  <2>3. OvershootBounded'
    BY <1>2, <2>2 DEF vars, history, CapInv, OvershootBounded
  <2> QED
    BY <2>1, <2>3 DEF CapInv
<1>3. CASE Served
  BY <1>2, <1>3 DEF Served
<1>4. ASSUME NEW r \in Requests, Step(r) PROVE CapInv'
  <2>1. loosest = 0 \/ loosest > 0
    BY CapsAreNat DEF CapInv, HistoryOK
  <2> QED
    BY <1>1, <1>4, <2>1, CapBefore, CapLater
<1> QED
  BY <1>2, <1>3, <1>4 DEF Next

LEMMA CapInductive == Spec => []CapInv
BY InitCapInv, StepCapInv, Inductive, PTL, InitIInv DEF Spec

(* Joins that overlap take in at most one more each than the largest limit *)
(* the room has had, whatever leaves, is kicked, is raised or lowered in   *)
(* between (room_service.go:210-226); only a socket takes in more.         *)
THEOREM OvershootIsBounded == Spec => []OvershootBounded
<1>1. CapInv => OvershootBounded
  BY DEF CapInv
<1> QED
  BY <1>1, CapInductive, PTL

(* The rows, the tokens and the requests keep their types; in particular no *)
(* limit of 0 gets into the table.                                         *)
THEOREM TypeCorrect == Spec => []TypeOK
<1>1. IInv /\ CapInv => TypeOK
  BY DEF IInv, CapInv, HistoryOK, TypeOK
<1> QED
  BY <1>1, Inductive, CapInductive, PTL

-----------------------------------------------------------------------------
(* A room that is over takes nobody in.                                    *)

(* What slot r may be doing for someone who stays outside.                 *)
Harmless(q) ==
    /\ q.op \notin {"create", "serve"}
    /\ q.op = "join" => q.pc = "find"

(* u stays outside when r's step brings in neither u nor a token for u.    *)
LEMMA OutsideKept ==
    ASSUME IInv, NEW u \in Users, Outside(u), Over', NEW r \in Requests, NEW q,
           req' = [req EXCEPT ![r] = q],
           q.pc = "idle" \/ (q.user = u => Harmless(q)),
           u \notin Active', u \notin tokens'
    PROVE  Outside(u)'
<1>1. req'[r] = q /\ \A s \in Requests \ {r} : req'[s] = req[s]
  BY DEF IInv, StateOK
<1>2. \A s \in Requests : req'[s].pc = "idle" \/ (req'[s].user = u => Harmless(req'[s]))
  BY <1>1 DEF Outside, Harmless, At
<1> QED
  BY <1>2 DEF Outside, Harmless, At

LEMMA OutsideStep ==
    ASSUME IInv, CapInv, NEW u \in Users, Outside(u), Over', NEW r \in Requests, Step(r)
    PROVE  Outside(u)'
<1>1. /\ started > 0 /\ started \in Nat
      /\ room = NoRow \/ room.status = "ended"
      /\ u \notin Active /\ u \notin tokens
      /\ members \in [Users -> Member \cup {NoRow}]
  BY RoomAssumption DEF Outside, Over, IInv, StateOK
<1>2. req[r].pc # "idle" => req[r] \in Request
  BY Working DEF IInv
<1>3. Kind(req[r]) /\ (req[r].pc # "idle" /\ req[r].user = u => Harmless(req[r]))
  BY DEF CapInv, Outside, Harmless, At
<1>4. u \notin Active'
  <2>1. CASE UNCHANGED members
    BY <1>1, <2>1 DEF Active
  <2>2. CASE InsertHost(r)
    <3>1. Host # u
      BY <1>3, <2>2 DEF InsertHost, At, Kind, Harmless
    <3>2. members'[u] = members[u]
      BY <1>1, <2>2, <3>1 DEF InsertHost
    <3> QED
      BY <1>1, <3>2 DEF Active
  <2>3. CASE UpsertWrite(r)
    <3>1. req[r].user # u
      BY <1>3, <2>3 DEF UpsertWrite, At, Kind, Harmless
    <3>2. members'[u] = members[u]
      BY <1>1, <2>3, <3>1 DEF UpsertWrite
    <3> QED
      BY <1>1, <3>2 DEF Active
  <2>4. CASE LeaveRoom(r)
    <3>1. \/ members'[u] = members[u]
          \/ members[u] \in Member /\ members'[u] = [members[u] EXCEPT !.active = FALSE]
      BY <1>1, <2>4 DEF LeaveRoom
    <3>2. members'[u] = members[u] \/ members'[u].active = FALSE
      BY <3>1 DEF Member
    <3> QED
      BY <1>1, <3>2, Zenon DEF Active
  <2>5. CASE SetMuted(r)
    <3>1. \/ members'[u] = members[u]
          \/ members[u] \in Member /\ members'[u] = [members[u] EXCEPT !.muted = (req[r].op = "mute")]
      BY <1>1, <2>5 DEF SetMuted
    <3>2. members'[u] = members[u] \/ (members[u] \in Member /\ members'[u].active = members[u].active)
      BY <3>1 DEF Member
    <3> QED
      BY <1>1, <3>2, NoRowAssumption, Zenon DEF Active
  <2>6. CASE Delete(r)
    BY <2>6 DEF Delete, Active
  <2> QED
    BY <2>1, <2>2, <2>3, <2>4, <2>5, <2>6
       DEF Step, Start, Fail, InsertRoom, FindRoom, CheckPassword, CountActive,
           RecheckMember, UpsertFind, IssueToken, Close, Save
<1>5. u \notin tokens'
  <2>1. CASE UNCHANGED tokens
    BY <1>1, <2>1
  <2>2. CASE IssueToken(r)
    <3>1. req[r].user # u
      BY <1>3, <2>2 DEF IssueToken, At, Kind, Harmless
    <3> QED
      BY <1>1, <2>2, <3>1 DEF IssueToken
  <2> QED
    BY <2>1, <2>2
       DEF Step, Start, Fail, InsertRoom, InsertHost, FindRoom, CheckPassword, CountActive,
           RecheckMember, UpsertFind, UpsertWrite, LeaveRoom, SetMuted, Close, Delete, Save
<1>6. CASE Respond(r)
  <2>1. req' = [req EXCEPT ![r] = NoRequest] /\ NoRequest.pc = "idle"
    BY <1>6 DEF Respond, NoRequest
  <2> QED
    BY <1>4, <1>5, <2>1, OutsideKept
<1>7. CASE Start(r)
  <2>1. PICK op \in Ops, v \in Users, t \in Users \cup {NoUser}, cap \in Caps \cup {0} :
           /\ op = "create" <=> started = 0
           /\ op \in {"serve", "play", "pause"} => v \in tokens
           /\ req' = [req EXCEPT ![r] =
                 [pc |-> IF op = "create" THEN "insertRoom" ELSE "find",
                  op |-> op, user |-> v, target |-> t, cap |-> cap,
                  row |-> NoRow, member |-> NoRow]]
    BY <1>7 DEF Start
  <2> DEFINE q == [pc |-> IF op = "create" THEN "insertRoom" ELSE "find",
                   op |-> op, user |-> v, target |-> t, cap |-> cap,
                   row |-> NoRow, member |-> NoRow]
  <2>2. q.pc = "find" /\ q.op = op /\ q.user = v /\ req' = [req EXCEPT ![r] = q]
    BY <1>1, <2>1
  <2> HIDE DEF q
  <2>3. q.user = u => Harmless(q)
    BY <1>1, <2>1, <2>2 DEF Harmless
  <2> QED
    BY <1>4, <1>5, <2>2, <2>3, OutsideKept
<1>8. CASE FindRoom(r) /\ room # NoRow /\ Allowed(r)
  <2> DEFINE op == req[r].op
             row == Changed(op, room, req[r].cap)
             q == [req[r] EXCEPT !.pc = FirstStep[op], !.row = row]
  <2>1. req[r] \in Request /\ req[r].pc = "find" /\ op # "join"
    BY <1>1, <1>2, <1>8 DEF FindRoom, At, Allowed
  <2> HIDE DEF row
  <2>2. q.op = op /\ q.user = req[r].user
    BY <2>1 DEF Request
  <2>3. req' = [req EXCEPT ![r] = q]
    BY <1>8 DEF FindRoom, row
  <2> HIDE DEF q
  <2>4. q.user = u => Harmless(q)
    BY <1>3, <2>1, <2>2 DEF Harmless
  <2> HIDE DEF op
  <2> QED
    BY <1>4, <1>5, <2>3, <2>4, OutsideKept
(* Every other statement belongs to a request that is not u's.             *)
<1>9. CASE \/ InsertRoom(r) \/ CheckPassword(r) \/ CountActive(r) \/ RecheckMember(r)
           \/ UpsertFind(r) \/ UpsertWrite(r)
  <2>1. req[r].pc \in {"insertRoom", "password", "count", "recheck", "upsertFind", "upsertWrite"}
    BY <1>9 DEF InsertRoom, CheckPassword, CountActive, RecheckMember, UpsertFind, UpsertWrite, At
  <2>2. req[r] \in Request /\ req[r].user # u
    BY <1>2, <1>3, <2>1 DEF Kind, Harmless
  <2>3. CASE UpsertFind(r)
    <3> DEFINE q == [req[r] EXCEPT !.pc = "upsertWrite", !.member = members[req[r].user]]
    <3>1. q.user = req[r].user
      BY <2>2 DEF Request
    <3>2. req' = [req EXCEPT ![r] = q]
      BY <2>3 DEF UpsertFind
    <3> HIDE DEF q
    <3> QED
      BY <1>4, <1>5, <2>2, <3>1, <3>2, OutsideKept
  <2>4. CASE \E pc \in {"insertHost", "count", "recheck", "upsertFind", "token"} : To(r, pc)
    <3>1. PICK pc \in {"insertHost", "count", "recheck", "upsertFind", "token"} : To(r, pc)
      BY <2>4
    <3> DEFINE q == [req[r] EXCEPT !.pc = pc]
    <3>2. q.user = req[r].user
      BY <2>2 DEF Request
    <3>3. req' = [req EXCEPT ![r] = q]
      BY <3>1 DEF To
    <3> HIDE DEF q
    <3> QED
      BY <1>4, <1>5, <2>2, <3>2, <3>3, OutsideKept
  <2> QED
    BY <1>6, <1>9, <2>3, <2>4
       DEF InsertRoom, CheckPassword, CountActive, RecheckMember, UpsertWrite
<1>10. CASE \/ Fail(r) \/ InsertHost(r) \/ IssueToken(r) \/ LeaveRoom(r)
            \/ SetMuted(r) \/ Close(r) \/ Delete(r) \/ Save(r)
            \/ FindRoom(r) /\ ~(room # NoRow /\ Allowed(r))
  BY <1>6, <1>10 DEF Fail, InsertHost, IssueToken, LeaveRoom, SetMuted, Close, Delete, Save, FindRoom
<1> QED
  BY <1>7, <1>8, <1>9, <1>10 DEF Step

(* Whoever holds no token of a room that is over, and is not being served, *)
(* stays outside: neither Join (room_service.go:195) nor, without its own  *)
(* check, Serve (ws_handler.go:116) brings a newcomer in.                  *)
THEOREM NewcomersStayOut == Spec => ClosedToNewcomers
<1>1. IInv /\ CapInv /\ [Next]_vars => [\A u \in Users : Outside(u) => Outside(u)']_vars
  <2> SUFFICES ASSUME IInv, CapInv, Next, NEW u \in Users, Outside(u), ~UNCHANGED vars
               PROVE  Outside(u)'
    OBVIOUS
  <2>1. PICK r \in Requests : Step(r)
    BY DEF Next, Served
  <2>2. Over'
    BY OverStep DEF Outside
  <2> QED
    BY <2>1, <2>2, OutsideStep
<1> QED
  BY <1>1, Inductive, CapInductive, PTL DEF Spec, ClosedToNewcomers
=============================================================================
