---------------------------- MODULE MoviesProofs ----------------------------
(***************************************************************************)
(* Proofs about Movies, for any number of slots and any bounds: the types, *)
(* what is over for good, and the address that is kept for the next call.  *)
(***************************************************************************)
EXTENDS Movies, TLAPS

LEMMA Carried ==
    ASSUME TypeOK, NEW r \in Requests, ~At(r, "idle")
    PROVE  /\ req[r] \in Request
           /\ req[r].row \in Row
           /\ req[r].op \in Ops
           /\ Carries(r) => req[r].row.title <= titles
           /\ Carries(r) => (req[r].row.path # 0 <=> newest # 0)
BY DEF TypeOK, At, NoRequest, Request

(* What a slot may hold next to the row and the histories.                 *)
Fits(q) ==
    q.pc \in {"ask", "save"} =>
        /\ q.row.title <= titles
        /\ q.row.path # 0 <=> newest # 0

(* Slot r changes to q, the others stay.                                   *)
LEMMA Slots ==
    ASSUME TypeOK, NEW r \in Requests, NEW q \in Request \cup {NoRequest},
           req' = [req EXCEPT ![r] = q]
    PROVE  /\ req' \in [Requests -> Request \cup {NoRequest}]
           /\ req'[r] = q
           /\ \A s \in Requests \ {r} : req'[s] = req[s]
           /\ \A s \in Requests \ {r} : Carries(s)' = Carries(s)
BY DEF TypeOK, Carries

LEMMA SlotStep ==
    ASSUME TypeOK, NEW r \in Requests, NEW q \in Request \cup {NoRequest},
           req' = [req EXCEPT ![r] = q],
           Fits(q)',
           row' \in Row, row'.title <= titles', row'.path # 0 <=> newest' # 0,
           newest' # 0 <=> newest # 0,
           titles' \in Titles, titles <= titles',
           urls' \in Urls, started' \in 0..MaxRequests, newest' \in Urls,
           stale' \subseteq Requests, crossed' \in BOOLEAN
    PROVE  TypeOK'
<1>1. ASSUME NEW s \in Requests, Carries(s)'
      PROVE  req'[s].row.title <= titles' /\ (req'[s].row.path # 0 <=> newest' # 0)
  <2>1. CASE s = r
    BY <1>1, <2>1, Slots DEF Fits, Carries
  <2>2. CASE s # r
    <3>1. Carries(s) /\ req'[s] = req[s]
      BY <1>1, <2>2, Slots
    <3>2. req[s].row \in Row /\ req[s].row.title <= titles
          /\ (req[s].row.path # 0 <=> newest # 0)
      BY <3>1, Carried DEF Carries, At
    <3> QED
      BY <3>1, <3>2 DEF TypeOK, Row, Titles
  <2> QED
    BY <2>1, <2>2
<1> QED
  BY <1>1, Slots DEF TypeOK

LEMMA Responded ==
    ASSUME NEW r \in Requests, Respond(r)
    PROVE  /\ req' = [req EXCEPT ![r] = NoRequest]
           /\ NoRequest \in Request \cup {NoRequest}
           /\ Fits(NoRequest)'
BY DEF Respond, Fits, NoRequest

LEMMA Kept ==
    ASSUME TypeOK
    PROVE  /\ row \in Row /\ row.title <= titles /\ (row.path # 0 <=> newest # 0)
           /\ titles \in Titles /\ titles <= titles /\ urls \in Urls
           /\ stale \subseteq Requests /\ crossed \in BOOLEAN
           /\ started \in 0..MaxRequests /\ newest \in Urls
BY MoviesAssumption DEF TypeOK, Titles

LEMMA StartType == ASSUME TypeOK, NEW r \in Requests, Start(r) PROVE TypeOK'
<1>1. PICK op \in Ops : req' = [req EXCEPT ![r] = [pc |-> "find", op |-> op, row |-> row]]
  BY DEF Start
<1>2. PICK q \in Request : q = [pc |-> "find", op |-> op, row |-> row]
  BY Kept DEF Request
<1>3. Fits(q)'
  BY <1>2 DEF Fits
<1>4. started' \in 0..MaxRequests
  BY MoviesAssumption DEF Start, TypeOK
<1> QED
  BY <1>1, <1>2, <1>3, <1>4, Kept, SlotStep DEF Start

LEMMA FindType == ASSUME TypeOK, NEW r \in Requests, Find(r) PROVE TypeOK'
<1>1. ~At(r, "idle") /\ req[r] \in Request
  BY Carried DEF Find, At
<1>2. CASE req[r].op = "stream"
  <2>1. PICK q \in Request : q = [pc |-> "ask", op |-> req[r].op, row |-> row]
    BY <1>1, Kept DEF Request
  <2>2. Fits(q)' /\ req' = [req EXCEPT ![r] = q]
    BY <1>2, <2>1, Kept DEF Fits, Find, Read, history
  <2> QED
    BY <1>2, <2>1, <2>2, Kept, SlotStep DEF Find, history
<1>3. CASE req[r].op = "update"
  <2>1. titles' = titles + 1 /\ titles + 1 \in Titles /\ titles \in Nat
    BY <1>3, MoviesAssumption DEF Find, TypeOK, Titles
  <2>2. PICK q \in Request :
           q = [pc |-> "save", op |-> req[r].op, row |-> [row EXCEPT !.title = titles + 1]]
    BY <1>1, <2>1, Kept DEF Request, Row
  <2>3. Fits(q)' /\ req' = [req EXCEPT ![r] = q]
    BY <1>3, <2>1, <2>2, Kept DEF Fits, Find, Read, history, Row
  <2>4. /\ UNCHANGED <<row, urls, started, newest, stale, crossed>>
        /\ row.title <= titles' /\ titles <= titles'
    BY <2>1, Kept DEF Find, history, Row, Titles
  <2> QED
    BY <2>1, <2>2, <2>3, <2>4, Kept, SlotStep
<1>4. CASE req[r].op = "delete"
  <2>1. PICK q \in Request : q = [pc |-> "delete", op |-> req[r].op, row |-> row]
    BY <1>1, Kept DEF Request
  <2>2. Fits(q)' /\ req' = [req EXCEPT ![r] = q]
    BY <1>4, <2>1 DEF Fits, Find, Read
  <2> QED
    BY <1>4, <2>1, <2>2, Kept, SlotStep DEF Find, history
<1> QED
  BY <1>2, <1>3, <1>4 DEF Find

LEMMA AnswerType == ASSUME TypeOK, NEW r \in Requests, Answer(r) PROVE TypeOK'
<1>1. /\ ~At(r, "idle") /\ req[r] \in Request /\ req[r].row \in Row /\ Carries(r)
      /\ req[r].row.path # 0 /\ newest # 0 /\ req[r].row.title <= titles
  BY Carried DEF Answer, At, Carries
<1>2. PICK u \in Answers :
         /\ urls' = IF u > urls THEN u ELSE urls
         /\ IF u = req[r].row.path
            THEN /\ Respond(r)
                 /\ newest' = u
                 /\ crossed' = (crossed \/ r \in stale)
            ELSE /\ Read(r, "save", [req[r].row EXCEPT !.path = u])
                 /\ UNCHANGED <<newest, crossed>>
  BY DEF Answer
<1>3. u \in Urls /\ u # 0 /\ urls' \in Urls
  BY <1>2, MoviesAssumption DEF Answers, Urls, TypeOK
<1>4. CASE u = req[r].row.path
  <2>1. Respond(r) /\ newest' = u /\ crossed' \in BOOLEAN
    BY <1>2, <1>4
  <2> QED
    BY <1>1, <1>3, <2>1, Responded, Kept, SlotStep DEF Answer
<1>5. CASE u # req[r].row.path
  <2>1. PICK q \in Request :
           q = [pc |-> "save", op |-> req[r].op, row |-> [req[r].row EXCEPT !.path = u]]
    BY <1>1, <1>3 DEF Request, Row
  <2>2. req' = [req EXCEPT ![r] = q] /\ UNCHANGED <<newest, crossed>>
    BY <1>2, <1>5, <2>1 DEF Read
  <2>3. Fits(q)'
    BY <1>1, <1>3, <2>1, <2>2 DEF Fits, Answer, Row
  <2> QED
    BY <1>3, <2>1, <2>2, <2>3, Kept, SlotStep DEF Answer
<1> QED
  BY <1>4, <1>5

LEMMA SaveType == ASSUME TypeOK, NEW r \in Requests, Save(r) \/ SaveFails(r) PROVE TypeOK'
<1>1. /\ ~At(r, "idle") /\ req[r].row \in Row /\ req[r].row.title <= titles
      /\ req[r].row.path # 0 <=> newest # 0
  BY Carried DEF Save, SaveFails, At, Carries
<1>2. Got(r) \in Urls /\ (Got(r) # 0 <=> newest # 0)
  BY <1>1, Kept DEF Got, Row
<1>3. Respond(r) /\ newest' = Got(r) /\ crossed' \in BOOLEAN /\ stale' \subseteq Requests
  BY Kept DEF Save, SaveFails
<1>4. row' \in Row /\ row'.title <= titles /\ (row'.path # 0 <=> newest' # 0)
  BY <1>1, <1>2, <1>3, Kept DEF Save, SaveFails
<1> QED
  BY <1>2, <1>3, <1>4, Responded, Kept, SlotStep DEF Save, SaveFails

LEMMA SimpleType ==
    ASSUME TypeOK, NEW r \in Requests,
           Fail(r) \/ AnswerPanics(r) \/ NoAnswer(r) \/ SoftDelete(r)
    PROVE  TypeOK'
<1>1. Respond(r) /\ UNCHANGED <<titles, urls, started, newest, stale, crossed>>
  BY DEF Fail, AnswerPanics, NoAnswer, SoftDelete, history
<1>2. row' \in Row /\ row'.title = row.title /\ row'.path = row.path
  BY Kept DEF Fail, AnswerPanics, NoAnswer, SoftDelete, Row
<1> QED
  BY <1>1, <1>2, Responded, Kept, SlotStep

LEMMA InitType == Init => TypeOK
<1> SUFFICES ASSUME Init PROVE TypeOK
  OBVIOUS
<1>1. PICK path \in {0, 1} :
         row = [deleted |-> FALSE, title |-> 1, path |-> path] /\ urls = path /\ newest = path
  BY DEF Init
<1>2. row \in Row /\ titles \in Titles /\ urls \in Urls /\ newest \in Urls
      /\ stale \subseteq Requests
  BY <1>1, MoviesAssumption DEF Init, Row, Titles, Urls
<1>3. row.title <= titles /\ (row.path # 0 <=> newest # 0)
  BY <1>1 DEF Init
<1>4. /\ req \in [Requests -> Request \cup {NoRequest}]
      /\ \A r \in Requests : ~Carries(r)
  BY DEF Init, NoRequest, Carries
<1>5. started \in 0..MaxRequests
  BY MoviesAssumption DEF Init
<1>6. crossed \in BOOLEAN
  BY DEF Init
<1> QED
  BY <1>2, <1>3, <1>4, <1>5, <1>6 DEF TypeOK

LEMMA NextType == ASSUME TypeOK, [Next]_vars PROVE TypeOK'
<1>1. CASE \E r \in Requests : Step(r)
  BY <1>1, StartType, FindType, AnswerType, SaveType, SimpleType DEF Step
<1>2. CASE UNCHANGED vars
  BY <1>2 DEF vars, TypeOK, Carries
<1> QED
  BY <1>1, <1>2 DEF Next, Served

(* A movie that had an address has one, and so has every copy of its row.  *)
THEOREM TypeCorrect == Spec => []TypeOK
BY InitType, NextType, PTL DEF Spec

-----------------------------------------------------------------------------
(* What is over for good.                                                  *)

(* What a step can do to the row and to what the slots carry.              *)
Effect(r) ==
    /\ \A s \in Requests \ {r} : req'[s] = req[s]
    /\ Carries(r)' =>
          \/ Carries(r) /\ req'[r].row.title = req[r].row.title
          \/ /\ ~row.deleted
             /\ req'[r].row.title \in {row.title, titles + 1}
    /\ \/ row' = row
       \/ row'.deleted /\ row'.title = row.title
       \/ Carries(r) /\ row'.title = req[r].row.title
    /\ titles' \in {titles, titles + 1}

LEMMA StepEffect == ASSUME TypeOK, NEW r \in Requests, Step(r) PROVE Effect(r)
<1>1. CASE Start(r)
  <2>1. PICK op \in Ops : req' = [req EXCEPT ![r] = [pc |-> "find", op |-> op, row |-> row]]
    BY <1>1 DEF Start
  <2>2. req'[r].pc = "find" /\ \A s \in Requests \ {r} : req'[s] = req[s]
    BY <2>1 DEF TypeOK
  <2> QED
    BY <1>1, <2>2 DEF Start, Effect, Carries
<1>2. CASE Fail(r)
  BY <1>2, Responded, Slots DEF Fail, Effect, Carries, NoRequest
<1>3. CASE Find(r)
  <2>1. CASE req[r].op = "stream"
    <3>1. Read(r, "ask", row) /\ ~row.deleted /\ UNCHANGED <<row, titles>>
      BY <1>3, <2>1 DEF Find
    <3>2. req'[r].row = row /\ \A s \in Requests \ {r} : req'[s] = req[s]
      BY <3>1 DEF Read, TypeOK
    <3> QED
      BY <3>1, <3>2 DEF Effect
  <2>2. CASE req[r].op = "update"
    <3>1. /\ Read(r, "save", [row EXCEPT !.title = titles + 1])
          /\ ~row.deleted /\ row' = row /\ titles' = titles + 1
      BY <1>3, <2>2 DEF Find
    <3>2. /\ req'[r].row = [row EXCEPT !.title = titles + 1]
          /\ \A s \in Requests \ {r} : req'[s] = req[s]
      BY <3>1 DEF Read, TypeOK
    <3>3. req'[r].row.title = titles + 1
      BY <3>2, Kept DEF Row
    <3> QED
      BY <3>1, <3>2, <3>3 DEF Effect
  <2>3. CASE req[r].op = "delete"
    <3>1. Read(r, "delete", row) /\ UNCHANGED <<row, titles>>
      BY <1>3, <2>3 DEF Find
    <3>2. req'[r].pc = "delete" /\ \A s \in Requests \ {r} : req'[s] = req[s]
      BY <3>1 DEF Read, TypeOK
    <3> QED
      BY <3>1, <3>2 DEF Effect, Carries
  <2> QED
    BY <1>3, <2>1, <2>2, <2>3 DEF Find
<1>4. CASE Answer(r)
  <2>1. Carries(r) /\ req[r].row \in Row
    BY <1>4, Carried DEF Answer, At, Carries
  <2>2. PICK u \in Answers :
           Respond(r) \/ Read(r, "save", [req[r].row EXCEPT !.path = u])
    BY <1>4 DEF Answer
  <2>3. CASE Respond(r)
    BY <1>4, <2>3, Responded, Slots DEF Answer, Effect, Carries, NoRequest
  <2>4. CASE Read(r, "save", [req[r].row EXCEPT !.path = u])
    <3>1. /\ req'[r].row.title = req[r].row.title
          /\ \A s \in Requests \ {r} : req'[s] = req[s]
      BY <2>1, <2>4 DEF Read, TypeOK, Row
    <3> QED
      BY <1>4, <2>1, <3>1 DEF Answer, Effect
  <2> QED
    BY <2>2, <2>3, <2>4
<1>5. CASE AnswerPanics(r) \/ NoAnswer(r)
  BY <1>5, Responded, Slots DEF AnswerPanics, NoAnswer, Effect, Carries, NoRequest
<1>6. CASE Save(r) \/ SaveFails(r)
  <2>1. Carries(r)
    BY <1>6 DEF Save, SaveFails, At, Carries
  <2> QED
    BY <1>6, <2>1, Responded, Slots DEF Save, SaveFails, Effect, Carries, NoRequest
<1>7. CASE SoftDelete(r)
  <2>1. row'.deleted /\ row'.title = row.title
    BY <1>7, Kept DEF SoftDelete, Row
  <2> QED
    BY <1>7, <2>1, Responded, Slots DEF SoftDelete, Effect, Carries, NoRequest
<1> QED
  BY <1>1, <1>2, <1>3, <1>4, <1>5, <1>6, <1>7 DEF Step

(* A deleted movie that no request carries stays deleted.                  *)
THEOREM DeletedForGood == Spec => GoneForGood
<1>1. ASSUME TypeOK, [Next]_vars, Gone PROVE Gone'
  <2>1. CASE \E r \in Requests : Step(r)
    <3>1. PICK r \in Requests : Effect(r)
      BY <1>1, <2>1, StepEffect
    <3>2. ~Carries(r)' /\ row'.deleted
      BY <1>1, <3>1 DEF Effect, Gone
    <3> QED
      BY <1>1, <3>1, <3>2 DEF Effect, Gone, Carries
  <2>2. CASE UNCHANGED vars
    BY <1>1, <2>2 DEF vars, Gone, Carries
  <2> QED
    BY <1>1, <2>1, <2>2 DEF Next, Served
<1> QED
  BY <1>1, TypeCorrect, PTL DEF Spec, GoneForGood

(* A title that was replaced and that no request carries stays replaced.   *)
THEOREM TitlesForGood == Spec => TitleStaysReplaced
<1>1. ASSUME TypeOK, [Next]_vars PROVE \A t \in Titles : Replaced(t) => Replaced(t)'
  <2> SUFFICES ASSUME NEW t \in Titles, Replaced(t) PROVE Replaced(t)'
    OBVIOUS
  <2>1. CASE \E r \in Requests : Step(r)
    <3>1. PICK r \in Requests : Effect(r)
      BY <1>1, <2>1, StepEffect
    <3>2. t <= titles /\ t # titles + 1 /\ titles \in Nat
      BY <1>1, MoviesAssumption DEF Replaced, TypeOK, Titles
    <3>3. t # row'.title
      BY <3>1 DEF Effect, Replaced
    <3>4. Carries(r)' => req'[r].row.title # t
      BY <3>1, <3>2 DEF Effect, Replaced
    <3>5. t <= titles'
      BY <3>1, <3>2 DEF Effect, Titles
    <3> QED
      BY <3>1, <3>3, <3>4, <3>5 DEF Effect, Replaced, Carries
  <2>2. CASE UNCHANGED vars
    BY <2>2 DEF vars, Replaced, Carries
  <2> QED
    BY <1>1, <2>1, <2>2 DEF Next, Served
<1> QED
  BY <1>1, TypeCorrect, PTL DEF Spec, TitleStaysReplaced

-----------------------------------------------------------------------------
(* The address for the next call.                                          *)

(* A copy of the row that is not stale has the address of the row, unless  *)
(* it has a newer one from the sidecar.                                    *)
Fresh(r) ==
    Carries(r) /\ r \notin stale /\ ~(At(r, "save") /\ req[r].op = "stream") =>
        req[r].row.path = row.path

FreshInv ==
    /\ \A r \in Requests : At(r, "ask") => req[r].op = "stream"
    /\ ~crossed => row.path = newest /\ \A r \in Requests : Fresh(r)

LEMMA OthersFresh ==
    ASSUME \A s \in Requests : Fresh(s), NEW r \in Requests,
           \A s \in Requests \ {r} : req'[s] = req[s],
           row'.path = row.path, stale \subseteq stale' \cup {r}
    PROVE  \A s \in Requests \ {r} : Fresh(s)'
BY DEF Fresh, Carries, At

LEMMA StepFresh ==
    ASSUME TypeOK, FreshInv, NEW r \in Requests, Step(r), ~crossed'
    PROVE  row'.path = newest' /\ \A s \in Requests : Fresh(s)'
<1>1. Effect(r)
  BY StepEffect
<1>2. ~crossed /\ row.path = newest /\ \A s \in Requests : Fresh(s)
  <2>1. crossed => crossed'
    <3>1. CASE Answer(r) \/ Save(r) \/ SaveFails(r)
      BY <3>1 DEF Answer, Save, SaveFails
    <3>2. CASE ~(Answer(r) \/ Save(r) \/ SaveFails(r))
      BY <3>2 DEF Step, Start, Fail, Find, AnswerPanics, NoAnswer, SoftDelete, history
    <3> QED
      BY <3>1, <3>2
  <2> QED
    BY <2>1 DEF FreshInv
<1>3. ~SaveFails(r)
  BY DEF SaveFails
<1>4. CASE Start(r) \/ Fail(r) \/ AnswerPanics(r) \/ NoAnswer(r) \/ SoftDelete(r)
  <2>1. row'.path = row.path /\ newest' = newest /\ stale \subseteq stale' \cup {r}
    BY <1>4, Kept DEF Start, Fail, AnswerPanics, NoAnswer, SoftDelete, history, Row
  <2>2. ~Carries(r)'
    <3>1. CASE Start(r)
      BY <3>1 DEF Start, Carries, TypeOK
    <3>2. CASE Respond(r)
      BY <3>2, Responded, Slots DEF Carries, NoRequest
    <3> QED
      BY <1>4, <3>1, <3>2 DEF Fail, AnswerPanics, NoAnswer, SoftDelete
  <2> QED
    BY <1>1, <1>2, <2>1, <2>2, OthersFresh DEF Effect, Fresh
<1>5. CASE Find(r)
  <2>1. row' = row /\ newest' = newest /\ stale' = stale
    BY <1>5 DEF Find, history
  <2>2. Carries(r)' => req'[r].row.path = row.path
    <3>1. CASE req[r].op = "stream"
      <4>1. Read(r, "ask", row)
        BY <1>5, <3>1 DEF Find
      <4>2. req'[r].row = row
        BY <4>1 DEF Read, TypeOK
      <4> QED
        BY <4>2
    <3>2. CASE req[r].op = "update"
      <4>1. Read(r, "save", [row EXCEPT !.title = titles + 1])
        BY <1>5, <3>2 DEF Find
      <4>2. req'[r].row = [row EXCEPT !.title = titles + 1]
        BY <4>1 DEF Read, TypeOK
      <4> QED
        BY <4>2, Kept DEF Row
    <3>3. CASE req[r].op = "delete"
      <4>1. Read(r, "delete", row)
        BY <1>5, <3>3 DEF Find
      <4>2. req'[r].pc = "delete"
        BY <4>1 DEF Read, TypeOK
      <4> QED
        BY <4>2 DEF Carries
    <3> QED
      BY <1>5, <3>1, <3>2, <3>3 DEF Find
  <2> QED
    BY <1>1, <1>2, <2>1, <2>2, OthersFresh DEF Effect, Fresh
<1>6. CASE Answer(r)
  <2>1. Carries(r) /\ At(r, "ask") /\ row' = row /\ stale' = stale
    BY <1>6 DEF Answer, At, Carries
  <2>2. PICK u \in Answers :
           \/ u = req[r].row.path /\ Respond(r) /\ newest' = u /\ r \notin stale
           \/ Read(r, "save", [req[r].row EXCEPT !.path = u]) /\ newest' = newest
    BY <1>6 DEF Answer
  <2>3. CASE u = req[r].row.path /\ Respond(r) /\ newest' = u /\ r \notin stale
    <3>1. u = row.path
      BY <1>2, <2>1, <2>3 DEF Fresh, At
    <3>2. ~Carries(r)'
      BY <2>3, Responded, Slots DEF Carries, NoRequest
    <3> QED
      BY <1>1, <1>2, <2>1, <2>3, <3>1, <3>2, OthersFresh DEF Effect, Fresh
  <2>4. CASE Read(r, "save", [req[r].row EXCEPT !.path = u]) /\ newest' = newest
    <3>1. req'[r].pc = "save" /\ req'[r].op = req[r].op
      BY <2>4 DEF Read, TypeOK
    <3>2. req[r].op = "stream"
      BY <2>1 DEF FreshInv
    <3> QED
      BY <1>1, <1>2, <2>1, <2>4, <3>1, <3>2, OthersFresh DEF Effect, Fresh, At
  <2> QED
    BY <2>2, <2>3, <2>4
<1>7. CASE Save(r)
  <2>1. /\ row' = req[r].row /\ r \notin stale /\ newest' = Got(r) /\ Respond(r)
        /\ \A s \in Requests \ {r} : Carries(s) => s \in stale'
    BY <1>7 DEF Save
  <2>2. row'.path = newest'
    BY <1>2, <1>7, <2>1 DEF Got, Fresh, Save, At, Carries
  <2>3. ~Carries(r)'
    BY <2>1, Responded, Slots DEF Carries, NoRequest
  <2>4. \A s \in Requests \ {r} : Fresh(s)'
    BY <1>1, <2>1 DEF Effect, Fresh, Carries
  <2> QED
    BY <2>2, <2>3, <2>4 DEF Fresh
<1> QED
  BY <1>3, <1>4, <1>5, <1>6, <1>7 DEF Step

(* Only stream requests ask the sidecar.                                   *)
LEMMA OnlyStreamsAsk ==
    ASSUME TypeOK, FreshInv, NEW r \in Requests, Step(r)
    PROVE  \A s \in Requests : At(s, "ask")' => req'[s].op = "stream"
<1>1. \A s \in Requests \ {r} : At(s, "ask")' => req'[s].op = "stream"
  BY StepEffect DEF Effect, FreshInv, At
<1>2. At(r, "ask")' => req'[r].op = "stream"
  <2>1. CASE Find(r)
    BY <2>1 DEF Find, Read, At, TypeOK
  <2>2. CASE Answer(r)
    <3>1. PICK row0 : Respond(r) \/ Read(r, "save", row0)
      BY <2>2 DEF Answer
    <3>2. ~At(r, "ask")'
      BY <3>1, Responded, Slots DEF Read, At, TypeOK, NoRequest
    <3> QED
      BY <3>2
  <2>3. CASE Start(r)
    BY <2>3 DEF Start, At, TypeOK
  <2>4. CASE Respond(r)
    BY <2>4, Responded, Slots DEF At, NoRequest
  <2> QED
    BY <2>1, <2>2, <2>3, <2>4 DEF Step, Fail, AnswerPanics, NoAnswer, Save, SaveFails,
       SoftDelete
<1> QED
  BY <1>1, <1>2

(* While no two requests crossed and no Save failed, the row has the       *)
(* address that was given out last.                                        *)
THEOREM AddressIsKept == Spec => []KeptForNextCall
<1>1. Init => FreshInv
  BY DEF Init, FreshInv, Fresh, Carries, NoRequest, At
<1>2. ASSUME TypeOK, FreshInv, [Next]_vars PROVE FreshInv'
  <2>1. CASE \E r \in Requests : Step(r)
    BY <1>2, <2>1, StepFresh, OnlyStreamsAsk DEF FreshInv
  <2>2. CASE UNCHANGED vars
    BY <1>2, <2>2 DEF vars, FreshInv, Fresh, Carries, At
  <2> QED
    BY <1>2, <2>1, <2>2 DEF Next, Served
<1>3. FreshInv => KeptForNextCall
  BY DEF FreshInv, KeptForNextCall
<1> QED
  BY <1>1, <1>2, <1>3, TypeCorrect, PTL DEF Spec

=============================================================================
