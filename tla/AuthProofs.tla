----------------------------- MODULE AuthProofs -----------------------------
(***************************************************************************)
(* Proofs about Auth, for every number of slots, every life of a token and *)
(* every bound: what is stored was issued, a token that is spent stays     *)
(* spent, a password that was replaced stays replaced, and a token has at  *)
(* most one heir.                                                          *)
(***************************************************************************)
EXTENDS Auth, TLAPS

(* A slot that is at work holds a request.                                 *)
LEMMA Working ==
    ASSUME TypeOK, NEW r \in Requests, ~At(r, "idle")
    PROVE  /\ req[r] \in Request
           /\ req[r].pc \in Steps
           /\ req[r].op \in AllOps
           /\ req[r].given \in Seconds
           /\ req[r].row \in 0..chosen
           /\ req[r].new \in 0..now
BY DEF TypeOK, At, NoRequest, Request, Seconds

(* A request that is free to be written to the table of slots.             *)
Sound(q) ==
    q \in Request => q.new <= now' /\ q.row <= chosen'

(* Only slot r changes, and its new value is a request of the right type.  *)
LEMMA SlotChanges ==
    ASSUME TypeOK, NEW r \in Requests, NEW q \in Request \cup {NoRequest},
           req' = [req EXCEPT ![r] = q],
           Sound(q),
           chosen' \in chosen..MaxPasswords,
           now' = now
    PROVE  /\ req' \in [Requests -> Request \cup {NoRequest}]
           /\ req'[r] = q
           /\ \A s \in Requests \ {r} : req'[s] = req[s]
           /\ \A s \in Requests :
                 req'[s].pc # "idle" => req'[s].new <= now' /\ req'[s].row <= chosen'
<1>1. /\ req' \in [Requests -> Request \cup {NoRequest}]
      /\ req'[r] = q
      /\ \A s \in Requests \ {r} : req'[s] = req[s]
  BY DEF TypeOK
<1>2. ASSUME NEW s \in Requests, req'[s].pc # "idle"
      PROVE  req'[s].new <= now' /\ req'[s].row <= chosen'
  <2>1. CASE s = r
    BY <1>1, <1>2, <2>1 DEF Sound, NoRequest
  <2>2. CASE s # r
    <3>1. ~At(s, "idle")
      BY <1>1, <1>2, <2>2 DEF At
    <3>2. req[s].new \in 0..now /\ req[s].row \in 0..chosen
      BY <3>1, Working
    <3>3. chosen \in Nat /\ chosen' \in Nat /\ chosen <= chosen'
      BY AuthAssumption DEF TypeOK
    <3> QED
      BY <1>1, <2>2, <3>2, <3>3
  <2> QED
    BY <2>1, <2>2
<1> QED
  BY <1>1, <1>2

(* A step that changes slot r and keeps the tables' types keeps TypeOK.    *)
LEMMA SlotStep ==
    ASSUME TypeOK, NEW r \in Requests, NEW q \in Request \cup {NoRequest},
           req' = [req EXCEPT ![r] = q],
           Sound(q),
           chosen' \in chosen..MaxPasswords,
           now' = now,
           started' \in 0..MaxRequests,
           password' \in 0..chosen',
           tokens' \subseteq known', known' \subseteq 0..now,
           heirs' \in [Seconds -> SUBSET Seconds],
           shared' \subseteq Seconds
    PROVE  TypeOK'
<1>1. chosen' \in 0..MaxPasswords
  BY AuthAssumption DEF TypeOK
<1> QED
  BY <1>1, SlotChanges DEF TypeOK, At

(* What a step that leaves a table alone keeps of it.                      *)
LEMMA Kept ==
    ASSUME TypeOK
    PROVE  /\ chosen \in chosen..MaxPasswords
           /\ chosen \in Nat /\ now \in Nat /\ now \in Seconds
           /\ started \in 0..MaxRequests
           /\ password \in 0..chosen
           /\ tokens \subseteq known /\ known \subseteq 0..now
           /\ heirs \in [Seconds -> SUBSET Seconds]
           /\ shared \subseteq Seconds
           /\ 0..now \subseteq Seconds
BY AuthAssumption DEF TypeOK, Seconds

LEMMA Answered ==
    ASSUME TypeOK, NEW r \in Requests, Respond(r)
    PROVE  /\ NoRequest \in Request \cup {NoRequest}
           /\ req' = [req EXCEPT ![r] = NoRequest]
           /\ Sound(NoRequest)
BY DEF Respond, Sound, NoRequest, Request, Steps

(* A request that goes on keeps the rest.                                  *)
LEMMA ToGoesOn ==
    ASSUME TypeOK, NEW r \in Requests, ~At(r, "idle"), NEW pc \in Steps, To(r, pc)
    PROVE  \E q \in Request :
              /\ req' = [req EXCEPT ![r] = q]
              /\ q = [req[r] EXCEPT !.pc = pc, !.row = req[r].row, !.new = req[r].new]
              /\ q.pc = pc /\ q.row = req[r].row /\ q.new = req[r].new
              /\ q.op = req[r].op /\ q.given = req[r].given
<1> DEFINE q == [req[r] EXCEPT !.pc = pc]
<1>1. req[r] \in Request
  BY Working
<1>2. /\ q \in Request
      /\ q = [req[r] EXCEPT !.pc = pc, !.row = req[r].row, !.new = req[r].new]
      /\ q.pc = pc /\ q.row = req[r].row /\ q.new = req[r].new
      /\ q.op = req[r].op /\ q.given = req[r].given
  BY <1>1 DEF Request
<1>3. req' = [req EXCEPT ![r] = q]
  BY DEF To
<1> QED
  BY <1>2, <1>3

-----------------------------------------------------------------------------
(* Type correctness.                                                       *)

LEMMA AnswerStep ==
    ASSUME TypeOK, NEW r \in Requests, Respond(r),
           chosen' = chosen, now' = now, started' = started,
           password' \in 0..chosen,
           tokens' \subseteq known', known' \subseteq 0..now,
           heirs' \in [Seconds -> SUBSET Seconds],
           shared' \subseteq Seconds
    PROVE  TypeOK'
BY Answered, Kept, SlotStep

LEMMA MoveStep ==
    ASSUME TypeOK, NEW r \in Requests, ~At(r, "idle"), NEW pc \in Steps, To(r, pc),
           chosen' = chosen, now' = now, started' = started,
           password' \in 0..chosen,
           tokens' \subseteq known', known' \subseteq 0..now,
           heirs' \in [Seconds -> SUBSET Seconds],
           shared' \subseteq Seconds
    PROVE  TypeOK'
<1>1. PICK q \in Request :
         /\ req' = [req EXCEPT ![r] = q]
         /\ q.row = req[r].row /\ q.new = req[r].new
  BY ToGoesOn
<1>2. Sound(q)
  BY <1>1, Working, Kept DEF Sound
<1> QED
  BY <1>1, <1>2, Kept, SlotStep

LEMMA StartType == ASSUME TypeOK, NEW r \in Requests, Start(r) PROVE TypeOK'
<1>1. PICK op \in Ops, t \in known \cup {0}, p \in 0..chosen :
         req' = [req EXCEPT ![r] =
            [pc |-> FirstStep[op], op |-> op, given |-> t, secret |-> p,
             row |-> 0, new |-> 0]]
  BY DEF Start
<1> DEFINE q == [pc |-> FirstStep[op], op |-> op, given |-> t, secret |-> p,
                 row |-> 0, new |-> 0]
<1>2. op \in AllOps /\ FirstStep[op] \in Steps
  BY AuthAssumption DEF AllOps, FirstStep, Steps
<1>3. t \in Seconds /\ p \in 0..MaxPasswords /\ 0 \in 0..MaxPasswords /\ 0 \in Seconds
  BY Kept, AuthAssumption DEF TypeOK, Seconds
<1>4. q \in Request
  BY <1>2, <1>3 DEF Request
<1>5. UNCHANGED <<password, tokens, known, now, chosen, history>>
      /\ started' \in 0..MaxRequests
  BY AuthAssumption, Kept DEF Start
<1>6. Sound(q)
  BY <1>5, Kept DEF Sound
<1> HIDE DEF q
<1> QED
  BY <1>1, <1>4, <1>5, <1>6, Kept, SlotStep DEF q, history

LEMMA FindEmailType == ASSUME TypeOK, NEW r \in Requests, FindEmail(r) PROVE TypeOK'
<1>1. /\ UNCHANGED <<password, tokens, known, now, started, history>>
      /\ ~At(r, "idle")
  BY DEF FindEmail, At
<1>2. CASE To(r, "issue") /\ UNCHANGED chosen
  BY <1>1, <1>2, Kept, MoveStep DEF history, Steps
<1>3. CASE /\ chosen < MaxPasswords
           /\ chosen' = chosen + 1
           /\ req' = [req EXCEPT ![r] = [@ EXCEPT !.pc = "createUser", !.row = chosen + 1]]
  <2> DEFINE q == [req[r] EXCEPT !.pc = "createUser", !.row = chosen + 1]
  <2>1. chosen + 1 \in 0..MaxPasswords /\ chosen' \in chosen..MaxPasswords
    BY <1>3, Kept, AuthAssumption
  <2>2. q \in Request /\ q.row = chosen + 1 /\ q.new = req[r].new
    BY <1>1, <2>1, Working DEF Request, Steps
  <2>3. req' = [req EXCEPT ![r] = q]
    BY <1>3
  <2>4. Sound(q)
    BY <1>1, <1>3, <2>2, Working, Kept DEF Sound
  <2>5. password' \in 0..chosen'
    BY <1>1, <1>3, Kept
  <2> HIDE DEF q
  <2> QED
    BY <1>1, <2>1, <2>2, <2>3, <2>4, <2>5, Kept, SlotStep DEF history
<1> QED
  BY <1>2, <1>3 DEF FindEmail

LEMMA IssueType == ASSUME TypeOK, NEW r \in Requests, Issue(r) PROVE TypeOK'
<1> DEFINE q == [req[r] EXCEPT !.pc = "store", !.new = now]
<1>1. ~At(r, "idle") /\ UNCHANGED <<password, tokens, known, now, chosen, started, history>>
  BY DEF Issue, At
<1>2. q \in Request /\ q.row = req[r].row /\ q.new = now
  BY <1>1, Working, Kept DEF Request, Steps
<1>3. req' = [req EXCEPT ![r] = q]
  BY DEF Issue, Generate
<1>4. Sound(q)
  BY <1>1, <1>2, Working, Kept DEF Sound
<1> HIDE DEF q
<1> QED
  BY <1>1, <1>2, <1>3, <1>4, Kept, SlotStep DEF history

LEMMA FindUserType == ASSUME TypeOK, NEW r \in Requests, FindUser(r) PROVE TypeOK'
<1>1. /\ UNCHANGED <<password, tokens, known, now, started, history>>
      /\ ~At(r, "idle")
  BY DEF FindUser, At
<1>2. CASE To(r, "delete") /\ UNCHANGED chosen
  BY <1>1, <1>2, Kept, MoveStep DEF history, Steps
<1>3. ASSUME NEW row \in 0..chosen', chosen' \in chosen..MaxPasswords,
             req' = [req EXCEPT ![r] = [@ EXCEPT !.pc = "save", !.row = row]]
      PROVE  TypeOK'
  <2> DEFINE q == [req[r] EXCEPT !.pc = "save", !.row = row]
  <2>1. row \in 0..MaxPasswords
    BY <1>3, Kept, AuthAssumption
  <2>2. q \in Request /\ q.row = row /\ q.new = req[r].new
    BY <1>1, <2>1, Working DEF Request, Steps
  <2>3. req' = [req EXCEPT ![r] = q]
    BY <1>3
  <2>4. Sound(q)
    BY <1>1, <1>3, <2>2, Working, Kept DEF Sound
  <2>5. password' \in 0..chosen'
    BY <1>1, <1>3, Kept
  <2> HIDE DEF q
  <2> QED
    BY <1>1, <1>3, <2>2, <2>3, <2>4, <2>5, Kept, SlotStep DEF history
<1>4. CASE /\ UNCHANGED chosen
           /\ req' = [req EXCEPT ![r] = [@ EXCEPT !.pc = "save", !.row = password]]
  BY <1>3, <1>4, Kept
<1>5. CASE /\ chosen < MaxPasswords
           /\ chosen' = chosen + 1
           /\ req' = [req EXCEPT ![r] = [@ EXCEPT !.pc = "save", !.row = chosen + 1]]
  <2>1. chosen + 1 \in 0..chosen' /\ chosen' \in chosen..MaxPasswords
    BY <1>5, Kept, AuthAssumption
  <2> QED
    BY <1>3, <1>5, <2>1
<1> QED
  BY <1>2, <1>4, <1>5 DEF FindUser

LEMMA StoreType == ASSUME TypeOK, NEW r \in Requests, StoreToken(r) PROVE TypeOK'
<1>1. ~At(r, "idle") /\ Respond(r) /\ UNCHANGED <<password, now, chosen, started>>
  BY DEF StoreToken, At
<1>2. req[r].new \in 0..now /\ req[r].new \in Seconds /\ req[r].given \in Seconds
  BY <1>1, Working, Kept
<1>3. tokens' \subseteq known' /\ known' \subseteq 0..now
  BY <1>2, Kept DEF StoreToken
<1>4. heirs' \in [Seconds -> SUBSET Seconds]
  <2>1. heirs[req[r].given] \cup {req[r].new} \in SUBSET Seconds
    BY <1>2, Kept
  <2> QED
    BY <1>2, <2>1, Kept DEF StoreToken
<1>5. shared' \subseteq Seconds
  BY <1>2, Kept DEF StoreToken
<1> QED
  BY <1>1, <1>3, <1>4, <1>5, Kept, AnswerStep

LEMMA DeleteType == ASSUME TypeOK, NEW r \in Requests, DeleteToken(r) PROVE TypeOK'
<1>1. /\ ~At(r, "idle")
      /\ tokens' \subseteq known' /\ known' \subseteq 0..now
      /\ UNCHANGED <<password, known, now, chosen, started, heirs, shared>>
      /\ To(r, "issue") \/ Respond(r)
  BY Kept DEF DeleteToken, At, history
<1>2. CASE To(r, "issue")
  BY <1>1, <1>2, Kept, MoveStep DEF Steps
<1>3. CASE Respond(r)
  BY <1>1, <1>3, Kept, AnswerStep
<1> QED
  BY <1>1, <1>2, <1>3

(* The other steps of a slot.                                              *)
LEMMA SimpleType ==
    ASSUME TypeOK, NEW r \in Requests,
           Fail(r) \/ CreateUser(r) \/ FindToken(r) \/ SaveUser(r)
    PROVE  TypeOK'
<1>1. CASE Fail(r)
  BY <1>1, Kept, AnswerStep DEF Fail, history
<1>2. CASE CreateUser(r)
  BY <1>2, Working, Kept, MoveStep DEF CreateUser, At, history, Steps
<1>3. CASE SaveUser(r)
  BY <1>3, Working, Kept, AnswerStep DEF SaveUser, At, history
<1>4. CASE FindToken(r)
  <2>1. ~At(r, "idle") /\ req[r].given \in Seconds
    BY <1>4, Working DEF FindToken, At
  <2> QED
    BY <1>4, <2>1, Kept, MoveStep DEF FindToken, Steps
<1> QED
  BY <1>1, <1>2, <1>3, <1>4

LEMMA TickType == ASSUME TypeOK, Tick PROVE TypeOK'
<1>1. now' \in Seconds /\ now < now' /\ now \in Nat /\ now' \in Nat
  BY Kept, AuthAssumption DEF Tick, Seconds
<1>2. known' \subseteq 0..now'
  BY <1>1, Kept DEF Tick
<1>3. ASSUME NEW r \in Requests, req'[r].pc # "idle"
      PROVE  req'[r].new <= now' /\ req'[r].row <= chosen'
  BY <1>1, <1>3, Working, Kept DEF Tick, At
<1>4. UNCHANGED <<password, tokens, known, req, chosen, started, heirs, shared>>
  BY DEF Tick, history
<1>5. req' \in [Requests -> Request \cup {NoRequest}] /\ chosen' \in 0..MaxPasswords
  BY <1>4 DEF TypeOK
<1> QED
  BY <1>1, <1>2, <1>3, <1>4, <1>5, Kept DEF TypeOK, At

LEMMA InitType == Init => TypeOK
BY AuthAssumption DEF Init, TypeOK, Seconds, At, NoRequest

LEMMA NextType == ASSUME TypeOK, [Next]_vars PROVE TypeOK'
<1>1. CASE \E r \in Requests : Step(r)
  BY <1>1, StartType, FindEmailType, IssueType, FindUserType, StoreType, DeleteType,
     SimpleType DEF Step
<1>2. CASE Tick
  BY <1>2, TickType
<1>3. CASE UNCHANGED vars
  BY <1>3 DEF vars, TypeOK, At
<1> QED
  BY <1>1, <1>2, <1>3 DEF Next, Served

(* What is stored was given to a client, and issued by now.                *)
THEOREM TypeCorrect == Spec => []TypeOK
BY InitType, NextType, PTL DEF Spec

-----------------------------------------------------------------------------
(* What is spent, or replaced, stays so.                                   *)

(* What a step of slot r can do to the slots, the tokens and the password. *)
Effect(r) ==
    /\ \A s \in Requests \ {r} : req'[s] = req[s]
    /\ req'[r].pc = "store" => req'[r].new = now
    /\ req'[r].pc \in {"createUser", "save"} => req'[r].row \in {password, chosen + 1}
    /\ \/ tokens' \subseteq tokens
       \/ At(r, "store") /\ tokens' = tokens \cup {req[r].new}
    /\ \/ password' = password
       \/ req[r].pc \in {"createUser", "save"} /\ password' = req[r].row
    /\ chosen' \in {chosen, chosen + 1}
    /\ now' = now

LEMMA StartEffect == ASSUME TypeOK, NEW r \in Requests, Start(r) PROVE Effect(r)
<1>1. PICK op \in Ops, t \in known \cup {0}, p \in 0..chosen :
         req' = [req EXCEPT ![r] =
            [pc |-> FirstStep[op], op |-> op, given |-> t, secret |-> p,
             row |-> 0, new |-> 0]]
  BY DEF Start
<1>2. FirstStep[op] \in {"findEmail", "findToken", "delete", "findUser"}
  BY AuthAssumption DEF AllOps, FirstStep
<1>3. /\ req'[r].pc = FirstStep[op]
      /\ \A s \in Requests \ {r} : req'[s] = req[s]
  BY <1>1 DEF TypeOK
<1>4. UNCHANGED <<password, tokens, known, now, chosen, history>>
  BY DEF Start
<1> QED
  BY <1>2, <1>3, <1>4 DEF Effect

LEMMA MoveEffect ==
    ASSUME TypeOK, NEW r \in Requests, ~At(r, "idle"), NEW pc \in Steps, To(r, pc)
    PROVE  req'[r].pc = pc /\ \A s \in Requests \ {r} : req'[s] = req[s]
<1>1. req[r] \in Request
  BY Working
<1> QED
  BY <1>1 DEF To, TypeOK, Request

LEMMA AnswerEffect ==
    ASSUME TypeOK, NEW r \in Requests, Respond(r)
    PROVE  /\ req'[r] = NoRequest /\ req'[r].pc = "idle"
           /\ \A s \in Requests \ {r} : req'[s] = req[s]
BY DEF Respond, TypeOK, NoRequest

LEMMA IssueEffect == ASSUME TypeOK, NEW r \in Requests, Issue(r) PROVE Effect(r)
<1>1. req[r] \in Request
  BY Working DEF Issue, At
<1>2. /\ req'[r].pc = "store" /\ req'[r].new = now
      /\ \A s \in Requests \ {r} : req'[s] = req[s]
  BY <1>1 DEF Issue, Generate, TypeOK, Request
<1> QED
  BY <1>2 DEF Issue, Effect

LEMMA RowEffect ==
    ASSUME TypeOK, NEW r \in Requests, FindEmail(r) \/ FindUser(r)
    PROVE  Effect(r)
<1>1. /\ UNCHANGED <<password, tokens, now>>
      /\ ~At(r, "idle")
      /\ chosen' \in {chosen, chosen + 1}
  BY DEF FindEmail, FindUser, At
<1>2. CASE To(r, "issue") \/ To(r, "delete")
  <2>1. {"issue", "delete"} \subseteq Steps
    BY DEF Steps
  <2>2. /\ req'[r].pc \in {"issue", "delete"}
        /\ \A s \in Requests \ {r} : req'[s] = req[s]
    BY <1>1, <1>2, <2>1, MoveEffect
  <2> QED
    BY <1>1, <2>2 DEF Effect
<1>3. ASSUME NEW row \in {password, chosen + 1}, NEW pc \in {"createUser", "save"},
             req' = [req EXCEPT ![r] = [@ EXCEPT !.pc = pc, !.row = row]]
      PROVE  Effect(r)
  <2>1. req[r] \in Request
    BY <1>1, Working
  <2>2. /\ req'[r].pc = pc /\ req'[r].row = row
        /\ \A s \in Requests \ {r} : req'[s] = req[s]
    BY <1>3, <2>1 DEF TypeOK, Request
  <2> QED
    BY <1>1, <2>2 DEF Effect
<1> QED
  BY <1>2, <1>3 DEF FindEmail, FindUser

LEMMA StepEffect == ASSUME TypeOK, NEW r \in Requests, Step(r) PROVE Effect(r)
<1>1. CASE Fail(r) \/ StoreToken(r) \/ SaveUser(r)
  <2>1. Respond(r)
    BY <1>1 DEF Fail, StoreToken, SaveUser
  <2> QED
    BY <1>1, <2>1, AnswerEffect DEF Effect, Fail, StoreToken, SaveUser, At
<1>2. CASE CreateUser(r) \/ FindToken(r)
  <2>1. ~At(r, "idle") /\ {"issue", "findUser"} \subseteq Steps
    BY <1>2 DEF CreateUser, FindToken, At, Steps
  <2>2. /\ req'[r].pc \in {"issue", "findUser"}
        /\ \A s \in Requests \ {r} : req'[s] = req[s]
    BY <1>2, <2>1, MoveEffect DEF CreateUser, FindToken
  <2> QED
    BY <1>2, <2>2 DEF Effect, CreateUser, FindToken, At
<1>3. CASE DeleteToken(r)
  <2>1. ~At(r, "idle") /\ "issue" \in Steps
    BY <1>3 DEF DeleteToken, At, Steps
  <2>2. /\ req'[r].pc \in {"issue", "idle"}
        /\ \A s \in Requests \ {r} : req'[s] = req[s]
    BY <1>3, <2>1, MoveEffect, AnswerEffect DEF DeleteToken
  <2> QED
    BY <1>3, <2>2 DEF Effect, DeleteToken
<1> QED
  BY <1>1, <1>2, <1>3, StartEffect, IssueEffect, RowEffect DEF Step

LEMMA SpentStep ==
    ASSUME TypeOK, [Next]_vars, NEW t \in Seconds, Spent(t)
    PROVE  Spent(t)'
<1>1. CASE \E r \in Requests : Step(r)
  <2>1. PICK r \in Requests : Effect(r)
    BY <1>1, StepEffect
  <2>2. t \notin tokens' /\ t < now'
    BY <2>1 DEF Effect, Spent
  <2>3. ASSUME NEW s \in Requests, req'[s].pc = "store"
        PROVE  req'[s].new # t
    <3>1. t # now
      BY Kept DEF Spent, Seconds
    <3> QED
      BY <2>1, <2>3, <3>1 DEF Effect, Spent, At
  <2> QED
    BY <2>2, <2>3 DEF Spent, At
<1>2. CASE Tick
  BY <1>2, Kept DEF Tick, Spent, At, Seconds
<1>3. CASE UNCHANGED vars
  BY <1>3 DEF vars, Spent, At
<1> QED
  BY <1>1, <1>2, <1>3 DEF Next, Served

(* A token that was rotated or logged out is never accepted again: only the *)
(* present second is ever issued, and the table only takes what was issued. *)
THEOREM SpentForGood == Spec => SpentStaysSpent
<1>1. TypeOK /\ [Next]_vars => [\A t \in Seconds : Spent(t) => Spent(t)']_vars
  BY SpentStep
<1> QED
  BY <1>1, TypeCorrect, PTL DEF Spec, SpentStaysSpent

LEMMA ReplacedStep ==
    ASSUME TypeOK, [Next]_vars, NEW p \in Passwords, Replaced(p)
    PROVE  Replaced(p)'
<1>1. p \in Nat /\ p <= chosen /\ p # password /\ chosen \in Nat
  BY Kept, AuthAssumption DEF Replaced, Passwords
<1>2. CASE \E r \in Requests : Step(r)
  <2>1. PICK r \in Requests : Effect(r)
    BY <1>2, StepEffect
  <2>2. p <= chosen' /\ p # password' /\ p # chosen + 1
    BY <1>1, <2>1 DEF Effect, Replaced
  <2>3. ASSUME NEW s \in Requests, req'[s].pc \in {"createUser", "save"}
        PROVE  req'[s].row # p
    BY <1>1, <2>1, <2>2, <2>3 DEF Effect, Replaced
  <2> QED
    BY <2>2, <2>3 DEF Replaced
<1>3. CASE Tick
  BY <1>3 DEF Tick, Replaced
<1>4. CASE UNCHANGED vars
  BY <1>4 DEF vars, Replaced
<1> QED
  BY <1>2, <1>3, <1>4 DEF Next, Served

(* A password that was replaced comes back only with a Save that holds it. *)
THEOREM ReplacedForGood == Spec => PasswordStaysReplaced
<1>1. TypeOK /\ [Next]_vars => [\A p \in Passwords : Replaced(p) => Replaced(p)']_vars
  BY ReplacedStep
<1> QED
  BY <1>1, TypeCorrect, PTL DEF Spec, PasswordStaysReplaced

-----------------------------------------------------------------------------
(* One heir.                                                               *)

(* A token that stands for one session, of which no two refreshes are at   *)
(* work: once the refresh has deleted it, or it has an heir, it is out of  *)
(* the table; once it has an heir, nobody refreshes it any more.           *)
Single(t) ==
    /\ \A r, s \in Refreshing(t) : r = s
    /\ \A r \in Refreshing(t) : req[r].pc \in {"issue", "store"} => t \notin tokens
    /\ \A a \in heirs[t] \ {t} : t \notin tokens /\ Refreshing(t) = {}
    /\ \A a, b \in heirs[t] \ {t} : a = b

(* What is refreshed, or was, was given to a client.                       *)
FromKnown ==
    /\ \A r \in Requests : ~At(r, "idle") /\ req[r].op = "refresh" => req[r].given \in known
    /\ \A t \in Seconds : heirs[t] # {} => t \in known

(* No refresh inserts a user.                                              *)
Registering == \A r \in Requests : At(r, "createUser") => req[r].op # "refresh"

HInv ==
    /\ TypeOK
    /\ FromKnown
    /\ Registering
    /\ \A t \in Seconds \ shared : Single(t)

(* The slots after a step: only r has changed, and keeps its operation and *)
(* the token it was sent, if it is still at work on them.                  *)
Same(r) ==
    /\ \A s \in Requests \ {r} : req'[s] = req[s]
    /\ \/ req'[r].pc = "idle"
       \/ /\ ~At(r, "idle")
          /\ req'[r].op = req[r].op
          /\ req'[r].given = req[r].given

LEMMA MoveSame ==
    ASSUME TypeOK, NEW r \in Requests, ~At(r, "idle"), NEW pc \in Steps, To(r, pc)
    PROVE  Same(r) /\ req'[r].pc = pc
<1>1. req[r] \in Request
  BY Working
<1> QED
  BY <1>1 DEF To, TypeOK, Request, Same

LEMMA AnswerSame ==
    ASSUME TypeOK, NEW r \in Requests, Respond(r)
    PROVE  Same(r) /\ req'[r].pc = "idle"
BY AnswerEffect DEF Same

(* A step that leaves the tokens alone and starts no refresh anew.         *)
LEMMA QuietHeirs ==
    ASSUME HInv, TypeOK', NEW r \in Requests, Same(r),
           UNCHANGED <<tokens, known, heirs, shared>>,
           req'[r].pc = "createUser" => req'[r].op # "refresh",
           \/ req'[r].pc \notin {"findUser", "delete", "issue", "store"}
           \/ req'[r].op # "refresh"
           \/ /\ req[r].pc \in {"findUser", "delete", "issue", "store"}
              /\ req'[r].pc \in {"issue", "store"} => req[r].pc \in {"issue", "store"}
    PROVE  HInv'
<1>1. FromKnown' /\ Registering'
  BY DEF HInv, FromKnown, Registering, Same, At
<1>2. ASSUME NEW t \in Seconds \ shared
      PROVE  Single(t)'
  <2>1. Refreshing(t)' \subseteq Refreshing(t)
    BY DEF Refreshing, Same
  <2>2. ASSUME NEW s \in Refreshing(t)', req'[s].pc \in {"issue", "store"}
        PROVE  req[s].pc \in {"issue", "store"}
    BY <2>2 DEF Refreshing, Same
  <2> QED
    BY <2>1, <2>2 DEF HInv, Single
<1> QED
  BY <1>1, <1>2 DEF HInv

LEMMA StartHeirs == ASSUME HInv, TypeOK', NEW r \in Requests, Start(r) PROVE HInv'
<1>1. PICK op \in Ops, t \in known \cup {0}, p \in 0..chosen :
         /\ op \in {"refresh", "logout"} => t \in known
         /\ req' = [req EXCEPT ![r] =
               [pc |-> FirstStep[op], op |-> op, given |-> t, secret |-> p,
                row |-> 0, new |-> 0]]
  BY DEF Start
<1>2. /\ req'[r].op = op /\ req'[r].given = t /\ req'[r].pc = FirstStep[op]
      /\ \A s \in Requests \ {r} : req'[s] = req[s]
  BY <1>1 DEF HInv, TypeOK
<1>3. /\ op = "refresh" => FirstStep[op] = "findToken"
      /\ FirstStep[op] # "createUser"
  BY AuthAssumption DEF AllOps, FirstStep
<1>4. UNCHANGED <<tokens, known, heirs, shared>>
  BY DEF Start, history
<1>5. FromKnown' /\ Registering'
  BY <1>1, <1>2, <1>3, <1>4 DEF HInv, FromKnown, Registering, At
<1>6. ASSUME NEW u \in Seconds \ shared
      PROVE  Single(u)'
  <2>1. Refreshing(u)' \subseteq Refreshing(u) \ {r}
    BY <1>2, <1>3 DEF Refreshing
  <2>2. \A s \in Refreshing(u)' : req'[s] = req[s]
    BY <1>2, <2>1 DEF Refreshing
  <2> QED
    BY <1>4, <2>1, <2>2 DEF HInv, Single
<1> QED
  BY <1>4, <1>5, <1>6 DEF HInv

LEMMA QuietSteps ==
    ASSUME HInv, TypeOK', NEW r \in Requests,
           \/ Fail(r) \/ FindEmail(r) \/ CreateUser(r) \/ Issue(r)
           \/ FindUser(r) \/ SaveUser(r)
    PROVE  HInv'
<1>1. /\ TypeOK
      /\ UNCHANGED <<tokens, known, heirs, shared>>
      /\ ~At(r, "idle")
      /\ req[r] \in Request
  BY Working DEF HInv, Fail, FindEmail, CreateUser, Issue, FindUser, SaveUser, At, history
<1>2. CASE Respond(r)
  BY <1>1, <1>2, AnswerSame, QuietHeirs
<1>3. CASE FindEmail(r)
  <2>1. CASE req[r].op = "login" /\ To(r, "issue")
    <3>1. Same(r) /\ req'[r].pc = "issue"
      BY <1>1, <2>1, MoveSame DEF Steps
    <3>2. req'[r].op # "refresh"
      BY <2>1, <3>1 DEF Same
    <3> QED
      BY <1>1, <3>1, <3>2, QuietHeirs
  <2>2. CASE /\ req[r].op = "register"
             /\ req' = [req EXCEPT ![r] = [@ EXCEPT !.pc = "createUser", !.row = chosen + 1]]
    <3>1. Same(r) /\ req'[r].pc = "createUser" /\ req'[r].op # "refresh"
      BY <1>1, <2>2 DEF TypeOK, Request, Same
    <3> QED
      BY <1>1, <3>1, QuietHeirs
  <2> QED
    BY <1>3, <2>1, <2>2 DEF FindEmail
<1>4. CASE CreateUser(r)
  <2>1. Same(r) /\ req'[r].pc = "issue"
    BY <1>1, <1>4, MoveSame DEF CreateUser, Steps
  <2>2. req'[r].op # "refresh"
    BY <1>4, <2>1 DEF CreateUser, HInv, Registering, Same
  <2> QED
    BY <1>1, <2>1, <2>2, QuietHeirs
<1>5. CASE Issue(r)
  <2>1. Same(r) /\ req'[r].pc = "store" /\ req[r].pc = "issue"
    BY <1>1, <1>5 DEF Issue, At, TypeOK, Request, Same
  <2> QED
    BY <1>1, <2>1, QuietHeirs
<1>6. CASE FindUser(r)
  <2>1. CASE To(r, "delete")
    <3>1. Same(r) /\ req'[r].pc = "delete" /\ req[r].pc = "findUser"
      BY <1>1, <1>6, <2>1, MoveSame DEF FindUser, At, Steps
    <3> QED
      BY <1>1, <3>1, QuietHeirs
  <2>2. ASSUME NEW row, req' = [req EXCEPT ![r] = [@ EXCEPT !.pc = "save", !.row = row]]
        PROVE  HInv'
    <3>1. Same(r) /\ req'[r].pc = "save"
      BY <1>1, <2>2 DEF TypeOK, Request, Same
    <3> QED
      BY <1>1, <3>1, QuietHeirs
  <2> QED
    BY <1>6, <2>1, <2>2 DEF FindUser
<1> QED
  BY <1>2, <1>3, <1>4, <1>5, <1>6 DEF Fail, SaveUser

(* The token that is found is in the table, so it has no heir.             *)
LEMMA FindTokenHeirs ==
    ASSUME HInv, TypeOK', NEW r \in Requests, FindToken(r)
    PROVE  HInv'
<1> DEFINE t == req[r].given
<1>1. /\ TypeOK /\ ~At(r, "idle") /\ t \in tokens /\ At(r, "findToken")
      /\ UNCHANGED <<tokens, known, heirs>>
      /\ shared \subseteq shared'
      /\ t \notin shared' => Refreshing(t) = {}
  BY DEF HInv, FindToken, At
<1>2. Same(r) /\ req'[r].pc = "findUser" /\ t \in Seconds
  BY <1>1, Working, MoveSame DEF FindToken, Steps
<1>3. FromKnown' /\ Registering'
  BY <1>1, <1>2 DEF HInv, FromKnown, Registering, Same, At
<1>4. ASSUME NEW u \in Seconds \ shared'
      PROVE  Single(u)'
  <2>1. Single(u)
    BY <1>1, <1>4 DEF HInv
  <2>2. CASE u # t
    <3>1. Refreshing(u)' = Refreshing(u)
      BY <1>1, <1>2, <2>2 DEF Refreshing, Same, At
    <3>2. \A s \in Refreshing(u)' : req'[s] = req[s]
      BY <1>2, <2>2 DEF Refreshing, Same
    <3> QED
      BY <1>1, <2>1, <3>1, <3>2 DEF Single
  <2>3. CASE u = t
    <3>1. Refreshing(u)' \subseteq {r}
      BY <1>1, <1>2, <1>4, <2>3 DEF Refreshing, Same
    <3>2. heirs[u] \ {u} = {}
      BY <1>1, <2>1, <2>3 DEF Single
    <3> QED
      BY <1>1, <1>2, <3>1, <3>2 DEF Single
  <2> QED
    BY <2>2, <2>3
<1> QED
  BY <1>3, <1>4 DEF HInv

(* The refresh that deletes its token may go on to issue another.          *)
LEMMA DeleteHeirs ==
    ASSUME HInv, TypeOK', NEW r \in Requests, DeleteToken(r)
    PROVE  HInv'
<1>1. /\ TypeOK /\ ~At(r, "idle") /\ At(r, "delete")
      /\ tokens' = tokens \ {req[r].given}
      /\ UNCHANGED <<known, heirs, shared>>
  BY DEF HInv, DeleteToken, At, history
<1>2. /\ Same(r)
      /\ \/ req'[r].pc = "idle"
         \/ req'[r].pc = "issue" /\ req'[r].given \notin tokens'
  BY <1>1, MoveSame, AnswerSame DEF DeleteToken, Steps, Same
<1>3. FromKnown' /\ Registering'
  BY <1>1, <1>2 DEF HInv, FromKnown, Registering, Same, At
<1>4. ASSUME NEW u \in Seconds \ shared
      PROVE  Single(u)'
  <2>1. Single(u)
    BY DEF HInv
  <2>2. Refreshing(u)' \subseteq Refreshing(u)
    BY <1>1, <1>2 DEF Refreshing, Same, At
  <2>3. ASSUME NEW s \in Refreshing(u)', req'[s].pc \in {"issue", "store"}
        PROVE  u \notin tokens'
    <3>1. CASE s = r
      BY <1>2, <2>3, <3>1 DEF Refreshing
    <3>2. CASE s # r
      <4>1. s \in Refreshing(u) /\ req'[s] = req[s]
        BY <1>2, <2>2, <3>2 DEF Refreshing, Same
      <4>2. u \notin tokens
        BY <2>1, <2>3, <4>1 DEF Single
      <4> QED
        BY <1>1, <4>2
    <3> QED
      BY <3>1, <3>2
  <2> QED
    BY <1>1, <2>1, <2>2, <2>3 DEF Single
<1> QED
  BY <1>1, <1>3, <1>4 DEF HInv

(* The refresh that stores the heir is through with the token.             *)
LEMMA StoreHeirs ==
    ASSUME HInv, TypeOK', NEW r \in Requests, StoreToken(r)
    PROVE  HInv'
<1> DEFINE t == req[r].given
           n == req[r].new
           refresh == req[r].op = "refresh"
<1>1. /\ TypeOK /\ ~At(r, "idle") /\ At(r, "store")
      /\ t \in Seconds /\ n \in Seconds
  BY Working, Kept DEF HInv, StoreToken, At
<1>2. /\ tokens' = tokens \cup {n}
      /\ known' = known \cup {n}
      /\ shared \subseteq shared'
      /\ n \in known /\ n \notin shared' => refresh /\ t = n
  BY DEF StoreToken
<1>3. /\ refresh => heirs'[t] = heirs[t] \cup {n}
      /\ \A u \in Seconds : u # t \/ ~refresh => heirs'[u] = heirs[u]
  BY <1>1 DEF StoreToken, TypeOK
<1>4. Same(r) /\ req'[r].pc = "idle"
  BY <1>1, AnswerSame DEF StoreToken
<1>5. refresh => t \in known
  BY <1>1 DEF HInv, FromKnown
<1>6. FromKnown' /\ Registering'
  <2>1. \A s \in Requests : ~At(s, "idle")' /\ req'[s].op = "refresh" => req'[s].given \in known'
    BY <1>2, <1>4 DEF HInv, FromKnown, Same, At
  <2>2. \A u \in Seconds : heirs'[u] # {} => u \in known'
    BY <1>2, <1>3, <1>5 DEF HInv, FromKnown
  <2>3. Registering'
    BY <1>4 DEF HInv, Registering, Same, At
  <2> QED
    BY <2>1, <2>2, <2>3 DEF FromKnown
<1>7. ASSUME NEW u \in Seconds \ shared'
      PROVE  Single(u)'
  <2>1. Single(u)
    BY <1>2, <1>7 DEF HInv
  <2>2. Refreshing(u)' = Refreshing(u) \ {r}
    BY <1>4 DEF Refreshing, Same
  <2>3. \A s \in Refreshing(u)' : req'[s] = req[s]
    BY <1>4, <2>2 DEF Refreshing, Same
  <2>4. CASE refresh /\ u = t
    <3>1. r \in Refreshing(u)
      BY <1>1, <2>4 DEF Refreshing, At
    <3>2. Refreshing(u)' = {} /\ heirs[u] \ {u} = {} /\ u \notin tokens
      BY <1>1, <2>1, <2>2, <3>1 DEF Single, At
    <3>3. heirs'[u] = heirs[u] \cup {n}
      BY <1>3, <2>4
    <3>4. u # n => u \notin tokens'
      BY <1>2, <3>2
    <3> QED
      BY <3>2, <3>3, <3>4 DEF Single
  <2>5. CASE ~(refresh /\ u = t)
    <3>1. heirs'[u] = heirs[u]
      BY <1>3, <2>5
    <3>2. CASE u = n
      <4>1. u \notin known
        BY <1>2, <1>7, <2>5, <3>2
      <4>2. heirs[u] = {} /\ Refreshing(u) = {}
        BY <4>1 DEF HInv, FromKnown, Refreshing, At
      <4> QED
        BY <2>2, <3>1, <4>2 DEF Single
    <3>3. CASE u # n
      BY <1>2, <2>1, <2>2, <2>3, <3>1, <3>3 DEF Single
    <3> QED
      BY <3>2, <3>3
  <2> QED
    BY <2>4, <2>5
<1> QED
  BY <1>6, <1>7 DEF HInv

LEMMA InitHeirs == Init => HInv
<1> SUFFICES ASSUME Init PROVE HInv
  OBVIOUS
<1>1. TypeOK
  BY InitType
<1>2. FromKnown /\ Registering
  BY DEF Init, FromKnown, Registering, At, NoRequest
<1>3. ASSUME NEW t \in Seconds PROVE Single(t)
  <2>1. Refreshing(t) = {} /\ heirs[t] = {}
    BY DEF Init, Refreshing, NoRequest
  <2> QED
    BY <2>1 DEF Single
<1> QED
  BY <1>1, <1>2, <1>3 DEF HInv

LEMMA NextHeirs == ASSUME HInv, [Next]_vars PROVE HInv'
<1>1. TypeOK'
  BY NextType DEF HInv
<1>2. CASE \E r \in Requests : Step(r)
  BY <1>1, <1>2, StartHeirs, QuietSteps, StoreHeirs, FindTokenHeirs, DeleteHeirs DEF Step
<1>3. CASE Tick \/ UNCHANGED vars
  <2>1. UNCHANGED <<tokens, known, req, heirs, shared>>
    BY <1>3 DEF Tick, vars, history
  <2>2. FromKnown' /\ Registering'
    BY <2>1 DEF HInv, FromKnown, Registering, At
  <2>3. ASSUME NEW t \in Seconds \ shared PROVE Single(t)'
    BY <2>1 DEF HInv, Single, Refreshing
  <2> QED
    BY <1>1, <2>1, <2>2, <2>3 DEF HInv
<1> QED
  BY <1>2, <1>3 DEF Next, Served

(* A refresh token has at most one heir, unless two refreshes of it ran at *)
(* once or it was issued to two logins of one second.                      *)
THEOREM HeirsAreSingle == Spec => []OneHeir
<1>1. HInv => OneHeir
  BY DEF HInv, Single, OneHeir
<1> QED
  BY <1>1, InitHeirs, NextHeirs, PTL DEF Spec
=============================================================================
