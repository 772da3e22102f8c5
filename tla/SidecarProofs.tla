--------------------------- MODULE SidecarProofs ---------------------------
(***************************************************************************)
(* Proofs about Sidecar, for any number of calls and threads and any       *)
(* limits: how long a call may keep a thread, when a client gives up, and  *)
(* what the answers tell.                                                  *)
(*                                                                         *)
(* All of it is a fact about one call: the time on the thread is at most   *)
(* the attempts it has behind it, each as slow as the slowest, and the     *)
(* present one.                                                            *)
(***************************************************************************)
EXTENDS Sidecar, TLAPS

(* The attempts a call has behind it, at most.                             *)
Done(q) == (IF q.found THEN 5 ELSE 0) + q.tried

(* Which ladder an operation is on, and how far.                           *)
Ladder(q) ==
    /\ q.tried < Rungs[q.ladder]
    /\ q.found => q.op = "stream" /\ q.ladder = "json"
    /\ q.pc # "idle" =>
          \/ q.op = "extract" /\ q.ladder = "json"
          \/ q.op = "formats" /\ q.ladder = "formats"
          \/ q.op = "stream" /\ q.ladder = "urls"
          \/ q.op = "stream" /\ q.ladder = "json" /\ q.found

Times(q) ==
    /\ q.spent <= q.slowest
    /\ q.worked <= Done(q) * q.slowest + q.spent
    /\ q.client = "waiting" => q.waited + q.worked <= ClientLimit

Client(q) ==
    /\ q.pc = "idle" => q.client # "waiting" /\ q.worked = 0
    /\ q.pc # "idle" => q.client \in {"waiting", "gone"}
    /\ q.client = "gone" /\ q.pc # "idle" =>
          q.waited > 0 \/ MostAttempts[q.op] * q.slowest >= ClientLimit
    /\ q.found /\ q.pc = "idle" => q.client \in {"ok", "malformed", "gone"}
    /\ q.client = "refused" => q.tried + 1 = Rungs[q.ladder]

(* The call's fields but worked, whose bound follows.                      *)
Record == [pc : {"idle", "queued", "run"}, op : Ops, client : Clients,
           ladder : Ladders, tried : 0..4, spent : 0..AttemptLimit, found : BOOLEAN,
           waited : 0..ClientLimit, worked : Nat, slowest : 0..AttemptLimit]

CallOK(q) == q \in Record /\ Ladder(q) /\ Times(q) /\ Client(q)

IInv ==
    /\ call \in [Calls -> Record]
    /\ \A c \in Calls : CallOK(call[c])
    /\ sent \in 0..MaxCalls

LEMMA RungsType ==
    /\ Rungs["urls"] = 5 /\ Rungs["json"] = 3 /\ Rungs["formats"] = 2
    /\ MostAttempts["extract"] = 3 /\ MostAttempts["stream"] = 8
    /\ MostAttempts["formats"] = 2
BY DEF Rungs, MostAttempts

LEMMA Zeroes == 0 \in 0..AttemptLimit /\ 0 \in 0..ClientLimit /\ 0 \in 0..4 /\ 0 \in Nat
BY SidecarAssumption

LEMMA TimesMonotone ==
    ASSUME NEW k \in Nat, NEW n \in Nat, NEW a \in Nat, NEW b \in Nat, k <= n, a <= b
    PROVE  k * a \in Nat /\ k * a <= k * b /\ k * b <= n * b /\ n * b \in Nat
<1>1. k * a \in Nat /\ k * b \in Nat /\ n * b \in Nat
  OBVIOUS
<1>2. PICK d \in Nat : b = a + d
  <2>1. b - a \in Nat /\ b = a + (b - a)
    OBVIOUS
  <2> QED
    BY <2>1
<1>3. PICK e \in Nat : n = k + e
  <2>1. n - k \in Nat /\ n = k + (n - k)
    OBVIOUS
  <2> QED
    BY <2>1
<1>4. k * b = k * a + k * d /\ k * d \in Nat
  BY <1>2
<1>5. n * b = k * b + e * b /\ e * b \in Nat
  BY <1>3
<1> QED
  BY <1>1, <1>4, <1>5

(* On a thread: the attempts made are the operation's at most, with the    *)
(* present one.                                                            *)
LEMMA AttemptsBounded ==
    ASSUME NEW q, CallOK(q), q.pc # "idle"
    PROVE  /\ Done(q) \in Nat
           /\ MostAttempts[q.op] \in Nat /\ Done(q) + 1 <= MostAttempts[q.op]
<1>1. q.tried \in Nat /\ q.found \in BOOLEAN /\ q.op \in Ops
  BY DEF CallOK, Record
<1>2. CASE q.op = "extract" /\ q.ladder = "json"
  BY <1>1, <1>2, RungsType DEF CallOK, Ladder, Done
<1>3. CASE q.op = "formats" /\ q.ladder = "formats"
  BY <1>1, <1>3, RungsType DEF CallOK, Ladder, Done
<1>4. CASE q.op = "stream" /\ q.ladder = "urls"
  BY <1>1, <1>4, RungsType DEF CallOK, Ladder, Done
<1>5. CASE q.op = "stream" /\ q.ladder = "json" /\ q.found
  BY <1>1, <1>5, RungsType DEF CallOK, Ladder, Done
<1> QED
  BY <1>2, <1>3, <1>4, <1>5 DEF CallOK, Ladder

(* So the time on the thread is bounded by the slowest attempt.            *)
LEMMA WorkBounded ==
    ASSUME NEW q, CallOK(q), q.pc # "idle"
    PROVE  /\ q.worked <= MostAttempts[q.op] * q.slowest
           /\ MostAttempts[q.op] * q.slowest <= MostAttempts[q.op] * AttemptLimit
           /\ MostAttempts[q.op] * q.slowest \in Nat
           /\ MostAttempts[q.op] * AttemptLimit \in Nat
<1>1. /\ q.slowest \in Nat /\ q.spent \in Nat /\ q.worked \in Nat
      /\ q.slowest <= AttemptLimit /\ AttemptLimit \in Nat
  BY SidecarAssumption DEF CallOK, Record
<1> DEFINE d == Done(q)
           m == MostAttempts[q.op]
           s == q.slowest
<1>2. d \in Nat /\ m \in Nat /\ d + 1 <= m
  BY AttemptsBounded
<1>3. q.worked <= d * s + q.spent /\ q.spent <= s
  BY DEF CallOK, Times
<1> HIDE DEF d, m
<1>4. (d + 1) * s <= m * s /\ (d + 1) * s \in Nat /\ m * s \in Nat
  BY <1>1, <1>2, TimesMonotone
<1>5. (d + 1) * s = d * s + s /\ d * s \in Nat
  BY <1>1, <1>2
<1>6. q.worked <= m * s
  BY <1>1, <1>3, <1>4, <1>5
<1>7. m * s <= m * AttemptLimit /\ m * AttemptLimit \in Nat
  BY <1>1, <1>2, TimesMonotone
<1> QED
  BY <1>4, <1>6, <1>7 DEF m

-----------------------------------------------------------------------------
(* The inductive invariant.                                                *)

LEMMA InitIInv == Init => IInv
<1> SUFFICES ASSUME Init PROVE IInv
  OBVIOUS
<1>1. NoCall \in Record
  BY SidecarAssumption DEF NoCall, Record, Ops, Clients, Ladders
<1>2. Ladder(NoCall) /\ Client(NoCall)
  BY RungsType DEF NoCall, Ladder, Client
<1>3. Times(NoCall)
  BY DEF NoCall, Times, Done
<1>4. \A c \in Calls : call[c] = NoCall
  BY DEF Init
<1> QED
  BY <1>1, <1>2, <1>3, <1>4, SidecarAssumption DEF Init, IInv, CallOK

(* A step of one call.                                                     *)
LEMMA OneCall ==
    ASSUME IInv, NEW c \in Calls, NEW q, CallOK(q), call' = [call EXCEPT ![c] = q],
           sent' \in 0..MaxCalls
    PROVE  IInv'
<1>1. /\ call'[c] = q /\ \A d \in Calls \ {c} : call'[d] = call[d]
      /\ q \in Record
  BY DEF IInv, CallOK
<1>2. \A d \in Calls : CallOK(call'[d])
  BY <1>1 DEF IInv
<1>3. call' \in [Calls -> Record]
  BY <1>1 DEF IInv
<1> QED
  BY <1>2, <1>3 DEF IInv

(* The present attempt counts as one of those behind once it has ended.    *)
LEMMA AttemptCounts ==
    ASSUME NEW q, CallOK(q)
    PROVE  /\ q.worked <= (Done(q) + 1) * q.slowest
           /\ (Done(q) + 1) * q.slowest \in Nat /\ Done(q) \in Nat
<1>1. /\ q.slowest \in Nat /\ q.spent \in Nat /\ q.worked \in Nat
      /\ q.tried \in Nat /\ q.found \in BOOLEAN
  BY SidecarAssumption DEF CallOK, Record
<1>2. Done(q) \in Nat
  BY <1>1 DEF Done
<1> DEFINE d == Done(q)
           s == q.slowest
<1>3. q.worked <= d * s + q.spent /\ q.spent <= s
  BY DEF CallOK, Times
<1> HIDE DEF d
<1>4. (d + 1) * s = d * s + s /\ d * s \in Nat
  BY <1>1, <1>2 DEF d
<1> QED
  BY <1>1, <1>2, <1>3, <1>4 DEF d

(* An answer, which is no refusal before the last way and keeps what was   *)
(* found.                                                                  *)
LEMMA Answered ==
    ASSUME IInv, NEW c \in Calls, At(c, "run"),
           NEW a \in Answers, Answer(c, a),
           call[c].found => a \in {"ok", "malformed"},
           a = "refused" => call[c].tried + 1 = Rungs[call[c].ladder],
           sent' = sent
    PROVE  IInv'
<1> DEFINE q == [call[c] EXCEPT !.pc = "idle", !.spent = 0, !.waited = 0, !.worked = 0,
                                !.slowest = 0,
                                !.client = IF Waiting(c) THEN a ELSE "gone"]
<1>1. call[c] \in Record /\ CallOK(call[c])
  BY DEF IInv
<1>a. (IF Waiting(c) THEN a ELSE "gone") \in Clients
  BY DEF Clients, Answers
<1>b. q \in Record
  BY <1>1, <1>a, Zeroes DEF Record
<1>2. /\ q \in Record
      /\ q.pc = "idle" /\ q.spent = 0 /\ q.waited = 0 /\ q.worked = 0 /\ q.slowest = 0
      /\ q.client \in {a, "gone"} /\ q.tried = call[c].tried /\ q.found = call[c].found
      /\ q.ladder = call[c].ladder /\ q.op = call[c].op
  BY <1>1, <1>b DEF Record
<1>3. call' = [call EXCEPT ![c] = q]
  BY DEF Answer
<1> HIDE DEF q
<1>4. Ladder(q)
  BY <1>1, <1>2 DEF CallOK, Ladder
<1>5. Client(q)
  BY <1>2 DEF Client, Answers
<1>6. Times(q)
  <2>1. Done(q) * 0 = 0
    BY <1>2 DEF Done, Record
  <2>2. q.worked <= Done(q) * q.slowest + q.spent
    BY <1>2, <2>1
  <2>3. q.client # "waiting"
    BY <1>2 DEF Answers
  <2> QED
    BY <1>2, <2>2, <2>3 DEF Times
<1>7. sent' \in 0..MaxCalls
  BY DEF IInv
<1> QED
  BY <1>2, <1>3, <1>4, <1>5, <1>6, <1>7, OneCall DEF CallOK

LEMMA SendStep == ASSUME IInv, NEW c \in Calls, Send(c) PROVE IInv'
<1>1. PICK op \in Ops :
         call' = [call EXCEPT ![c] = [NoCall EXCEPT !.pc = "queued", !.op = op,
                                                    !.client = "waiting",
                                                    !.ladder = FirstLadder[op]]]
  BY DEF Send
<1> DEFINE q == [NoCall EXCEPT !.pc = "queued", !.op = op, !.client = "waiting",
                               !.ladder = FirstLadder[op]]
<1>2. FirstLadder[op] \in Ladders
  BY DEF Ops, FirstLadder, Ladders
<1>a. q \in Record
  <2>1. NoCall \in Record
    BY Zeroes DEF NoCall, Record, Ops, Clients, Ladders
  <2> QED
    BY <1>2, <2>1, Zeroes DEF Record, Clients
<1>3. /\ q \in Record /\ q.pc = "queued" /\ q.op = op /\ q.client = "waiting"
      /\ q.ladder = FirstLadder[op] /\ q.tried = 0 /\ q.found = FALSE
      /\ q.spent = 0 /\ q.waited = 0 /\ q.worked = 0 /\ q.slowest = 0
  BY <1>a DEF NoCall
<1> HIDE DEF q
<1>4. Ladder(q)
  BY <1>3, RungsType DEF Ladder, Ops, FirstLadder
<1>5. Times(q)
  BY <1>3, SidecarAssumption DEF Times, Done
<1>6. Client(q)
  BY <1>3 DEF Client
<1>7. sent' \in 0..MaxCalls
  BY SidecarAssumption DEF Send, IInv
<1> QED
  BY <1>1, <1>3, <1>4, <1>5, <1>6, <1>7, OneCall DEF CallOK, q

LEMMA TakeStep == ASSUME IInv, NEW c \in Calls, Take(c) PROVE IInv'
<1> DEFINE q == [call[c] EXCEPT !.pc = "run"]
<1>1. call[c] \in Record /\ CallOK(call[c]) /\ call[c].pc = "queued"
  BY DEF IInv, Take, At
<1>2. /\ q \in Record /\ q.pc = "run" /\ q.op = call[c].op /\ q.client = call[c].client
      /\ q.ladder = call[c].ladder /\ q.tried = call[c].tried /\ q.found = call[c].found
      /\ q.spent = call[c].spent /\ q.waited = call[c].waited
      /\ q.worked = call[c].worked /\ q.slowest = call[c].slowest
  BY <1>1 DEF Record
<1>3. call' = [call EXCEPT ![c] = q] /\ sent' \in 0..MaxCalls
  BY DEF Take, IInv
<1> HIDE DEF q
<1>4. Ladder(q) /\ Client(q)
  BY <1>1, <1>2 DEF CallOK, Ladder, Client
<1>5. Times(q)
  BY <1>1, <1>2 DEF CallOK, Times, Done
<1> QED
  BY <1>2, <1>3, <1>4, <1>5, OneCall DEF CallOK

(* The next attempt, on this ladder or on that of the metadata.            *)
LEMMA NextAttempt ==
    ASSUME IInv, NEW c \in Calls, At(c, "run"), NEW q \in Record,
           call' = [call EXCEPT ![c] = q],
           q.pc = "run", q.op = call[c].op, q.client = call[c].client,
           q.spent = 0, q.waited = call[c].waited, q.worked = call[c].worked,
           q.slowest = call[c].slowest,
           Ladder(q), Done(call[c]) + 1 <= Done(q), sent' = sent
    PROVE  IInv'
<1>1. CallOK(call[c]) /\ call[c] \in Record /\ call[c].pc = "run"
  BY DEF IInv, At
<1>2. Client(q)
  BY <1>1 DEF CallOK, Client
<1>3. Times(q)
  <2>1. /\ q.worked <= (Done(call[c]) + 1) * q.slowest
        /\ (Done(call[c]) + 1) * q.slowest \in Nat /\ Done(call[c]) \in Nat
    BY <1>1, AttemptCounts
  <2>2. Done(q) \in Nat /\ q.slowest \in Nat /\ q.worked \in Nat
    BY SidecarAssumption DEF Done, Record
  <2>3. (Done(call[c]) + 1) * q.slowest <= Done(q) * q.slowest /\ Done(q) * q.slowest \in Nat
    BY <2>1, <2>2, TimesMonotone
  <2>4. q.worked <= Done(q) * q.slowest + q.spent /\ q.spent <= q.slowest
    BY <2>1, <2>2, <2>3
  <2>5. q.client = "waiting" => q.waited + q.worked <= ClientLimit
    BY <1>1 DEF CallOK, Times
  <2> QED
    BY <2>4, <2>5 DEF Times
<1>4. sent' \in 0..MaxCalls
  BY DEF IInv
<1> QED
  BY <1>2, <1>3, <1>4, OneCall DEF CallOK

LEMMA SucceedsStep == ASSUME IInv, NEW c \in Calls, Succeeds(c) PROVE IInv'
<1>1. CallOK(call[c]) /\ call[c] \in Record /\ At(c, "run") /\ sent' = sent
  BY DEF IInv, Succeeds
<1>2. CASE call[c].ladder = "urls"
  <2> DEFINE q == [call[c] EXCEPT !.ladder = "json", !.found = TRUE, !.tried = 0, !.spent = 0]
  <2>a. q \in Record
    BY <1>1, Zeroes DEF Record, Ladders
  <2>1. /\ q \in Record /\ q.pc = call[c].pc /\ q.op = call[c].op /\ q.client = call[c].client
        /\ q.ladder = "json" /\ q.found = TRUE /\ q.tried = 0 /\ q.spent = 0
        /\ q.waited = call[c].waited /\ q.worked = call[c].worked /\ q.slowest = call[c].slowest
    BY <1>1, <2>a DEF Record
  <2>2. call' = [call EXCEPT ![c] = q]
    BY <1>2 DEF Succeeds
  <2> HIDE DEF q
  <2>3. call[c].op = "stream" /\ ~call[c].found /\ call[c].tried \in 0..4 /\ call[c].tried < 5
    BY <1>1, <1>2, RungsType DEF CallOK, Ladder, At, Record
  <2>4. Ladder(q)
    BY <1>1, <2>1, <2>3, RungsType DEF Ladder
  <2>5. Done(call[c]) + 1 <= Done(q)
    BY <2>1, <2>3 DEF Done
  <2> QED
    BY <1>1, <2>1, <2>2, <2>4, <2>5, NextAttempt DEF At
<1>3. CASE call[c].ladder # "urls"
  <2>1. Answer(c, "ok") /\ "ok" \in Answers
    BY <1>3 DEF Succeeds, Answers
  <2> QED
    BY <1>1, <2>1, Answered
<1> QED
  BY <1>2, <1>3

LEMMA FailsStep == ASSUME IInv, NEW c \in Calls, Fails(c) PROVE IInv'
<1>1. CallOK(call[c]) /\ call[c] \in Record /\ At(c, "run") /\ sent' = sent
  BY DEF IInv, Fails
<1>2. /\ call[c].tried \in 0..4 /\ call[c].ladder \in Ladders
      /\ Rungs[call[c].ladder] \in 2..5 /\ call[c].tried < Rungs[call[c].ladder]
  BY <1>1, RungsType DEF Record, CallOK, Ladder, Ladders
<1>3. CASE Rung(c) < Rungs[call[c].ladder]
  <2> DEFINE q == [call[c] EXCEPT !.tried = Rung(c), !.spent = 0]
  <2>1. Rung(c) \in 0..4 /\ Rung(c) = call[c].tried + 1
    BY <1>2, <1>3 DEF Rung
  <2>a. q \in Record
    BY <1>1, <2>1, Zeroes DEF Record
  <2>2. /\ q \in Record /\ q.pc = call[c].pc /\ q.op = call[c].op /\ q.client = call[c].client
        /\ q.ladder = call[c].ladder /\ q.found = call[c].found
        /\ q.tried = call[c].tried + 1 /\ q.spent = 0
        /\ q.waited = call[c].waited /\ q.worked = call[c].worked /\ q.slowest = call[c].slowest
    BY <1>1, <2>1, <2>a DEF Record
  <2>3. call' = [call EXCEPT ![c] = q]
    BY <1>3 DEF Fails
  <2> HIDE DEF q
  <2>4. Ladder(q)
    <3>1. q.tried < Rungs[q.ladder]
      BY <1>3, <2>1, <2>2
    <3> QED
      BY <1>1, <2>2, <3>1 DEF CallOK, Ladder
  <2>5. Done(call[c]) + 1 <= Done(q)
    BY <1>2, <2>2 DEF Done
  <2> QED
    BY <1>1, <2>2, <2>3, <2>4, <2>5, NextAttempt DEF At
<1>4. CASE ~(Rung(c) < Rungs[call[c].ladder])
  <2>1. call[c].tried + 1 = Rungs[call[c].ladder]
    BY <1>2, <1>4 DEF Rung
  <2>2. CASE call[c].found
    <3>1. Answer(c, "ok") /\ "ok" \in Answers
      BY <1>4, <2>2 DEF Fails, AnswerFailed, Answers
    <3> QED
      BY <1>1, <3>1, Answered
  <2>3. CASE ~call[c].found
    <3>1. Answer(c, "refused") /\ "refused" \in Answers
      BY <1>4, <2>3 DEF Fails, AnswerFailed, Answers
    <3> QED
      BY <1>1, <2>1, <2>3, <3>1, Answered
  <2> QED
    BY <2>2, <2>3
<1> QED
  BY <1>3, <1>4

LEMMA LeavesLadder ==
    ASSUME IInv, NEW c \in Calls, TimesOut(c) \/ Breaks(c)
    PROVE  IInv'
<1>1. PICK a \in {"timedOut", "broken"} : AnswerFailed(c, a)
  BY DEF TimesOut, Breaks
<1>2. At(c, "run") /\ sent' = sent
  BY DEF TimesOut, Breaks
<1>3. CASE call[c].found
  <2>1. Answer(c, "ok") /\ "ok" \in Answers
    BY <1>1, <1>3 DEF AnswerFailed, Answers
  <2> QED
    BY <1>2, <2>1, Answered
<1>4. CASE ~call[c].found
  <2>1. Answer(c, a) /\ a \in Answers /\ a # "refused"
    BY <1>1, <1>4 DEF AnswerFailed, Answers
  <2> QED
    BY <1>2, <1>4, <2>1, Answered
<1> QED
  BY <1>3, <1>4

LEMMA MisprintsStep == ASSUME IInv, NEW c \in Calls, Misprints(c) PROVE IInv'
<1>1. At(c, "run") /\ sent' = sent /\ Answer(c, "malformed") /\ "malformed" \in Answers
  BY DEF Misprints, Answers
<1> QED
  BY <1>1, Answered

LEMMA GiveUpStep == ASSUME IInv, NEW c \in Calls, GiveUp(c) PROVE IInv'
<1> DEFINE q == [call[c] EXCEPT !.client = "gone"]
<1>1. CallOK(call[c]) /\ call[c] \in Record /\ call[c].client = "waiting"
  BY DEF IInv, GiveUp, Waiting
<1>2. call[c].pc # "idle"
  BY <1>1 DEF CallOK, Client
<1>a. q \in Record
  BY <1>1 DEF Record, Clients
<1>3. /\ q.pc = call[c].pc /\ q.op = call[c].op /\ q.client = "gone"
      /\ q.ladder = call[c].ladder /\ q.tried = call[c].tried /\ q.found = call[c].found
      /\ q.spent = call[c].spent /\ q.waited = call[c].waited
      /\ q.worked = call[c].worked /\ q.slowest = call[c].slowest
  BY <1>1 DEF Record
<1>4. call' = [call EXCEPT ![c] = q] /\ sent' \in 0..MaxCalls
  BY DEF GiveUp, IInv
<1> HIDE DEF q
<1>5. Ladder(q)
  BY <1>1, <1>3 DEF CallOK, Ladder
<1>6. Times(q)
  BY <1>1, <1>3 DEF CallOK, Times, Done
<1>7. q.waited > 0 \/ MostAttempts[q.op] * q.slowest >= ClientLimit
  <2>1. call[c].waited + call[c].worked = ClientLimit
    BY DEF GiveUp, Age
  <2>2. /\ call[c].worked <= MostAttempts[call[c].op] * call[c].slowest
        /\ MostAttempts[call[c].op] * call[c].slowest \in Nat
    BY <1>1, <1>2, WorkBounded
  <2>3. call[c].waited \in Nat /\ call[c].worked \in Nat /\ ClientLimit \in Nat
    BY <1>1, SidecarAssumption DEF Record
  <2>4. call[c].waited > 0 \/ MostAttempts[call[c].op] * call[c].slowest >= ClientLimit
    BY <2>1, <2>2, <2>3
  <2> QED
    BY <1>3, <2>4
<1>8. Client(q)
  BY <1>2, <1>3, <1>7 DEF Client
<1> QED
  BY <1>a, <1>4, <1>5, <1>6, <1>8, OneCall DEF CallOK

(* Time passes for a call for which nothing is due.                        *)
LEMMA Ages == ASSUME IInv, NEW c \in Calls, ~Due(c) PROVE CallOK(Aged(call[c]))
<1> DEFINE p == call[c]
<1>1. CallOK(p) /\ p \in Record
  BY DEF IInv
<1>2. /\ p.spent \in 0..AttemptLimit /\ p.slowest \in 0..AttemptLimit
      /\ p.waited \in 0..ClientLimit /\ p.worked \in Nat
      /\ AttemptLimit \in Nat /\ ClientLimit \in Nat
      /\ p.tried \in 0..4 /\ p.found \in BOOLEAN
  BY <1>1, SidecarAssumption DEF Record
<1>3. /\ p.pc = "run" => p.spent < AttemptLimit
      /\ p.client = "waiting" => p.waited + p.worked < ClientLimit
  <2>1. /\ p.pc = "run" => p.spent # AttemptLimit
        /\ p.client = "waiting" => p.waited + p.worked # ClientLimit
    BY DEF Due, At, Waiting, Age
  <2>2. p.client = "waiting" => p.waited + p.worked <= ClientLimit
    BY <1>1 DEF CallOK, Times
  <2> HIDE DEF p
  <2> QED
    BY <1>2, <2>1, <2>2
<1> HIDE DEF p
<1>4. CASE p.pc = "run"
  <2> DEFINE slow == Larger(p.slowest, p.spent + 1)
             q == [p EXCEPT !.spent = p.spent + 1, !.worked = p.worked + 1, !.slowest = slow]
  <2>1. slow \in 0..AttemptLimit /\ p.slowest <= slow /\ p.spent + 1 <= slow
    BY <1>2, <1>3, <1>4 DEF Larger
  <2>2. q = Aged(p)
    BY <1>4 DEF Aged
  <2> HIDE DEF slow
  <2>3. p.spent + 1 \in 0..AttemptLimit /\ p.worked + 1 \in Nat
    BY <1>2, <1>3, <1>4
  <2>4. q \in Record
    BY <1>1, <2>1, <2>3 DEF Record
  <2>5. /\ q.pc = "run" /\ q.op = p.op /\ q.client = p.client
        /\ q.ladder = p.ladder /\ q.tried = p.tried /\ q.found = p.found
        /\ q.spent = p.spent + 1 /\ q.waited = p.waited
        /\ q.worked = p.worked + 1 /\ q.slowest = slow
    BY <1>1, <1>4 DEF Record
  <2> HIDE DEF q
  <2>6. Ladder(q)
    BY <1>1, <1>4, <2>5 DEF CallOK, Ladder
  <2>7. Times(q)
    <3>1. Done(p) \in Nat /\ Done(q) = Done(p)
      BY <1>2, <2>5 DEF Done
    <3>2. Done(p) * p.slowest <= Done(p) * slow /\ Done(p) * p.slowest \in Nat
          /\ Done(p) * slow \in Nat
      BY <1>2, <2>1, <3>1, TimesMonotone
    <3>3. p.worked <= Done(p) * p.slowest + p.spent
      BY <1>1 DEF CallOK, Times
    <3>4. q.worked <= Done(q) * q.slowest + q.spent
      BY <1>2, <2>5, <3>1, <3>2, <3>3
    <3>5. q.client = "waiting" => q.waited + q.worked <= ClientLimit
      BY <1>2, <1>3, <2>5
    <3> QED
      BY <2>1, <2>5, <3>4, <3>5 DEF Times
  <2>8. Client(q)
    <3>1. p.client \in {"waiting", "gone"}
      BY <1>1, <1>4 DEF CallOK, Client
    <3>2. p.client = "gone" => p.waited > 0 \/ MostAttempts[p.op] * p.slowest >= ClientLimit
      BY <1>1, <1>4 DEF CallOK, Client
    <3>3. /\ MostAttempts[p.op] * p.slowest <= MostAttempts[p.op] * slow
          /\ MostAttempts[p.op] * p.slowest \in Nat /\ MostAttempts[p.op] * slow \in Nat
      <4>1. MostAttempts[p.op] \in Nat
        BY <1>1, <1>4, AttemptsBounded
      <4> QED
        BY <1>2, <2>1, <4>1, TimesMonotone
    <3>4. q.client = "gone" => q.waited > 0 \/ MostAttempts[q.op] * q.slowest >= ClientLimit
      BY <1>2, <2>5, <3>2, <3>3
    <3> QED
      BY <2>5, <3>1, <3>4 DEF Client
  <2> QED
    BY <2>2, <2>4, <2>6, <2>7, <2>8 DEF CallOK, p
<1>5. CASE p.pc # "run" /\ p.client = "waiting"
  <2> DEFINE q == [p EXCEPT !.waited = p.waited + 1]
  <2>1. q = Aged(p)
    BY <1>5 DEF Aged
  <2>2. p.waited + 1 \in 0..ClientLimit
    BY <1>2, <1>3, <1>5
  <2>3. q \in Record
    BY <1>1, <2>2 DEF Record
  <2>4. /\ q.pc = p.pc /\ q.op = p.op /\ q.client = "waiting"
        /\ q.ladder = p.ladder /\ q.tried = p.tried /\ q.found = p.found
        /\ q.spent = p.spent /\ q.waited = p.waited + 1
        /\ q.worked = p.worked /\ q.slowest = p.slowest
    BY <1>1, <1>5 DEF Record
  <2> HIDE DEF q
  <2>5. Ladder(q)
    BY <1>1, <2>4 DEF CallOK, Ladder
  <2>6. Times(q)
    <3>1. q.waited + q.worked <= ClientLimit
      BY <1>2, <1>3, <1>5, <2>4
    <3> QED
      BY <1>1, <2>4, <3>1 DEF CallOK, Times, Done
  <2>7. Client(q)
    BY <1>1, <1>5, <2>4 DEF CallOK, Client
  <2> QED
    BY <2>1, <2>3, <2>5, <2>6, <2>7 DEF CallOK, p
<1>6. CASE p.pc # "run" /\ p.client # "waiting"
  BY <1>1, <1>6 DEF Aged, p
<1> QED
  BY <1>4, <1>5, <1>6

LEMMA TickStep == ASSUME IInv, Tick PROVE IInv'
<1>1. \A c \in Calls : CallOK(Aged(call[c]))
  BY Ages DEF Tick
<1>2. call' = [c \in Calls |-> Aged(call[c])] /\ sent' \in 0..MaxCalls
  BY DEF Tick, IInv
<1>3. \A c \in Calls : call'[c] = Aged(call[c]) /\ CallOK(call'[c])
  BY <1>1, <1>2
<1>4. call' \in [Calls -> Record]
  BY <1>1, <1>2 DEF CallOK
<1> QED
  BY <1>2, <1>3, <1>4 DEF IInv

LEMMA StepIInv == IInv /\ [Next]_vars => IInv'
<1> SUFFICES ASSUME IInv, [Next]_vars PROVE IInv'
  OBVIOUS
<1>1. CASE UNCHANGED vars
  BY <1>1 DEF vars, IInv
<1>2. CASE Finished
  BY <1>1, <1>2 DEF Finished
<1>3. CASE Tick
  BY <1>3, TickStep
<1>4. ASSUME NEW c \in Calls, Send(c) \/ Take(c) \/ AttemptEnds(c) \/ GiveUp(c)
      PROVE  IInv'
  BY <1>4, SendStep, TakeStep, SucceedsStep, FailsStep, LeavesLadder, MisprintsStep,
     GiveUpStep
     DEF AttemptEnds
<1> QED
  BY <1>1, <1>2, <1>3, <1>4 DEF Next

LEMMA Inductive == Spec => []IInv
BY InitIInv, StepIInv, PTL DEF Spec

-----------------------------------------------------------------------------

LEMMA WithinType ==
    ASSUME NEW q, CallOK(q)
    PROVE  /\ q \in Call
           /\ q.worked <= MostAttempts[q.op] * AttemptLimit
<1>1. q \in Record /\ q.op \in Ops /\ q.worked \in Nat /\ AttemptLimit \in Nat
  BY SidecarAssumption DEF CallOK, Record
<1>2. MostAttempts[q.op] \in Nat /\ MostAttempts[q.op] <= 8
  BY <1>1, RungsType DEF Ops
<1>3. /\ MostAttempts[q.op] * AttemptLimit <= 8 * AttemptLimit
      /\ MostAttempts[q.op] * AttemptLimit \in Nat /\ 8 * AttemptLimit \in Nat
  BY <1>1, <1>2, TimesMonotone
<1>4. q.worked <= MostAttempts[q.op] * AttemptLimit
  <2>1. CASE q.pc = "idle"
    <3>1. q.worked = 0
      BY <2>1 DEF CallOK, Client
    <3> QED
      BY <1>3, <3>1
  <2>2. CASE q.pc # "idle"
    BY <1>1, <1>3, <2>2, WorkBounded
  <2> QED
    BY <2>1, <2>2
<1>5. q.worked \in 0..(8 * AttemptLimit)
  BY <1>1, <1>3, <1>4
<1> QED
  BY <1>1, <1>4, <1>5 DEF Record, Call

(* The calls keep their types.                                             *)
THEOREM TypeCorrect == Spec => []TypeOK
<1>1. IInv => TypeOK
  <2> SUFFICES ASSUME IInv PROVE TypeOK
    OBVIOUS
  <2>1. \A c \in Calls : call[c] \in Call
    BY WithinType DEF IInv
  <2> QED
    BY <2>1 DEF IInv, TypeOK
<1> QED
  BY <1>1, Inductive, PTL

(* A thread of the sidecar works on a call for its attempts' limits at     *)
(* most, whether or not the backend still waits (main.py:112-420).         *)
THEOREM ThreadsAreFreed == Spec => []ThreadBoundedTime
<1>1. IInv => ThreadBoundedTime
  BY WithinType DEF IInv, ThreadBoundedTime
<1> QED
  BY <1>1, Inductive, PTL

(* The backend gives up (sidecar_client.go:48) only on a call that waited  *)
(* for a thread, or of which an attempt took more than its share.          *)
THEOREM InTime == Spec => []InTimeUnlessSlow
<1>1. IInv => InTimeUnlessSlow
  BY DEF IInv, CallOK, Client, InTimeUnlessSlow, At
<1> QED
  BY <1>1, Inductive, PTL

(* /stream answers with the address it has found, although the metadata    *)
(* was refused, ran out of time or could not be read (main.py:305-309);    *)
(* not when it makes no response (main.py:311-317).                        *)
THEOREM AddressIsAnswered == Spec => []FoundIsKept
<1>1. IInv => FoundIsKept
  BY DEF IInv, CallOK, Client, FoundIsKept, At
<1> QED
  BY <1>1, Inductive, PTL

(* A refusal says that every way was tried and none ran out of time.       *)
THEOREM RefusalIsFinal == Spec => []RefusedAfterAll
<1>1. IInv => RefusedAfterAll
  BY DEF IInv, CallOK, Client, RefusedAfterAll
<1> QED
  BY <1>1, Inductive, PTL
=============================================================================
