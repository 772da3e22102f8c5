------------------------------ MODULE Sidecar ------------------------------
(***************************************************************************)
(* The calls of the backend to the sidecar: src/sidecar/main.py handles    *)
(* each on a thread of a pool, trying yt-dlp in one way after another,     *)
(* each with a limit of time; src/internal/service/sidecar_client.go waits *)
(* for the answer up to a limit of its own.  A thread does not notice that *)
(* its client is gone.                                                     *)
(*                                                                         *)
(* Time passes in units for all at once (Tick), and never past a limit     *)
(* that has to be acted on.  The pool of threads is the framework's.       *)
(***************************************************************************)
EXTENDS Naturals, FiniteSets

CONSTANTS
    Calls,          \* the calls that are handled or waited for at once
    Threads,        \* the threads of the pool
    AttemptLimit,   \* timeout=30 of each subprocess.run
    ClientLimit,    \* Timeout of the http.Client: 120 s
    MaxCalls        \* bound: calls that are sent

ASSUME SidecarAssumption ==
    /\ Threads \in Nat \ {0}
    /\ AttemptLimit \in Nat \ {0}
    /\ ClientLimit \in Nat \ {0}
    /\ MaxCalls \in Nat

VARIABLES
    call,           \* the calls
    sent            \* for the bound

vars == <<call, sent>>

(* POST /extract, /stream and /formats.                                    *)
Ops == {"extract", "stream", "formats"}

(* The ladders of attempts: addresses by yt-dlp -g, metadata by            *)
(* run_ytdlp_json, formats.                                                *)
Ladders == {"urls", "json", "formats"}

\* Mutant: two more ways to ask for the metadata.
Rungs_TwoMore == [urls |-> 5, json |-> 5, formats |-> 2]

Rungs == [urls |-> 5, json |-> 3, formats |-> 2]

\* Mutant: /extract asks for an address first, as /stream does.
FirstLadder_Address == [extract |-> "urls", stream |-> "urls", formats |-> "formats"]

FirstLadder == [extract |-> "json", stream |-> "urls", formats |-> "formats"]

\* The most attempts a call makes: /stream asks for the metadata last.
MostAttempts == [extract |-> 3, stream |-> 8, formats |-> 2]

(* 200, 422, 504, and two kinds of 500: an exception of an attempt, and    *)
(* metadata of which no response can be made.                              *)
Answers == {"ok", "refused", "timedOut", "broken", "malformed"}

Clients == {"none", "waiting", "gone"} \cup Answers

(* tried and spent are the attempts made on the ladder and the time of the *)
(* present one; found says that /stream has an address.  For the           *)
(* properties: the time in the queue and on the thread, and the longest    *)
(* attempt.                                                                *)
Call == [pc : {"idle", "queued", "run"}, op : Ops, client : Clients,
         ladder : Ladders, tried : 0..4, spent : 0..AttemptLimit, found : BOOLEAN,
         waited : 0..ClientLimit, worked : 0..(8 * AttemptLimit),
         slowest : 0..AttemptLimit]

NoCall == [pc |-> "idle", op |-> "extract", client |-> "none", ladder |-> "json",
           tried |-> 0, spent |-> 0, found |-> FALSE,
           waited |-> 0, worked |-> 0, slowest |-> 0]

At(c, pc) == call[c].pc = pc

Waiting(c) == call[c].client = "waiting"

Init ==
    /\ call = [c \in Calls |-> NoCall]
    /\ sent = 0

\* client.Post
Send(c) ==
    /\ At(c, "idle")
    /\ sent < MaxCalls
    /\ sent' = sent + 1
    /\ \E op \in Ops :
          call' = [call EXCEPT ![c] = [NoCall EXCEPT !.pc = "queued", !.op = op,
                                                     !.client = "waiting",
                                                     !.ladder = FirstLadder[op]]]

\* A thread is free and takes the call, although its client may be gone.
Take(c) ==
    /\ At(c, "queued")
    /\ Cardinality({d \in Calls : At(d, "run")}) < Threads
    /\ call' = [call EXCEPT ![c].pc = "run"]
    /\ UNCHANGED sent

-----------------------------------------------------------------------------
(* The end of an attempt.                                                  *)

\* The answer is sent to who still waits for it, and the thread is free.
Answer(c, a) ==
    call' = [call EXCEPT ![c].pc = "idle", ![c].spent = 0, ![c].waited = 0,
                         ![c].worked = 0, ![c].slowest = 0,
                         ![c].client = IF Waiting(c) THEN a ELSE "gone"]

\* Mutant: an error of the metadata is the stream's.
AnswerFailed_Loses(c, a) == Answer(c, a)

\* The answer after a ladder that failed: the exceptions of run_ytdlp_json are caught
\* for a stream.
AnswerFailed(c, a) == Answer(c, IF call[c].found THEN "ok" ELSE a)

\* yt-dlp printed what was asked for; a stream goes on to the metadata.
Succeeds(c) ==
    /\ At(c, "run")
    /\ IF call[c].ladder = "urls"
       THEN call' = [call EXCEPT ![c].ladder = "json", ![c].found = TRUE,
                                 ![c].tried = 0, ![c].spent = 0]
       ELSE Answer(c, "ok")
    /\ UNCHANGED sent

Rung(c) == call[c].tried + 1

\* It exited with an error, or printed nothing: the next way, or RuntimeError.
Fails(c) ==
    /\ At(c, "run")
    /\ IF Rung(c) < Rungs[call[c].ladder]
       THEN call' = [call EXCEPT ![c].tried = Rung(c), ![c].spent = 0]
       ELSE AnswerFailed(c, "refused")
    /\ UNCHANGED sent

\* Mutant: an attempt that runs out of time is an attempt that failed.
TimesOut_Refuses(c) ==
    /\ At(c, "run")
    /\ call[c].spent = AttemptLimit
    /\ AnswerFailed(c, "refused")
    /\ UNCHANGED sent

\* Mutant: an attempt that runs out of time is made again.
TimesOut_Again(c) ==
    /\ At(c, "run")
    /\ call[c].spent = AttemptLimit
    /\ call' = [call EXCEPT ![c].spent = 0, ![c].worked = 0]
    /\ UNCHANGED sent

\* TimeoutExpired leaves the ladder.
TimesOut(c) ==
    /\ At(c, "run")
    /\ call[c].spent = AttemptLimit
    /\ AnswerFailed(c, "timedOut")
    /\ UNCHANGED sent

\* Any other exception, as of json.loads, does too.
Breaks(c) ==
    /\ At(c, "run")
    /\ AnswerFailed(c, "broken")
    /\ UNCHANGED sent

\* What was printed is metadata without a title, or of other types: the response is
\* made outside of the try that catches for a stream.
Misprints(c) ==
    /\ At(c, "run")
    /\ call[c].ladder # "urls"
    /\ Answer(c, "malformed")
    /\ UNCHANGED sent

-----------------------------------------------------------------------------
(* Time.                                                                   *)

Age(c) == call[c].waited + call[c].worked

\* The http.Client gives up; the handler of the sidecar goes on.
GiveUp(c) ==
    /\ Waiting(c)
    /\ Age(c) = ClientLimit
    /\ call' = [call EXCEPT ![c].client = "gone"]
    /\ UNCHANGED sent

\* Something has to be done before time goes on.
Due(c) ==
    \/ At(c, "run") /\ call[c].spent = AttemptLimit
    \/ Waiting(c) /\ Age(c) = ClientLimit

Larger(a, b) == IF a >= b THEN a ELSE b

Aged(q) ==
    IF q.pc = "run"
    THEN [q EXCEPT !.spent = q.spent + 1, !.worked = q.worked + 1,
                   !.slowest = Larger(q.slowest, q.spent + 1)]
    ELSE IF q.client = "waiting"
    THEN [q EXCEPT !.waited = q.waited + 1]
    ELSE q

Tick ==
    /\ \E c \in Calls : At(c, "run") \/ Waiting(c)
    /\ \A c \in Calls : ~Due(c)
    /\ call' = [c \in Calls |-> Aged(call[c])]
    /\ UNCHANGED sent

-----------------------------------------------------------------------------

AttemptEnds(c) == Succeeds(c) \/ Fails(c) \/ TimesOut(c) \/ Breaks(c) \/ Misprints(c)

Finished ==
    /\ sent = MaxCalls
    /\ \A c \in Calls : At(c, "idle")
    /\ UNCHANGED vars

Next ==
    \/ \E c \in Calls : Send(c) \/ Take(c) \/ AttemptEnds(c) \/ GiveUp(c)
    \/ Tick
    \/ Finished

Spec == Init /\ [][Next]_vars

\* Time goes on, a limit is acted on, and the threads take calls in their order,
\* so that none is passed over for ever.
FairSpec ==
    /\ Spec
    /\ WF_vars(Tick)
    /\ \A c \in Calls : WF_vars(TimesOut(c)) /\ WF_vars(GiveUp(c)) /\ SF_vars(Take(c))

-----------------------------------------------------------------------------
(* Properties.                                                             *)

TypeOK ==
    /\ call \in [Calls -> Call]
    /\ sent \in 0..MaxCalls

\* A thread is busy with a call for no longer than its attempts may take, also
\* for a client that is gone: eight limits for /stream, with its metadata.
ThreadBoundedTime ==
    \A c \in Calls : call[c].worked <= MostAttempts[call[c].op] * AttemptLimit

\* On a thread that is free at once, and with no attempt slower than its share of
\* the client's limit (15 s for /stream), no client gives up.
InTimeUnlessSlow ==
    \A c \in Calls : call[c].client = "gone" /\ ~At(c, "idle") =>
        \/ call[c].waited > 0
        \/ MostAttempts[call[c].op] * call[c].slowest >= ClientLimit

\* An address that was found is not lost when the metadata is refused, runs out of time
\* or cannot be read: only when it can, and makes no response.
FoundIsKept ==
    \A c \in Calls : call[c].found /\ At(c, "idle") =>
        call[c].client \in {"ok", "malformed", "gone"}

\* A refusal (422) comes when every way was tried, and not when one ran out of time.
RefusedAfterAll ==
    \A c \in Calls : call[c].client = "refused" =>
        call[c].tried + 1 = Rungs[call[c].ladder]

\* Every call ends on both sides: the backend has an answer or has given up, and no
\* thread is left with the call.
CallEnds == \A c \in Calls : ~At(c, "idle") ~> At(c, "idle") /\ ~Waiting(c)

=============================================================================
