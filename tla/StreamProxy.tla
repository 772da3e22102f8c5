---------------------------- MODULE StreamProxy ----------------------------
(***************************************************************************)
(* GET of a movie's stream (src/internal/handler/proxy_handler.go): from   *)
(* the file in the cache when there is one, in bounded ranges, else from   *)
(* the address of its source.  The downloads of Download.tla work on the   *)
(* same file, in another process.  One system call is one step.            *)
(***************************************************************************)
EXTENDS Download, BoundedRange

CONSTANTS
    Requests,       \* the requests that are handled at once
    Headers,        \* the Range headers that are sent
    MaxRequests     \* bound: requests that are started

ASSUME ProxyAssumption ==
    /\ Headers \subseteq Header
    /\ MaxRequests \in Nat

VARIABLES
    req,            \* what each slot is doing
    progress,       \* externalCacheProgresses: Downloaded and Total, which agree
    started         \* for the bound

proxyVars == <<req, progress, started>>

vars == <<downloadVars, proxyVars>>

NoRequest == [pc |-> "idle"]

(* What a request holds: the file it has open, what Stat said of its size, *)
(* and, once it is read, the header with the range of the reply.           *)
Request ==
    [pc : {"stat", "open", "source", "relay"}]
        \cup [pc : {"fstat", "serve"}, file : Tasks, size : 0..Full]
        \cup [pc : {"copy"}, file : Tasks, size : 0..Full, header : Headers,
              reply : [ok : BOOLEAN, start : 0..(Full - 1), end : 0..(Full - 1)]]

At(r, pc) == req[r].pc = pc

To(r, pc) == req' = [req EXCEPT ![r] = [pc |-> pc]]

Respond(r) == req' = [req EXCEPT ![r] = NoRequest]

Init ==
    /\ DownloadInit
    /\ req = [r \in Requests |-> NoRequest]
    /\ progress = 0
    /\ started = 0

Start(r) ==
    /\ At(r, "idle")
    /\ started < MaxRequests
    /\ started' = started + 1
    /\ To(r, "stat")
    /\ UNCHANGED <<downloadVars, progress>>

\* cacheFileExists
StatPath(r) ==
    /\ At(r, "stat")
    /\ To(r, IF path # NoFile THEN "open" ELSE "source")
    /\ UNCHANGED <<downloadVars, progress, started>>

\* Open fails when the file was removed meanwhile: on to the source.
OpenFile(r) ==
    /\ At(r, "open")
    /\ IF path # NoFile
       THEN req' = [req EXCEPT ![r] = [pc |-> "fstat", file |-> path, size |-> 0]]
       ELSE To(r, "source")
    /\ UNCHANGED <<downloadVars, progress, started>>

\* Open, Stat or Seek fails.
CacheFails(r) ==
    /\ req[r].pc \in {"open", "fstat", "serve"}
    /\ To(r, "source")
    /\ UNCHANGED <<downloadVars, progress, started>>

\* Mutant: the size is that of whatever is at the path.
StatFile_ByPath(r) ==
    /\ At(r, "fstat")
    /\ IF path # NoFile
       THEN req' = [req EXCEPT ![r].pc = "serve", ![r].size = pieces[path]]
       ELSE To(r, "source")
    /\ UNCHANGED <<downloadVars, progress, started>>

StatFile(r) ==
    /\ At(r, "fstat")
    /\ req' = [req EXCEPT ![r].pc = "serve", ![r].size = pieces[req[r].file]]
    /\ UNCHANGED <<downloadVars, progress, started>>

\* updateExternalCacheProgress, and the headers: a 206, or a 416 and the end.
ServeBounded(r) ==
    /\ At(r, "serve")
    /\ progress' = req[r].size
    /\ \E h \in Headers :
          LET reply == ParseBoundedRange(h, req[r].size)
          IN  IF reply.ok
              THEN req' = [req EXCEPT ![r] = [pc |-> "copy", file |-> req[r].file,
                                              size |-> req[r].size, header |-> h,
                                              reply |-> reply]]
              ELSE Respond(r)
    /\ UNCHANGED <<downloadVars, started>>

\* io.CopyN of what Content-Length promised.
CopyBytes(r) ==
    /\ At(r, "copy")
    /\ Respond(r)
    /\ UNCHANGED <<downloadVars, progress, started>>

\* GetOriginalPath has an address, or the answer is a 202 "pending".
FromSource(r) ==
    /\ At(r, "source")
    /\ To(r, "relay") \/ Respond(r)
    /\ UNCHANGED <<downloadVars, progress, started>>

\* proxyStreamURL: what the source answers, or a 502.
RelaySource(r) ==
    /\ At(r, "relay")
    /\ Respond(r)
    /\ UNCHANGED <<downloadVars, progress, started>>

ProxyStep(r) ==
    \/ Start(r)
    \/ StatPath(r)
    \/ OpenFile(r)
    \/ CacheFails(r)
    \/ StatFile(r)
    \/ ServeBounded(r)
    \/ CopyBytes(r)
    \/ FromSource(r)
    \/ RelaySource(r)

\* All that is bounded was used, and nothing is under way.
Finished ==
    /\ started = MaxRequests
    /\ \A r \in Requests : At(r, "idle")
    /\ \A t \in Tasks : worker[t] = "over"
    /\ UNCHANGED vars

Next ==
    \/ \E t \in Tasks : DownloadStep(t) /\ UNCHANGED proxyVars
    \/ Restart /\ UNCHANGED proxyVars
    \/ \E r \in Requests : ProxyStep(r)
    \/ Finished

Spec == Init /\ [][Next]_vars

-----------------------------------------------------------------------------
(* Properties.                                                             *)

TypeOK ==
    /\ DownloadTypeOK
    /\ req \in [Requests -> Request \cup {NoRequest}]
    /\ progress \in 0..Full
    /\ started \in 0..MaxRequests

\* Whatever the header asks for (a suffix longer than the file, an end past it, a
\* start at its end) and however much of the file is there, the reply carries the
\* first bytes of those that the header selects, and no more than a chunk.
RangeServed ==
    \A r \in Requests : At(r, "copy") =>
        Answers(req[r].reply, req[r].header, req[r].size)

\* Content-Range and Content-Length stay true until the body is sent, although the
\* file grows, is removed, or gives way to another after it was looked at.
PromiseKept ==
    \A r \in Requests : At(r, "copy") => req[r].reply.end < pieces[req[r].file]

\* The downloads cross in any order, and each of them may remove or find what
\* another wrote.  Once they are over, unless the sidecar restarted or a removal
\* failed, the proxy finds a whole movie or none, or what the yt-dlp of a task writes
\* that had given up on it.
WholeOrNone ==
    (\A t \in Tasks : Ended(t)) /\ ~spoilt =>
        path = NoFile \/ path \in orphans \/ pieces[path] = Full

\* What a task reported as done goes only when another one fails.
LostOnlyToFailure ==
    \A t \in Tasks : status[t] = "done" /\ path = NoFile /\ ~spoilt =>
        \E u \in Tasks : status[u] = "failed"
=============================================================================
