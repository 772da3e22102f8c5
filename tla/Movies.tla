------------------------------- MODULE Movies -------------------------------
(***************************************************************************)
(* One movie from its creation on: its row in movies, the requests that    *)
(* change it (src/internal/service/movie_service.go) and the stream        *)
(* requests, which ask the sidecar for an address and keep the answer in   *)
(* the row (src/internal/handler/media_source_provider.go).  One statement *)
(* or call is one step.                                                    *)
(*                                                                         *)
(* An address is a number, given out in turn by the sidecar, 0 is a NULL   *)
(* original_path.  The title stands for all that an owner can change.      *)
(***************************************************************************)
EXTENDS Naturals

CONSTANTS
    Requests,       \* the slots requests are handled in: how many run at once
    MaxRequests,    \* bound: requests that are started
    MaxTitles,      \* bound: titles that are chosen
    MaxUrls         \* bound: addresses the sidecar gives out

ASSUME MoviesAssumption ==
    /\ MaxRequests \in Nat
    /\ MaxTitles \in Nat \ {0}
    /\ MaxUrls \in Nat \ {0}

VARIABLES
    row,            \* the row of the movie
    req,            \* what each slot is doing
    titles, urls, started,  \* for the bounds
    newest,         \* history: the address the last stream request got
    stale,          \* history: the slots that read the row before it was saved
    crossed         \* history: one of them has answered, or a Save failed

vars == <<row, req, titles, urls, started, newest, stale, crossed>>

history == <<newest, stale, crossed>>

Ops == {"stream", "update", "delete"}

Titles == 1..MaxTitles

Urls == 0..MaxUrls

Row == [deleted : BOOLEAN, title : Titles, path : Urls]

(* row is what was read, from Find on, and what is to be written.          *)
Request == [pc : {"find", "ask", "save", "delete"}, op : Ops, row : Row]

NoRequest == [pc |-> "idle"]

At(r, pc) == req[r].pc = pc

\* It has read the row, and may write it back.
Carries(r) == req[r].pc \in {"ask", "save"}

Respond(r) == req' = [req EXCEPT ![r] = NoRequest]

\* CreateExternal stores the movie without an address when the sidecar has none.
Init ==
    /\ \E path \in {0, 1} :
          /\ row = [deleted |-> FALSE, title |-> 1, path |-> path]
          /\ urls = path
          /\ newest = path
    /\ req = [r \in Requests |-> NoRequest]
    /\ titles = 1
    /\ started = 0
    /\ stale = {}
    /\ crossed = FALSE

Start(r) ==
    /\ At(r, "idle")
    /\ started < MaxRequests
    /\ started' = started + 1
    /\ \E op \in Ops : req' = [req EXCEPT ![r] = [pc |-> "find", op |-> op, row |-> row]]
    /\ stale' = stale \ {r}
    /\ UNCHANGED <<row, titles, urls, newest, crossed>>

\* A statement fails, the movie is not found, or it is another user's.
Fail(r) ==
    /\ ~At(r, "idle")
    /\ ~(At(r, "save") /\ req[r].op = "stream")
    /\ Respond(r)
    /\ UNCHANGED <<row, titles, urls, started, history>>

Read(r, pc, read) ==
    req' = [req EXCEPT ![r] = [pc |-> pc, op |-> req[r].op, row |-> read]]

\* Mutant: the column deleted_at is not looked at.
Find_Deleted(r) ==
    /\ At(r, "find")
    /\ \/ /\ req[r].op = "stream"
          /\ Read(r, "ask", row)
          /\ UNCHANGED titles
       \/ /\ req[r].op = "update"
          /\ titles < MaxTitles
          /\ titles' = titles + 1
          /\ Read(r, "save", [row EXCEPT !.title = titles + 1])
       \/ /\ req[r].op = "delete"
          /\ Read(r, "delete", row)
          /\ UNCHANGED titles
    /\ UNCHANGED <<row, urls, started, history>>

\* Mutant: what counts is the row as it was when the request came in.
Find_Early(r) ==
    /\ At(r, "find")
    /\ ~row.deleted
    /\ \/ /\ req[r].op = "stream"
          /\ Read(r, "ask", req[r].row)
          /\ UNCHANGED titles
       \/ /\ req[r].op = "update"
          /\ titles < MaxTitles
          /\ titles' = titles + 1
          /\ Read(r, "save", [req[r].row EXCEPT !.title = titles + 1])
       \/ /\ req[r].op = "delete"
          /\ Read(r, "delete", row)
          /\ UNCHANGED titles
    /\ UNCHANGED <<row, urls, started, history>>

Find(r) ==
    /\ At(r, "find")
    /\ ~row.deleted
    /\ \/ /\ req[r].op = "stream"
          /\ Read(r, "ask", row)
          /\ UNCHANGED titles
       \/ /\ req[r].op = "update"
          /\ titles < MaxTitles
          /\ titles' = titles + 1
          /\ Read(r, "save", [row EXCEPT !.title = titles + 1])
       \/ /\ req[r].op = "delete"
          /\ Read(r, "delete", row)
          /\ UNCHANGED titles
    /\ UNCHANGED <<row, urls, started, history>>

-----------------------------------------------------------------------------
(* The sidecar is asked, and its answer kept.                              *)

\* The same address may be given again, or a new one.
Answers == {u \in Urls : u \in 1..urls + 1}

\* Mutant: what is in the row already is kept.
Answer_KeepsFirst(r) ==
    /\ At(r, "ask")
    /\ req[r].row.path # 0
    /\ \E u \in Answers :
          /\ urls' = IF u > urls THEN u ELSE urls
          /\ newest' = u
    /\ Respond(r)
    /\ crossed' = (crossed \/ r \in stale)
    /\ UNCHANGED <<row, titles, started, stale>>

Answer(r) ==
    /\ At(r, "ask")
    /\ req[r].row.path # 0
    /\ \E u \in Answers :
          /\ urls' = IF u > urls THEN u ELSE urls
          /\ IF u = req[r].row.path
             THEN /\ Respond(r)
                  /\ newest' = u
                  /\ crossed' = (crossed \/ r \in stale)
             ELSE /\ Read(r, "save", [req[r].row EXCEPT !.path = u])
                  /\ UNCHANGED <<newest, crossed>>
    /\ UNCHANGED <<row, titles, started, stale>>

\* *movie.OriginalPath is read where it is nil, as it is of a movie whose address
\* CreateExternal did not get: gin recovers, and the address is not kept.
AnswerPanics(r) ==
    /\ At(r, "ask")
    /\ req[r].row.path = 0
    /\ Respond(r)
    /\ UNCHANGED <<row, titles, urls, started, newest, stale, crossed>>

\* The address in the row serves instead, if there is one.
NoAnswer(r) ==
    /\ At(r, "ask")
    /\ Respond(r)
    /\ UNCHANGED <<row, titles, urls, started, history>>

-----------------------------------------------------------------------------
(* Save writes all columns; SoftDelete one.                                *)

Got(r) == IF req[r].op = "stream" THEN req[r].row.path ELSE newest

Save(r) ==
    /\ At(r, "save")
    /\ row' = req[r].row
    /\ newest' = Got(r)
    /\ stale' = (stale \cup {s \in Requests : Carries(s)}) \ {r}
    /\ crossed' = (crossed \/ r \in stale)
    /\ Respond(r)
    /\ UNCHANGED <<titles, urls, started>>

\* A stream request ignores the error, and answers with the address.
SaveFails(r) ==
    /\ At(r, "save")
    /\ req[r].op = "stream"
    /\ newest' = Got(r)
    /\ crossed' = TRUE
    /\ Respond(r)
    /\ UNCHANGED <<row, titles, urls, started, stale>>

SoftDelete(r) ==
    /\ At(r, "delete")
    /\ row' = [row EXCEPT !.deleted = TRUE]
    /\ Respond(r)
    /\ UNCHANGED <<titles, urls, started, history>>

-----------------------------------------------------------------------------

\* Past the bound on requests the system idles.
Served ==
    /\ started = MaxRequests
    /\ \A r \in Requests : At(r, "idle")
    /\ UNCHANGED vars

Step(r) ==
    \/ Start(r) \/ Fail(r) \/ Find(r)
    \/ Answer(r) \/ AnswerPanics(r) \/ NoAnswer(r)
    \/ Save(r) \/ SaveFails(r) \/ SoftDelete(r)

Next == (\E r \in Requests : Step(r)) \/ Served

Spec == Init /\ [][Next]_vars

-----------------------------------------------------------------------------
(* Properties.                                                             *)

\* A movie that could be streamed keeps an address to fall back on, and so does
\* every request that may save it.
TypeOK ==
    /\ row \in Row
    /\ req \in [Requests -> Request \cup {NoRequest}]
    /\ titles \in Titles
    /\ urls \in Urls
    /\ started \in 0..MaxRequests
    /\ newest \in Urls
    /\ stale \subseteq Requests
    /\ crossed \in BOOLEAN
    /\ row.title <= titles
    /\ row.path # 0 <=> newest # 0
    /\ \A r \in Requests : Carries(r) =>
          /\ req[r].row.title <= titles
          /\ req[r].row.path # 0 <=> newest # 0

\* A movie that is deleted, and that no request has read before, is never listed or
\* streamed again.
Gone == row.deleted /\ \A r \in Requests : ~Carries(r)

GoneForGood == [][Gone => Gone']_vars

\* A title that was replaced, and that no request carries, never comes back: neither
\* a stream request nor another edit restores it.
Replaced(t) ==
    /\ t <= titles
    /\ t # row.title
    /\ \A r \in Requests : Carries(r) => req[r].row.title # t

TitleStaysReplaced == [][\A t \in Titles : Replaced(t) => Replaced(t)']_vars

\* The address that the last stream request got is there for the next one when the
\* sidecar is down (media_source_provider.go:48), whatever edits and deletions come
\* before or after it, unless two requests overlapped or the Save failed.
KeptForNextCall == ~crossed => row.path = newest

=============================================================================
