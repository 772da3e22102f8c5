-------------------------------- MODULE Chat --------------------------------
(***************************************************************************)
(* The chat of one room: messages that are sent over a socket              *)
(* (src/internal/handler/ws_handler.go) or by REST                         *)
(* (src/internal/service/room_service.go), the table they are kept in, and *)
(* a reader who follows the room on a socket and pages through what was    *)
(* said before (src/internal/repository/chat_repo.go).                     *)
(*                                                                         *)
(* A message has the second it is stored under: created_at is a DATETIME.  *)
(* The hub is reduced to its channel and to whether the reader's socket is *)
(* registered; a socket that is too slow is one that disconnects.  How a   *)
(* reader walks through the pages is not in src/: by the cursor or by the  *)
(* numbers of the answer's meta, the two ways the endpoint offers.         *)
(***************************************************************************)
EXTENDS Naturals, FiniteSets

CONSTANTS
    Messages,       \* the messages that may be sent
    DefaultPerPage, \* 50 in the code
    MaxPerPage,     \* 100 in the code
    Asked,          \* the values of per_page that readers ask for
    MaxTime         \* bound: seconds

ASSUME ChatAssumption ==
    /\ IsFiniteSet(Messages)
    /\ DefaultPerPage \in Nat \ {0}
    /\ MaxPerPage \in Nat /\ DefaultPerPage <= MaxPerPage
    /\ Asked \subseteq Nat /\ Asked # {}
    /\ MaxTime \in Nat

VARIABLES
    now,            \* the clock, in seconds
    msg,            \* the messages
    joined,         \* the reader's socket is registered
    live,           \* what the socket has shown
    reader          \* the walk through the history

chatVars == <<now, msg, joined, live, reader>>

-----------------------------------------------------------------------------

Seconds == 0..MaxTime

(* A message is made, inserted, put into the hub's channel and delivered;  *)
(* by REST it is inserted only.                                            *)
Message == [pc : {"none", "made", "stored", "sent", "delivered"},
            by : {"socket", "rest"}, sec : Seconds, row : BOOLEAN]

NoMessage == [pc |-> "none", by |-> "socket", sec |-> 0, row |-> FALSE]

Rows == {m \in Messages : msg[m].row}

Ways == {"before", "page"}

\* before is the cursor, past all seconds at first; base, which rows were there when
\* the walk began, since whether the socket was registered from then on, and crossed
\* whether a row came between a count and its page, are history.
Reader == [pc : {"idle", "count", "find", "done"}, way : Ways, asked : Asked,
           page : Nat, before : 0..(MaxTime + 1), total : Nat,
           seen : SUBSET Messages, base : SUBSET Messages,
           since : BOOLEAN, crossed : BOOLEAN]

NoWalk == [pc |-> "idle", way |-> "before", asked |-> CHOOSE n \in Asked : TRUE,
           page |-> 1, before |-> 0, total |-> 0, seen |-> {}, base |-> {},
           since |-> FALSE, crossed |-> FALSE]

ChatInit ==
    /\ now = 0
    /\ msg = [m \in Messages |-> NoMessage]
    /\ joined = FALSE
    /\ live = {}
    /\ reader = NoWalk

Tick ==
    /\ now < MaxTime
    /\ now' = now + 1
    /\ UNCHANGED <<msg, joined, live, reader>>

-----------------------------------------------------------------------------
(* Sending.                                                                *)

At(m, pc) == msg[m].pc = pc

\* time.Now(), before the row is written; an empty text is refused.
Make(m) ==
    /\ At(m, "none")
    /\ \E by \in {"socket", "rest"} :
          msg' = [msg EXCEPT ![m] = [pc |-> "made", by |-> by, sec |-> now, row |-> FALSE]]
    /\ UNCHANGED <<now, joined, live, reader>>

\* A row that comes between a count and its page shifts the pages.
Shift == reader' = [reader EXCEPT !.crossed = @ \/ reader.pc = "find"]

\* chats.Create
Store(m) ==
    /\ At(m, "made")
    /\ msg' = [msg EXCEPT ![m].pc = "stored", ![m].row = TRUE]
    /\ Shift
    /\ UNCHANGED <<now, joined, live>>

\* Mutant: the error is logged and the message shown all the same.
StoreFails_Shown(m) ==
    /\ At(m, "made")
    /\ msg' = [msg EXCEPT ![m].pc = IF msg[m].by = "socket" THEN "sent" ELSE "none"]
    /\ UNCHANGED <<now, joined, live, reader>>

\* The insert fails: an error for REST, a line in the log for a socket.
StoreFails(m) ==
    /\ At(m, "made")
    /\ msg' = [msg EXCEPT ![m] = NoMessage]
    /\ UNCHANGED <<now, joined, live, reader>>

\* Mutant: the message is shown first and kept afterwards.
Broadcast_First(m) ==
    /\ msg[m].by = "socket"
    /\ \/ /\ At(m, "made")
          /\ msg' = [msg EXCEPT ![m].pc = "sent"]
          /\ UNCHANGED reader
       \/ /\ At(m, "delivered")
          /\ ~msg[m].row
          /\ msg' = [msg EXCEPT ![m].row = TRUE]
          /\ Shift
    /\ UNCHANGED <<now, joined, live>>

\* handleChatSend hands the stored message to the hub; SendChat does not.
Broadcast(m) ==
    /\ At(m, "stored")
    /\ msg[m].by = "socket"
    /\ msg' = [msg EXCEPT ![m].pc = "sent"]
    /\ UNCHANGED <<now, joined, live, reader>>

\* The hub sends it to the sockets that are registered by then.
DeliverChat(m) ==
    /\ At(m, "sent")
    /\ msg' = [msg EXCEPT ![m].pc = "delivered"]
    /\ live' = IF joined THEN live \cup {m} ELSE live
    /\ UNCHANGED <<now, joined, reader>>

-----------------------------------------------------------------------------
(* The reader's socket.                                                    *)

Connect ==
    /\ ~joined
    /\ joined' = TRUE
    /\ live' = {}
    /\ UNCHANGED <<now, msg, reader>>

Disconnect ==
    /\ joined
    /\ joined' = FALSE
    /\ reader' = [reader EXCEPT !.since = FALSE]
    /\ UNCHANGED <<now, msg, live>>

-----------------------------------------------------------------------------
(* The history: Chats and ListByRoom.                                      *)

\* What the repository makes of per_page, and what Chats reports of it.
Clamped(n) == IF n = 0 \/ n > MaxPerPage THEN DefaultPerPage ELSE n

Reported(n) == IF n = 0 THEN DefaultPerPage ELSE n

\* The rows of the query.
Matching == {m \in Rows : msg[m].sec < reader.before}

Positions(from, to) == {i \in 1..Cardinality(Messages) : from < i /\ i <= to}

\* Mutant: the oldest come first.
Page_Oldest(S) ==
    LET from == (reader.page - 1) * Clamped(reader.asked)
    IN  \A t \in Seconds :
           Cardinality({m \in S : msg[m].sec = t}) =
              Cardinality(Positions(from, from + Clamped(reader.asked))
                 \cap Positions(Cardinality({m \in Matching : msg[m].sec < t}),
                                Cardinality({m \in Matching : msg[m].sec <= t})))

\* S may be the page: as many rows of each second as the positions of that second,
\* newest first, share with those of the page.  Which of them is the database's choice.
Page(S) ==
    LET from == (reader.page - 1) * Clamped(reader.asked)
    IN  \A t \in Seconds :
           Cardinality({m \in S : msg[m].sec = t}) =
              Cardinality(Positions(from, from + Clamped(reader.asked))
                 \cap Positions(Cardinality({m \in Matching : msg[m].sec > t}),
                                Cardinality({m \in Matching : msg[m].sec >= t})))

\* The walk begins with the newest page.
Begin ==
    /\ reader.pc \in {"idle", "done"}
    /\ \E way \in Ways, asked \in Asked :
          reader' = [pc |-> "count", way |-> way, asked |-> asked, page |-> 1,
                     before |-> MaxTime + 1, total |-> 0, seen |-> {}, base |-> Rows,
                     since |-> joined, crossed |-> FALSE]
    /\ UNCHANGED <<now, msg, joined, live>>

\* query.Count
Count ==
    /\ reader.pc = "count"
    /\ reader' = [reader EXCEPT !.pc = "find", !.total = Cardinality(Matching)]
    /\ UNCHANGED <<now, msg, joined, live>>

\* What the reader makes of the page S: the next one by its number, until the meta
\* says that there is none ...
NextPage(S) ==
    /\ reader.way = "page"
    /\ reader' = IF reader.page * Reported(reader.asked) >= reader.total
                 THEN [reader EXCEPT !.seen = @ \cup S, !.pc = "done"]
                 ELSE [reader EXCEPT !.seen = @ \cup S, !.pc = "count", !.page = @ + 1]

\* ... or the one before the oldest second of S, until nothing comes.
NextCursor(S) ==
    /\ reader.way = "before"
    /\ \/ /\ S = {}
          /\ reader' = [reader EXCEPT !.pc = "done"]
       \/ \E t \in Seconds :
             /\ \E m \in S : msg[m].sec = t
             /\ \A m \in S : t <= msg[m].sec
             /\ reader' = [reader EXCEPT !.seen = @ \cup S, !.pc = "count", !.before = t]

\* query.Find
Find ==
    /\ reader.pc = "find"
    /\ \E S \in SUBSET Matching : Page(S) /\ (NextPage(S) \/ NextCursor(S))
    /\ UNCHANGED <<now, msg, joined, live>>

\* An error ends the walk.
Abort ==
    /\ reader.pc \in {"count", "find"}
    /\ reader' = NoWalk
    /\ UNCHANGED <<now, msg, joined, live>>

-----------------------------------------------------------------------------

Sending(m) == Make(m) \/ Store(m) \/ StoreFails(m) \/ Broadcast(m) \/ DeliverChat(m)

Reading == Connect \/ Disconnect \/ Begin \/ Count \/ Find \/ Abort

ChatNext == Tick \/ (\E m \in Messages : Sending(m)) \/ Reading

ChatSpec == ChatInit /\ [][ChatNext]_chatVars

-----------------------------------------------------------------------------
(* Properties.                                                             *)

ChatTypeOK ==
    /\ now \in Seconds
    /\ msg \in [Messages -> Message]
    /\ joined \in BOOLEAN
    /\ live \subseteq Messages
    /\ reader \in Reader

\* Another row of m's second was shown, or the database ordered them anew.
Tied(m) == \E n \in reader.seen \ {m} : msg[n].sec = msg[m].sec

\* A walk to the end shows every message that was there when it began, however many
\* come meanwhile, except: one of a second that was cut by a page; by numbers, one that
\* a row pushed past the last page after it was counted, or when per_page is over the
\* maximum, which the answer reports as it was asked.
HistoryComplete ==
    reader.pc = "done" =>
        \A m \in reader.base \ reader.seen :
            \/ Tied(m)
            \/ reader.way = "page" /\ reader.crossed
            \/ reader.way = "page" /\ Reported(reader.asked) # Clamped(reader.asked)

\* Nothing falls between the two: who was registered when the walk began, and still
\* is, has on the socket every message of a socket that was not in the table then.
ShownSomewhere ==
    reader.since =>
        \A m \in Rows \ reader.base :
            msg[m].by = "socket" /\ At(m, "delivered") => m \in live

\* What a socket has shown is there after a reload.
SavedBeforeShown == live \subseteq Rows
=============================================================================
