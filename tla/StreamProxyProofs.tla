------------------------- MODULE StreamProxyProofs -------------------------
(***************************************************************************)
(* What StreamProxy promises, for any number of downloads and requests,    *)
(* any headers, and a movie and a chunk of any size.                       *)
(***************************************************************************)
EXTENDS StreamProxy, TLAPS

-----------------------------------------------------------------------------
(* The range of a reply.                                                   *)

LEMMA LeastBounds ==
    ASSUME NEW a \in Int, NEW b \in Int
    PROVE  Least(a, b) \in Int /\ Least(a, b) <= a /\ Least(a, b) <= b
               /\ Least(a, b) \in {a, b}
  BY DEF Least

LEMMA RangeBounds ==
    ASSUME NEW h \in Header, NEW size \in Nat, ~Refuses(h, size)
    PROVE  /\ RangeStart(h, size) \in 0..(size - 1)
           /\ RangeEnd(h, size) \in Int
           /\ RangeStart(h, size) <= RangeEnd(h, size)
           /\ RangeEnd(h, size) <= size - 1
  <1> /\ h.form \in Forms /\ h.first \in Nat /\ h.last \in Int /\ h.n \in Int
    BY DEF Header
  <1>1. CASE h.form = "suffix"
    BY <1>1 DEF Refuses, RangeStart, RangeEnd, Least
  <1>2. CASE h.form = "blank"
    BY <1>2 DEF Refuses, RangeStart, RangeEnd
  <1>3. CASE h.form = "from"
    BY <1>3 DEF Refuses, RangeStart, RangeEnd
  <1>4. CASE h.form = "closed"
    BY <1>4 DEF Refuses, RangeStart, RangeEnd, Least
  <1> QED
    BY <1>1, <1>2, <1>3, <1>4 DEF Forms, Refuses, Unread

\* What is selected starts at RangeStart and ends at RangeEnd.
LEMMA SelectedBounds ==
    ASSUME NEW h \in Header, NEW size \in Nat, ~Refuses(h, size)
    PROVE  Selected(h, size) = RangeStart(h, size)..RangeEnd(h, size)
  <1> /\ h.form \in Forms /\ h.first \in Nat /\ h.last \in Int /\ h.n \in Int
    BY DEF Header
  <1>0. /\ RangeStart(h, size) \in 0..(size - 1)
        /\ RangeEnd(h, size) \in Int
        /\ RangeEnd(h, size) <= size - 1
    BY RangeBounds
  <1>1. SUFFICES ASSUME NEW b \in 0..(size - 1)
                 PROVE  Selects(h, size, b) <=>
                            RangeStart(h, size) <= b /\ b <= RangeEnd(h, size)
    BY <1>0 DEF Selected
  <1>2. CASE h.form = "suffix"
    BY <1>2 DEF Refuses, RangeStart, RangeEnd, Selects, Least
  <1>3. CASE h.form = "blank"
    BY <1>3 DEF Refuses, RangeStart, RangeEnd, Selects
  <1>4. CASE h.form = "from"
    BY <1>4 DEF Refuses, RangeStart, RangeEnd, Selects
  <1>5. CASE h.form = "closed"
    BY <1>5 DEF Refuses, RangeStart, RangeEnd, Selects, Least
  <1> QED
    BY <1>2, <1>3, <1>4, <1>5 DEF Forms, Refuses, Unread

LEMMA RefusedSelectsNone ==
    ASSUME NEW h \in Header, NEW size \in Nat, Refuses(h, size), ~Unread(h)
    PROVE  Selected(h, size) = {}
  <1> /\ h.form \in Forms /\ h.first \in Nat /\ h.last \in Int /\ h.n \in Int
    BY DEF Header
  <1>1. SUFFICES ASSUME NEW b \in 0..(size - 1), Selects(h, size, b)
                 PROVE  FALSE
    BY DEF Selected
  <1>2. CASE h.form = "suffix"
    BY <1>1, <1>2 DEF Refuses, Selects
  <1>3. CASE h.form = "blank"
    BY <1>1, <1>3 DEF Refuses, Selects
  <1>4. CASE h.form = "from"
    BY <1>1, <1>4 DEF Refuses, Selects
  <1>5. CASE h.form = "closed"
    BY <1>1, <1>5 DEF Refuses, Selects
  <1>6. CASE h.form = "malformed"
    BY <1>1, <1>6 DEF Selects
  <1>7. CASE h.form \in {"list", "unit"}
    BY <1>7 DEF Unread
  <1> QED
    BY <1>2, <1>3, <1>4, <1>5, <1>6, <1>7 DEF Forms

LEMMA ReplyBounds ==
    ASSUME NEW h \in Header, NEW size \in Nat, ~Refuses(h, size)
    PROVE  LET reply == ParseBoundedRange(h, size)
           IN  /\ reply = [ok |-> TRUE, start |-> RangeStart(h, size), end |-> reply.end]
               /\ reply.end \in Int
               /\ RangeStart(h, size) <= reply.end
               /\ reply.end <= RangeEnd(h, size)
               /\ reply.end - RangeStart(h, size) < MaxChunk
               /\ \/ reply.end = RangeEnd(h, size)
                  \/ reply.end - RangeStart(h, size) = MaxChunk - 1
  <1> DEFINE s == RangeStart(h, size)
             e == RangeEnd(h, size)
             c == Least(size - 1, s + MaxChunk - 1)
  <1>1. /\ s \in Int /\ 0 <= s /\ s <= size - 1
        /\ e \in Int /\ s <= e /\ e <= size - 1
        /\ MaxChunk \in Int /\ MaxChunk >= 1
    BY RangeBounds, MaxChunkAssumption
  <1>2. ParseBoundedRange(h, size) = [ok |-> TRUE, start |-> s, end |-> Least(e, c)]
    BY DEF ParseBoundedRange
  <1> HIDE DEF s, e
  <1>3. c \in Int /\ c <= size - 1 /\ c <= s + MaxChunk - 1
            /\ c \in {size - 1, s + MaxChunk - 1}
    BY <1>1, LeastBounds
  <1> HIDE DEF c
  <1>4. Least(e, c) \in Int /\ Least(e, c) <= e /\ Least(e, c) <= c
            /\ Least(e, c) \in {e, c}
    BY <1>1, <1>3, LeastBounds
  <1>5. s <= Least(e, c)
    BY <1>1, <1>3, <1>4
  <1>6. Least(e, c) = e \/ Least(e, c) - s = MaxChunk - 1
    BY <1>1, <1>3, <1>4
  <1> QED
    BY <1>1, <1>2, <1>3, <1>4, <1>5, <1>6 DEF s, e

\* For every header, size of file and size of chunk, parseBoundedRange answers as
\* RFC 9110 selects, cut to one chunk, or refuses a header that it does not read: a list,
\* another unit, a number past int64.
THEOREM RangeAnswers ==
    ASSUME NEW h \in Header, NEW size \in Nat
    PROVE  Answers(ParseBoundedRange(h, size), h, size)
  <1> DEFINE reply == ParseBoundedRange(h, size)
  <1>1. CASE Refuses(h, size)
    <2>1. reply = Refused
      BY <1>1 DEF ParseBoundedRange
    <2> QED
      BY <1>1, <2>1, RefusedSelectsNone DEF Answers, Refused
  <1>2. CASE ~Refuses(h, size)
    <2> DEFINE s == RangeStart(h, size)
               e == RangeEnd(h, size)
               t == reply.end
    <2>1. /\ s \in Int /\ e \in Int /\ s <= e
          /\ reply.ok /\ reply.start = s
      BY <1>2, RangeBounds, ReplyBounds
    <2>2. /\ t \in Int /\ s <= t /\ t <= e /\ t - s < MaxChunk
          /\ t = e \/ t - s = MaxChunk - 1
      BY <1>2, ReplyBounds
    <2>3. Selected(h, size) = s..e
      BY <1>2, SelectedBounds
    <2> HIDE DEF s, e, t
    <2>4. /\ s \in s..e
          /\ \A b \in s..e : s <= b
          /\ s..t \subseteq s..e
          /\ \/ \A b \in s..e : b <= t
             \/ t - s = MaxChunk - 1
      BY <2>1, <2>2
    <2> QED
      BY <2>1, <2>2, <2>3, <2>4 DEF Answers, t
  <1> QED
    BY <1>1, <1>2

-----------------------------------------------------------------------------
(* Types.                                                                  *)

LEMMA FullNat == Full \in Nat /\ Full >= 1 /\ NoFile \notin Tasks
  BY DownloadAssumption

LEMMA DownloadTypes ==
    ASSUME DownloadTypeOK, NEW t \in Tasks, DownloadStep(t)
    PROVE  DownloadTypeOK'
  <1> USE FullNat DEF DownloadTypeOK, Statuses, Workers, Processes, WorkerTo, SetStatus,
          Runs
  <1>1. CASE StartDownload(t)
    BY <1>1 DEF StartDownload
  <1>2. CASE Begin(t)
    BY <1>2 DEF Begin
  <1>3. CASE YtdlpSkips(t)
    BY <1>3 DEF YtdlpSkips
  <1>4. CASE YtdlpCreates(t)
    BY <1>4 DEF YtdlpCreates
  <1>5. CASE YtdlpAppends(t)
    BY <1>5 DEF YtdlpAppends
  <1>6. CASE YtdlpCompletes(t)
    BY <1>6 DEF YtdlpCompletes
  <1>7. CASE YtdlpFails(t)
    BY <1>7 DEF YtdlpFails
  <1>8. CASE Wait(t)
    BY <1>8 DEF Wait
  <1>9. CASE CheckFile(t)
    BY <1>9 DEF CheckFile
  <1>10. CASE MarkFailed(t)
    BY <1>10 DEF MarkFailed
  <1>11. CASE RemoveFile(t)
    BY <1>11 DEF RemoveFile
  <1>12. CASE ReadingFails(t)
    BY <1>12 DEF ReadingFails
  <1> QED
    BY <1>1, <1>2, <1>3, <1>4, <1>5, <1>6, <1>7, <1>8, <1>9, <1>10, <1>11, <1>12
    DEF DownloadStep

LEMMA RestartTypes ==
    ASSUME DownloadTypeOK, Restart
    PROVE  DownloadTypeOK'
  BY DEF DownloadTypeOK, Restart, Statuses, Workers, Processes

(* Slot r changes to q, the others stay.                                   *)
LEMMA Slots ==
    ASSUME TypeOK, NEW r \in Requests, NEW q \in Request \cup {NoRequest},
           req' = [req EXCEPT ![r] = q]
    PROVE  /\ req' \in [Requests -> Request \cup {NoRequest}]
           /\ req'[r] = q
           /\ \A s \in Requests \ {r} : req'[s] = req[s]
  BY DEF TypeOK

\* What the range of a reply can be, when the file has some of the Full pieces.
LEMMA ReplyTypes ==
    ASSUME NEW h \in Headers, NEW size \in 0..Full, ParseBoundedRange(h, size).ok
    PROVE  LET reply == ParseBoundedRange(h, size)
           IN  /\ reply \in [ok : BOOLEAN, start : 0..(Full - 1), end : 0..(Full - 1)]
               /\ reply.end < size
  <1> DEFINE reply == ParseBoundedRange(h, size)
             s == RangeStart(h, size)
             e == reply.end
  <1>0. h \in Header /\ size \in Nat /\ Full \in Nat /\ size <= Full
    BY ProxyAssumption, FullNat
  <1>1. ~Refuses(h, size)
    BY DEF ParseBoundedRange, Refused
  <1>2. s \in Int /\ 0 <= s /\ s <= size - 1 /\ RangeEnd(h, size) <= size - 1
            /\ RangeEnd(h, size) \in Int
    BY <1>0, <1>1, RangeBounds
  <1>3. /\ reply = [ok |-> TRUE, start |-> s, end |-> e]
        /\ e \in Int /\ s <= e /\ e <= RangeEnd(h, size)
    BY <1>0, <1>1, ReplyBounds
  <1> HIDE DEF s, e, reply
  <1>4. s \in 0..(Full - 1) /\ e \in 0..(Full - 1) /\ e < size
    BY <1>0, <1>2, <1>3
  <1>5. reply \in [ok : BOOLEAN, start : 0..(Full - 1), end : 0..(Full - 1)]
    BY <1>3, <1>4
  <1> QED
    BY <1>4, <1>5 DEF reply, e

(* What is in a slot, by its program counter.                              *)
LEMMA InSlot ==
    ASSUME TypeOK, NEW r \in Requests, ~At(r, "idle")
    PROVE  /\ req[r] \in Request
           /\ req[r].pc \in {"fstat", "serve", "copy"} =>
                 req[r].file \in Tasks /\ req[r].size \in 0..Full
           /\ req[r].pc = "copy" => req[r].header \in Headers
  BY DEF TypeOK, At, NoRequest, Request

LEMMA ProxyTypes ==
    ASSUME TypeOK, NEW r \in Requests, ProxyStep(r)
    PROVE  TypeOK'
  <1>0. MaxRequests \in Nat /\ Full \in Nat
    BY ProxyAssumption, FullNat
  <1>1. ASSUME NEW q \in Request \cup {NoRequest}, req' = [req EXCEPT ![r] = q],
               UNCHANGED downloadVars, progress' \in 0..Full,
               started' \in 0..MaxRequests
        PROVE  TypeOK'
    BY <1>1, Slots DEF TypeOK, DownloadTypeOK, downloadVars
  <1>2. progress \in 0..Full /\ started \in 0..MaxRequests
    BY DEF TypeOK
  <1>3. \A pc \in {"stat", "open", "source", "relay"} : [pc |-> pc] \in Request
    BY DEF Request
  <1>4. CASE Start(r)
    <2>1. started + 1 \in 0..MaxRequests
      BY <1>0, <1>2, <1>4 DEF Start
    <2> QED
      BY <1>1, <1>2, <1>3, <1>4, <2>1 DEF Start, To
  <1>5. CASE StatPath(r)
    BY <1>1, <1>2, <1>3, <1>5 DEF StatPath, To
  <1>6. CASE OpenFile(r)
    <2>1. CASE path # NoFile
      <3>1. path \in Tasks
        BY <2>1 DEF TypeOK, DownloadTypeOK
      <3>2. [pc |-> "fstat", file |-> path, size |-> 0] \in Request
        BY <3>1, <1>0 DEF Request
      <3> QED
        BY <1>1, <1>2, <1>6, <2>1, <3>2 DEF OpenFile
    <2>2. CASE path = NoFile
      BY <1>1, <1>2, <1>3, <1>6, <2>2 DEF OpenFile, To
    <2> QED
      BY <2>1, <2>2
  <1>7. CASE CacheFails(r)
    BY <1>1, <1>2, <1>3, <1>7 DEF CacheFails, To
  <1>8. CASE StatFile(r)
    <2>1. req[r] \in [pc : {"fstat", "serve"}, file : Tasks, size : 0..Full]
      BY <1>8, InSlot DEF StatFile, At, Request
    <2>2. pieces[req[r].file] \in 0..Full
      BY <2>1 DEF TypeOK, DownloadTypeOK
    <2> DEFINE q == [req[r] EXCEPT !.pc = "serve", !.size = pieces[req[r].file]]
    <2>3. q \in Request
      BY <2>1, <2>2 DEF Request
    <2>4. req' = [req EXCEPT ![r] = q]
      BY <1>8 DEF StatFile
    <2> QED
      BY <1>1, <1>2, <1>8, <2>3, <2>4 DEF StatFile
  <1>9. CASE ServeBounded(r)
    <2>1. req[r].file \in Tasks /\ req[r].size \in 0..Full
      BY <1>9, InSlot DEF ServeBounded, At
    <2>2. PICK h \in Headers :
              LET reply == ParseBoundedRange(h, req[r].size)
              IN  IF reply.ok
                  THEN req' = [req EXCEPT ![r] = [pc |-> "copy", file |-> req[r].file,
                                                  size |-> req[r].size, header |-> h,
                                                  reply |-> reply]]
                  ELSE Respond(r)
      BY <1>9 DEF ServeBounded
    <2>3. CASE ParseBoundedRange(h, req[r].size).ok
      <3>1. [pc |-> "copy", file |-> req[r].file, size |-> req[r].size, header |-> h,
             reply |-> ParseBoundedRange(h, req[r].size)] \in Request
        BY <2>1, <2>3, ReplyTypes DEF Request
      <3> QED
        BY <1>1, <1>2, <1>9, <2>1, <2>2, <2>3, <3>1 DEF ServeBounded
    <2>4. CASE ~ParseBoundedRange(h, req[r].size).ok
      BY <1>1, <1>2, <1>9, <2>1, <2>2, <2>4 DEF ServeBounded, Respond
    <2> QED
      BY <2>3, <2>4
  <1>10. CASE CopyBytes(r)
    BY <1>1, <1>2, <1>10 DEF CopyBytes, Respond
  <1>11. CASE FromSource(r)
    BY <1>1, <1>2, <1>3, <1>11 DEF FromSource, To, Respond
  <1>12. CASE RelaySource(r)
    BY <1>1, <1>2, <1>12 DEF RelaySource, Respond
  <1> QED
    BY <1>4, <1>5, <1>6, <1>7, <1>8, <1>9, <1>10, <1>11, <1>12 DEF ProxyStep

LEMMA InitTypes == Init => TypeOK
  <1> SUFFICES ASSUME Init
               PROVE  TypeOK
    OBVIOUS
  <1>1. DownloadTypeOK
    <2>1. 0 \in 0..Full
      BY FullNat
    <2>2. pieces \in [Tasks -> 0..Full]
      BY <2>1 DEF Init, DownloadInit
    <2>3. /\ path \in Tasks \cup {NoFile}
          /\ status \in [Tasks -> Statuses]
          /\ worker \in [Tasks -> Workers]
          /\ ytdlp \in [Tasks -> Processes]
          /\ orphans \subseteq Tasks
          /\ spoilt \in BOOLEAN
      BY DEF Init, DownloadInit, Statuses, Workers, Processes
    <2> QED
      BY <2>2, <2>3 DEF DownloadTypeOK
  <1>2. req \in [Requests -> Request \cup {NoRequest}]
    BY DEF Init
  <1>3. progress \in 0..Full /\ started \in 0..MaxRequests
    BY FullNat, ProxyAssumption DEF Init
  <1> QED
    BY <1>1, <1>2, <1>3 DEF TypeOK

LEMMA NextTypes == TypeOK /\ [Next]_vars => TypeOK'
  <1> SUFFICES ASSUME TypeOK, [Next]_vars
               PROVE  TypeOK'
    OBVIOUS
  <1>1. ASSUME NEW t \in Tasks, DownloadStep(t), UNCHANGED proxyVars
        PROVE  TypeOK'
    BY <1>1, DownloadTypes DEF TypeOK, proxyVars
  <1>2. CASE Restart /\ UNCHANGED proxyVars
    BY <1>2, RestartTypes DEF TypeOK, proxyVars
  <1>3. ASSUME NEW r \in Requests, ProxyStep(r)
        PROVE  TypeOK'
    BY <1>3, ProxyTypes
  <1>4. CASE UNCHANGED vars
    BY <1>4 DEF vars, downloadVars, proxyVars, TypeOK, DownloadTypeOK
  <1> QED
    BY <1>1, <1>2, <1>3, <1>4 DEF Next, Finished

\* The file, the tasks and the requests keep their types; a reply stays within it.
THEOREM TypeCorrect == Spec => []TypeOK
  BY InitTypes, NextTypes, PTL DEF Spec

-----------------------------------------------------------------------------
(* What is served.                                                         *)

(* A request knows no more of its file than the file has, and the reply is *)
(* what parseBoundedRange makes of that.                                   *)
Honest(q) ==
    /\ q.pc \in {"serve", "copy"} => q.size <= pieces[q.file]
    /\ q.pc = "copy" => q.reply.ok /\ q.reply = ParseBoundedRange(q.header, q.size)

HonestRequests == \A r \in Requests : Honest(req[r])

\* No step takes a piece away from a file.
LEMMA FilesGrow ==
    ASSUME TypeOK, [Next]_vars, NEW t \in Tasks
    PROVE  pieces[t] <= pieces'[t]
  <1>1. pieces[t] \in 0..Full /\ Full \in Nat
    BY FullNat DEF TypeOK, DownloadTypeOK
  <1>2. ASSUME NEW u \in Tasks, YtdlpAppends(u)
        PROVE  pieces[t] <= pieces'[t]
    BY <1>1, <1>2 DEF YtdlpAppends, TypeOK, DownloadTypeOK
  <1>3. ASSUME NEW u \in Tasks, DownloadStep(u), ~YtdlpAppends(u)
        PROVE  pieces' = pieces
    BY <1>3 DEF DownloadStep, StartDownload, Begin, YtdlpSkips, YtdlpCreates,
        YtdlpCompletes, YtdlpFails, Wait, ReadingFails, CheckFile, MarkFailed, RemoveFile
  <1>4. ASSUME NEW r \in Requests, ProxyStep(r)
        PROVE  pieces' = pieces
    BY <1>4 DEF ProxyStep, Start, StatPath, OpenFile, CacheFails, StatFile, ServeBounded,
        CopyBytes, FromSource, RelaySource, downloadVars
  <1>5. Restart => pieces' = pieces
    BY DEF Restart
  <1>6. UNCHANGED vars => pieces' = pieces
    BY DEF vars, downloadVars
  <1> QED
    BY <1>1, <1>2, <1>3, <1>4, <1>5, <1>6 DEF Next, Finished

LEMMA HonestStays ==
    ASSUME TypeOK, [Next]_vars, NEW r \in Requests, Honest(req[r]), req'[r] = req[r]
    PROVE  Honest(req[r])'
  <1>1. CASE req[r].pc \in {"serve", "copy"}
    <2>1. req[r].file \in Tasks /\ req[r].size \in 0..Full
      BY <1>1, InSlot DEF At
    <2>2. pieces[req[r].file] <= pieces'[req[r].file]
      BY <2>1, FilesGrow
    <2>3. pieces[req[r].file] \in Int /\ pieces'[req[r].file] \in Int
      BY <2>1, NextTypes DEF TypeOK, DownloadTypeOK
    <2>4. req[r].size <= pieces'[req[r].file]
      BY <1>1, <2>1, <2>2, <2>3 DEF Honest
    <2> QED
      BY <2>4 DEF Honest
  <1>2. CASE req[r].pc \notin {"serve", "copy"}
    BY <1>2 DEF Honest
  <1> QED
    BY <1>1, <1>2

LEMMA HonestStep ==
    ASSUME TypeOK, NEW r \in Requests, Honest(req[r]), ProxyStep(r)
    PROVE  Honest(req[r])'
  <1>0. req \in [Requests -> Request \cup {NoRequest}]
    BY DEF TypeOK
  <1>1. ASSUME NEW q, q.pc \notin {"serve", "copy"}, req' = [req EXCEPT ![r] = q]
        PROVE  Honest(req[r])'
    BY <1>0, <1>1 DEF Honest
  <1>2. NoRequest.pc \notin {"serve", "copy"}
    BY DEF NoRequest
  <1>3. CASE Start(r) \/ StatPath(r) \/ CacheFails(r) \/ CopyBytes(r)
                 \/ FromSource(r) \/ RelaySource(r)
    BY <1>1, <1>2, <1>3
    DEF Start, StatPath, CacheFails, CopyBytes, FromSource, RelaySource, To, Respond
  <1>4. CASE OpenFile(r)
    BY <1>1, <1>4 DEF OpenFile, To
  <1>5. CASE StatFile(r)
    <2>1. req[r] \in [pc : {"fstat", "serve"}, file : Tasks, size : 0..Full]
      BY <1>5, InSlot DEF StatFile, At, Request
    <2>2. /\ req'[r].pc = "serve"
          /\ req'[r].file = req[r].file
          /\ req'[r].size = pieces[req[r].file]
          /\ pieces' = pieces
      BY <1>0, <1>5, <2>1 DEF StatFile, downloadVars
    <2>3. pieces[req[r].file] \in Int
      BY <2>1, FullNat DEF TypeOK, DownloadTypeOK
    <2> QED
      BY <2>2, <2>3 DEF Honest
  <1>6. CASE ServeBounded(r)
    <2>1. PICK h \in Headers :
              LET reply == ParseBoundedRange(h, req[r].size)
              IN  IF reply.ok
                  THEN req' = [req EXCEPT ![r] = [pc |-> "copy", file |-> req[r].file,
                                                  size |-> req[r].size, header |-> h,
                                                  reply |-> reply]]
                  ELSE Respond(r)
      BY <1>6 DEF ServeBounded
    <2>2. CASE ParseBoundedRange(h, req[r].size).ok
      <3>1. req'[r] = [pc |-> "copy", file |-> req[r].file, size |-> req[r].size,
                       header |-> h, reply |-> ParseBoundedRange(h, req[r].size)]
        BY <1>0, <2>1, <2>2
      <3>2. pieces' = pieces /\ req[r].size <= pieces[req[r].file]
        BY <1>6 DEF ServeBounded, downloadVars, Honest, At
      <3> QED
        BY <2>2, <3>1, <3>2 DEF Honest
    <2>3. CASE ~ParseBoundedRange(h, req[r].size).ok
      BY <1>1, <1>2, <2>1, <2>3 DEF Respond
    <2> QED
      BY <2>2, <2>3
  <1> QED
    BY <1>3, <1>4, <1>5, <1>6 DEF ProxyStep

LEMMA ProxyOthers ==
    ASSUME TypeOK, NEW r \in Requests, ProxyStep(r), NEW s \in Requests \ {r}
    PROVE  req'[s] = req[s]
  BY DEF ProxyStep, Start, StatPath, OpenFile, CacheFails, StatFile, ServeBounded,
     CopyBytes, FromSource, RelaySource, To, Respond, TypeOK

LEMMA HonestNext == TypeOK /\ HonestRequests /\ [Next]_vars => HonestRequests'
  <1> SUFFICES ASSUME TypeOK, HonestRequests, [Next]_vars, NEW r \in Requests
               PROVE  Honest(req[r])'
    BY DEF HonestRequests
  <1>1. Honest(req[r])
    BY DEF HonestRequests
  <1>2. CASE req'[r] = req[r]
    BY <1>1, <1>2, HonestStays
  <1>3. CASE req'[r] # req[r]
    <2>1. PICK s \in Requests : ProxyStep(s)
      BY <1>3 DEF Next, Finished, vars, proxyVars
    <2>2. s = r
      BY <1>3, <2>1, ProxyOthers
    <2> QED
      BY <1>1, <2>1, <2>2, HonestStep
  <1> QED
    BY <1>2, <1>3

LEMMA HonestAlways == Spec => []HonestRequests
  <1>1. Init => HonestRequests
    BY DEF Init, HonestRequests, Honest, NoRequest
  <1> QED
    BY <1>1, HonestNext, TypeCorrect, PTL DEF Spec

LEMMA HonestServes == TypeOK /\ HonestRequests => RangeServed /\ PromiseKept
  <1> SUFFICES ASSUME TypeOK, HonestRequests, NEW r \in Requests, At(r, "copy")
               PROVE  /\ Answers(req[r].reply, req[r].header, req[r].size)
                      /\ req[r].reply.end < pieces[req[r].file]
    BY DEF RangeServed, PromiseKept
  <1> DEFINE q == req[r]
  <1>1. q.header \in Headers /\ q.file \in Tasks /\ q.size \in 0..Full
    BY InSlot DEF At
  <1>2. q.header \in Header /\ q.size \in Nat
    BY <1>1, FullNat, ProxyAssumption
  <1>3. /\ q.reply = ParseBoundedRange(q.header, q.size)
        /\ ParseBoundedRange(q.header, q.size).ok
        /\ q.size <= pieces[q.file]
    BY DEF HonestRequests, Honest, At
  <1>4. Answers(q.reply, q.header, q.size)
    BY <1>2, <1>3, RangeAnswers
  <1>5. q.reply.end < q.size /\ q.reply.end \in 0..(Full - 1)
    BY <1>1, <1>3, ReplyTypes
  <1>6. pieces[q.file] \in 0..Full
    BY <1>1 DEF TypeOK, DownloadTypeOK
  <1>7. q.reply.end < pieces[q.file]
    BY <1>1, <1>3, <1>5, <1>6, FullNat
  <1> QED
    BY <1>4, <1>7

\* Every reply from the cache carries what its header selects, cut to one chunk.
THEOREM RangesAreServed == Spec => []RangeServed
  BY HonestAlways, HonestServes, TypeCorrect, PTL

\* A length that was promised is there to be sent, whatever downloads do meanwhile.
THEOREM PromisesAreKept == Spec => []PromiseKept
  BY HonestAlways, HonestServes, TypeCorrect, PTL

-----------------------------------------------------------------------------
(* What downloads leave behind.                                            *)

(* Where a task stands: its status, its thread and its process in step.    *)
InStep(t) ==
    /\ worker[t] \in {"none", "begin"} => ytdlp[t] = "none"
    /\ ytdlp[t] \in {"extracting", "writing"} => worker[t] = "wait" \/ t \in orphans
    /\ worker[t] = "check" => ytdlp[t] = "ok"
    /\ worker[t] = "none" => status[t] = "unknown"
    /\ worker[t] = "begin" => status[t] = "pending"
    /\ worker[t] \in {"wait", "check", "fail"} => status[t] = "downloading"
    /\ worker[t] = "remove" => status[t] = "failed"

(* A file that is not whole has somebody who will complete or remove it, or *)
(* had and lost him.                                                       *)
Tended(t) ==
    path = t =>
        /\ ytdlp[t] \notin {"none", "extracting"}
        /\ \/ spoilt
           \/ t \in orphans
           \/ pieces[t] = Full
           \/ ytdlp[t] = "writing"
           \/ ytdlp[t] = "error" /\ worker[t] \in {"wait", "fail", "remove"}

DInv == /\ \A t \in Tasks : InStep(t) /\ Tended(t)
        /\ LostOnlyToFailure

LEMMA DInvStep ==
    ASSUME TypeOK, DInv, NEW t \in Tasks, DownloadStep(t)
    PROVE  DInv'
  <1> /\ path \in Tasks \cup {NoFile} /\ NoFile \notin Tasks
      /\ pieces \in [Tasks -> 0..Full]
      /\ status \in [Tasks -> Statuses]
      /\ worker \in [Tasks -> Workers]
      /\ ytdlp \in [Tasks -> Processes]
    BY FullNat DEF TypeOK, DownloadTypeOK
  <1> USE DEF DInv, InStep, Tended, LostOnlyToFailure, WorkerTo, SetStatus, Runs
  <1>1. CASE StartDownload(t)
    BY <1>1 DEF StartDownload
  <1>2. CASE Begin(t)
    BY <1>2 DEF Begin
  <1>3. CASE YtdlpSkips(t)
    BY <1>3 DEF YtdlpSkips
  <1>4. CASE YtdlpCreates(t)
    BY <1>4 DEF YtdlpCreates
  <1>5. CASE YtdlpAppends(t)
    BY <1>5 DEF YtdlpAppends
  <1>6. CASE YtdlpCompletes(t)
    BY <1>6 DEF YtdlpCompletes
  <1>7. CASE YtdlpFails(t)
    BY <1>7 DEF YtdlpFails
  <1>8. CASE Wait(t)
    BY <1>8 DEF Wait
  <1>9. CASE CheckFile(t)
    BY <1>9 DEF CheckFile, FileThere
  <1>10. CASE MarkFailed(t)
    BY <1>10 DEF MarkFailed
  <1>11. CASE RemoveFile(t)
    BY <1>11 DEF RemoveFile
  <1>12. CASE ReadingFails(t)
    BY <1>12 DEF ReadingFails
  <1> QED
    BY <1>1, <1>2, <1>3, <1>4, <1>5, <1>6, <1>7, <1>8, <1>9, <1>10, <1>11, <1>12
    DEF DownloadStep

LEMMA DInvRestart ==
    ASSUME TypeOK, DInv, Restart
    PROVE  DInv'
  <1> /\ path \in Tasks \cup {NoFile} /\ NoFile \notin Tasks
      /\ worker \in [Tasks -> Workers]
      /\ ytdlp \in [Tasks -> Processes]
    BY FullNat DEF TypeOK, DownloadTypeOK
  <1> QED
    BY DEF Restart, DInv, InStep, Tended, LostOnlyToFailure

LEMMA DInvAlways == Spec => []DInv
  <1>1. Init => DInv
    BY FullNat DEF Init, DownloadInit, DInv, InStep, Tended, LostOnlyToFailure
  <1>2. TypeOK /\ DInv /\ [Next]_vars => DInv'
    <2> SUFFICES ASSUME TypeOK, DInv, [Next]_vars
                 PROVE  DInv'
      OBVIOUS
    <2>1. ASSUME NEW t \in Tasks, DownloadStep(t)
          PROVE  DInv'
      BY <2>1, DInvStep
    <2>2. CASE Restart
      BY <2>2, DInvRestart
    <2>3. CASE UNCHANGED downloadVars
      BY <2>3 DEF downloadVars, DInv, InStep, Tended, LostOnlyToFailure
    <2>4. ASSUME NEW r \in Requests, ProxyStep(r)
          PROVE  UNCHANGED downloadVars
      BY <2>4 DEF ProxyStep, Start, StatPath, OpenFile, CacheFails, StatFile,
         ServeBounded, CopyBytes, FromSource, RelaySource
    <2>5. CASE UNCHANGED vars
      BY <2>3, <2>5 DEF vars
    <2> QED
      BY <2>1, <2>2, <2>3, <2>4, <2>5 DEF Next, Finished
  <1> QED
    BY <1>1, <1>2, TypeCorrect, PTL DEF Spec

LEMMA DInvWhole == TypeOK /\ DInv => WholeOrNone
  <1> SUFFICES ASSUME TypeOK, DInv, \A t \in Tasks : Ended(t), ~spoilt, path # NoFile,
                      path \notin orphans
               PROVE  pieces[path] = Full
    BY DEF WholeOrNone
  <1>1. path \in Tasks
    BY DEF TypeOK, DownloadTypeOK
  <1>2. InStep(path) /\ Tended(path) /\ worker[path] \in {"none", "over"}
    BY <1>1 DEF DInv, Ended
  <1> QED
    BY <1>2 DEF InStep, Tended

\* However downloads of a movie cross, what they leave is a whole movie or nothing, but
\* for a restart, a file that could not be removed, and a yt-dlp that was given up.
THEOREM WholeOrNothing == Spec => []WholeOrNone
  BY DInvAlways, DInvWhole, TypeCorrect, PTL

\* What was downloaded is there until another download fails.
THEOREM LostToFailures == Spec => []LostOnlyToFailure
  <1>1. DInv => LostOnlyToFailure
    BY DEF DInv
  <1> QED
    BY <1>1, DInvAlways, PTL
=============================================================================
