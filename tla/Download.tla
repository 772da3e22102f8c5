------------------------------ MODULE Download ------------------------------
(***************************************************************************)
(* Downloads of one movie by the sidecar (src/sidecar/main.py): POST       *)
(* /download registers a task in memory and starts a thread, _do_download, *)
(* which runs yt-dlp and judges what it leaves.  All tasks of a movie      *)
(* write to one path, in a volume that the Go proxy reads.                 *)
(*                                                                         *)
(* A file is known by the task whose yt-dlp created it, and by how many of *)
(* the movie's Full pieces it holds: --no-part lets it grow in place, and  *)
(* a file that was removed lives on for who has it open.                   *)
(*                                                                         *)
(* yt-dlp is external.  It leaves a file alone that is there, else creates *)
(* one and appends; it exits with 0 when it found a file or wrote a whole  *)
(* one, and may do so without a file at the path, which the code checks.   *)
(***************************************************************************)
EXTENDS Naturals

CONSTANTS
    Tasks,          \* the downloads that are started: a bound in a run
    NoFile,         \* nothing is at the path
    Full            \* the pieces of the movie

ASSUME DownloadAssumption ==
    /\ NoFile \notin Tasks
    /\ Full \in Nat \ {0}

VARIABLES
    path,           \* the file at cache_path, by the task that created it
    pieces,         \* what each file holds
    status,         \* download_tasks, as GET /status answers
    worker,         \* the thread of each task
    ytdlp,          \* its process
    orphans,        \* history: tasks that failed while their yt-dlp went on
    spoilt          \* history: the sidecar crashed, or a removal failed

downloadVars == <<path, pieces, status, worker, ytdlp, orphans, spoilt>>

(* unknown is a 404 of get_status.                                         *)
Statuses == {"unknown", "pending", "downloading", "done", "failed"}

Workers == {"none", "begin", "wait", "check", "fail", "remove", "over"}

Processes == {"none", "extracting", "writing", "ok", "error"}

Ended(t) == worker[t] \in {"none", "over"}

DownloadInit ==
    /\ path = NoFile
    /\ pieces = [t \in Tasks |-> 0]
    /\ status = [t \in Tasks |-> "unknown"]
    /\ worker = [t \in Tasks |-> "none"]
    /\ ytdlp = [t \in Tasks |-> "none"]
    /\ orphans = {}
    /\ spoilt = FALSE

WorkerTo(t, pc) == worker' = [worker EXCEPT ![t] = pc]

SetStatus(t, s) == status' = [status EXCEPT ![t] = s]

Runs(t, p) == ytdlp' = [ytdlp EXCEPT ![t] = p]

StartDownload(t) ==
    /\ worker[t] = "none"
    /\ ytdlp[t] = "none"
    /\ status[t] = "unknown"
    /\ SetStatus(t, "pending")
    /\ WorkerTo(t, "begin")
    /\ UNCHANGED <<path, pieces, ytdlp, orphans, spoilt>>

\* update(status="downloading"), then Popen, which may raise.
Begin(t) ==
    /\ worker[t] = "begin"
    /\ SetStatus(t, "downloading")
    /\ \/ WorkerTo(t, "wait") /\ Runs(t, "extracting")
       \/ WorkerTo(t, "fail") /\ UNCHANGED ytdlp
    /\ UNCHANGED <<path, pieces, orphans, spoilt>>

-----------------------------------------------------------------------------
(* yt-dlp.                                                                 *)

\* It exits without having written: a file is there, or is none of its making.
YtdlpSkips(t) ==
    /\ ytdlp[t] = "extracting"
    /\ Runs(t, "ok")
    /\ UNCHANGED <<path, pieces, status, worker, orphans, spoilt>>

YtdlpCreates(t) ==
    /\ ytdlp[t] = "extracting"
    /\ path = NoFile
    /\ path' = t
    /\ Runs(t, "writing")
    /\ UNCHANGED <<pieces, status, worker, orphans, spoilt>>

YtdlpAppends(t) ==
    /\ ytdlp[t] = "writing"
    /\ pieces[t] < Full
    /\ pieces' = [pieces EXCEPT ![t] = @ + 1]
    /\ UNCHANGED <<path, status, worker, ytdlp, orphans, spoilt>>

YtdlpCompletes(t) ==
    /\ ytdlp[t] = "writing"
    /\ pieces[t] = Full
    /\ Runs(t, "ok")
    /\ UNCHANGED <<path, pieces, status, worker, orphans, spoilt>>

\* At any time: the network, the disk, the site.
YtdlpFails(t) ==
    /\ ytdlp[t] \in {"extracting", "writing"}
    /\ Runs(t, "error")
    /\ UNCHANGED <<path, pieces, status, worker, orphans, spoilt>>

-----------------------------------------------------------------------------
(* The end of _do_download.                                                *)

\* The loop over stdout ends with the process: there is no timeout.
Wait(t) ==
    /\ worker[t] = "wait"
    /\ \/ ytdlp[t] = "ok" /\ WorkerTo(t, "check")
       \/ ytdlp[t] = "error" /\ WorkerTo(t, "fail")
    /\ UNCHANGED <<path, pieces, status, ytdlp, orphans, spoilt>>

\* A line of stdout that cannot be decoded, or whose percentage is no number: the task
\* fails, and nobody kills yt-dlp.
ReadingFails(t) ==
    /\ worker[t] = "wait"
    /\ WorkerTo(t, "fail")
    /\ orphans' = IF ytdlp[t] \in {"extracting", "writing"} THEN orphans \cup {t}
                  ELSE orphans
    /\ UNCHANGED <<path, pieces, status, ytdlp, spoilt>>

\* os.path.isfile and getsize look at whatever is at the path now.
FileThere == path # NoFile /\ pieces[path] > 0

\* Mutant: whether a file is there is not asked.
CheckFile_Trusts(t) ==
    /\ worker[t] = "check"
    /\ SetStatus(t, "done")
    /\ WorkerTo(t, "over")
    /\ UNCHANGED <<path, pieces, ytdlp, orphans, spoilt>>

CheckFile(t) ==
    /\ worker[t] = "check"
    /\ \/ /\ FileThere
          /\ SetStatus(t, "done")
          /\ WorkerTo(t, "over")
       \/ /\ ~FileThere
          /\ WorkerTo(t, "fail")
          /\ UNCHANGED status
    /\ UNCHANGED <<path, pieces, ytdlp, orphans, spoilt>>

\* Mutant: nothing is removed.
MarkFailed_Keeps(t) ==
    /\ worker[t] = "fail"
    /\ SetStatus(t, "failed")
    /\ WorkerTo(t, "over")
    /\ UNCHANGED <<path, pieces, ytdlp, orphans, spoilt>>

MarkFailed(t) ==
    /\ worker[t] = "fail"
    /\ SetStatus(t, "failed")
    /\ WorkerTo(t, "remove")
    /\ UNCHANGED <<path, pieces, ytdlp, orphans, spoilt>>

\* os.remove, whoever wrote the file; an OSError is ignored.
RemoveFile(t) ==
    /\ worker[t] = "remove"
    /\ \/ path' = NoFile /\ UNCHANGED spoilt
       \/ path # NoFile /\ spoilt' = TRUE /\ UNCHANGED path
    /\ WorkerTo(t, "over")
    /\ UNCHANGED <<pieces, status, ytdlp, orphans>>

\* The container restarts: the tasks and the processes are gone, the volume not.
Restart ==
    /\ spoilt' = TRUE
    /\ status' = [t \in Tasks |-> "unknown"]
    /\ worker' = [t \in Tasks |-> IF worker[t] = "none" THEN "none" ELSE "over"]
    /\ ytdlp' = [t \in Tasks |-> IF ytdlp[t] \in {"extracting", "writing"}
                                  THEN "error" ELSE ytdlp[t]]
    /\ UNCHANGED <<path, pieces, orphans>>

DownloadStep(t) ==
    \/ StartDownload(t)
    \/ Begin(t)
    \/ YtdlpSkips(t)
    \/ YtdlpCreates(t)
    \/ YtdlpAppends(t)
    \/ YtdlpCompletes(t)
    \/ YtdlpFails(t)
    \/ Wait(t)
    \/ ReadingFails(t)
    \/ CheckFile(t)
    \/ MarkFailed(t)
    \/ RemoveFile(t)

DownloadTypeOK ==
    /\ path \in Tasks \cup {NoFile}
    /\ pieces \in [Tasks -> 0..Full]
    /\ status \in [Tasks -> Statuses]
    /\ worker \in [Tasks -> Workers]
    /\ ytdlp \in [Tasks -> Processes]
    /\ orphans \subseteq Tasks
    /\ spoilt \in BOOLEAN
=============================================================================
