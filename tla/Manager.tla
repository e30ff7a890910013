------------------------------ MODULE Manager -------------------------------
(***************************************************************************)
(* The version manager window (client/manager_main.cpp) and the library    *)
(* calls behind it (client/lib/src/ag_updater.cpp, http_client.cpp).       *)
(*                                                                         *)
(* The window has one thread, which takes messages from a queue; the       *)
(* library has a thread per check, per download and per updater process,   *)
(* which call back and post messages.  Posted messages come before the     *)
(* user's input.  A message box dispatches the messages that are posted    *)
(* while it is open, but the window behind it takes no input.              *)
(*                                                                         *)
(* A version stands for its row; progress and log lines are left out.      *)
(***************************************************************************)
EXTENDS Integers, SequencesExt

CONSTANTS
    Versions,   \* versions the server may have
    Lists,      \* answers to a check: sequences of versions, in any order
    Columns,    \* columns of the list
    Version, Description,   \* two of them
    Key,        \* Key[col][v]: what the column is sorted by, an integer
    None,       \* "no version", "no file"
    Threads,    \* download threads
    Updaters,   \* updater processes
    Haste,      \* what the user does not wait for, see Hurry
    MaxChecks,  \* bound: checks in flight
    MaxRestarts \* bound: times the manager is closed and started again

ASSUME ManagerAssumption ==
    \* names are unique in the server's table
    /\ Lists \subseteq {l \in Seq(Versions) : IsInjective(l)}
    /\ Key \in [Columns -> [Versions -> Int]]
    /\ {Version, Description} \subseteq Columns /\ Version # Description
    /\ None \notin Versions
    /\ MaxChecks \in Nat \ {0} /\ MaxRestarts \in Nat

VARIABLES
    list,           \* the rows of the list view
    marked,         \* the version of the row the user has selected last, None
                    \* once the rows are replaced
    download_on,    \* the Download button is enabled
    refresh_on,     \* the Refresh button is enabled
    showsLog,       \* the text area shows the log of an update
    boxes,          \* the open message boxes, the last one on top: None for an
                    \* error, or the version whose package may be installed
    queue,          \* the messages posted to the window
    g_versions, g_selected, g_sort, g_downloading, g_updating, g_dl_file_path,
    asking,         \* checks that wait for the server
    answering,      \* checks that have replaced g_versions and not posted yet
    dpc, dver,      \* download threads: where each is, its version
    tmp,            \* the file <version>.zip in the temporary directory
    upc, uver,      \* updaters: where each is, the version of its zip
    got,            \* what it reads from it
    restarts

windowVars == <<list, marked, download_on, refresh_on, showsLog, boxes>>
globalVars == <<g_versions, g_selected, g_sort, g_downloading, g_updating, g_dl_file_path>>
checkVars == <<asking, answering>>
downloadVars == <<dpc, dver, tmp>>
updaterVars == <<upc, uver, got>>
vars == <<windowVars, queue, globalVars, checkVars, downloadVars, updaterVars,
          restarts>>

\* The package as announced, another one, half of one, or one that was
\* replaced while it was read.
Contents == {"good", "other", "partial", "mixed", None}
Messages == {"CHECK_ERROR", "CHECK_DONE", "DOWNLOAD_ERROR", "DOWNLOAD_DONE", "UPDATE_DONE"}
DownloadPc == {"idle", "fopen", "receive", "verify", "post_done", "post_error"}
\* An orphan's manager has been closed: nobody hears of its end.
UpdaterPc == {"idle", "spawned", "running", "spawned_orphan", "running_orphan"}

\* What sort_versions_locked may make of s: std::sort is not stable.
Sortings(s, sort) ==
    LET precedes(v, w) == IF sort.desc THEN Key[sort.col][v] > Key[sort.col][w]
                                       ELSE Key[sort.col][v] < Key[sort.col][w]
    IN  {t \in SetToSeqs(ToSet(s)) : \A i, j \in DOMAIN t : precedes(t[i], t[j]) => i < j}

Running(u) == upc[u] \in {"running", "running_orphan"}
Spawned(u) == upc[u] \in {"spawned", "spawned_orphan"}
Post(m) == queue' = Append(queue, m)

-----------------------------------------------------------------------------
(* WinMain up to the message loop: ag_cleanup_temp and the first refresh.   *)

Init ==
    /\ list = <<>> /\ marked = None
    /\ download_on = FALSE /\ refresh_on = TRUE
    /\ showsLog = FALSE /\ boxes = <<>> /\ queue = <<>>
    /\ g_versions = <<>> /\ g_selected = 0
    /\ g_sort = [col |-> Version, desc |-> TRUE]
    /\ g_downloading = FALSE /\ g_updating = FALSE /\ g_dl_file_path = None
    /\ asking = 1 /\ answering = 0
    /\ dpc = [d \in Threads |-> "idle"] /\ dver = [d \in Threads |-> None]
    /\ tmp = [v \in Versions |-> None]
    /\ upc = [u \in Updaters |-> "idle"] /\ uver = [u \in Updaters |-> None]
    /\ got = [u \in Updaters |-> None]
    /\ restarts = 0

\* A zip that an updater has open cannot be removed.
Removed(v) == IF \E u \in Updaters : Running(u) /\ uver[u] = v THEN tmp[v] ELSE None

-----------------------------------------------------------------------------
(* ag_check_update and on_check_callback, on a thread per check.            *)

CheckFails ==
    /\ asking > 0
    /\ asking' = asking - 1
    /\ Post("CHECK_ERROR")
    /\ UNCHANGED <<windowVars, globalVars, answering, downloadVars, updaterVars, restarts>>

\* The list is as the server sent it until the window sorts it.
CheckAnswers ==
    /\ asking > 0
    /\ asking' = asking - 1 /\ answering' = answering + 1
    /\ g_versions' \in Lists
    /\ UNCHANGED <<windowVars, queue, g_selected, g_sort, g_downloading, g_updating,
                   g_dl_file_path, downloadVars, updaterVars, restarts>>

PostCheckDone ==
    /\ answering > 0
    /\ answering' = answering - 1
    /\ Post("CHECK_DONE")
    /\ UNCHANGED <<windowVars, globalVars, asking, downloadVars, updaterVars, restarts>>

-----------------------------------------------------------------------------
(* ag_download_update, http_download and on_download_callback.              *)

DownloadGoto(d, l) == dpc' = [dpc EXCEPT ![d] = l]

DownloadFrame == UNCHANGED <<windowVars, checkVars, upc, uver, restarts>>

\* The final callback clears g_downloading under the lock, and posts after it.
Failed(d) ==
    /\ g_downloading' = FALSE
    /\ DownloadGoto(d, "post_error")
    /\ UNCHANGED <<g_versions, g_selected, g_sort, g_updating, g_dl_file_path>>

\* "wb" empties a file that an earlier download has left, also under the hands
\* of an updater that reads it.
CreateFile(d) ==
    /\ dpc[d] = "fopen"
    /\ tmp' = [tmp EXCEPT ![dver[d]] = "partial"]
    /\ got' = [u \in Updaters |-> IF Running(u) /\ uver[u] = dver[d] THEN "mixed" ELSE got[u]]
    /\ DownloadGoto(d, "receive")
    /\ UNCHANGED <<dver, queue, globalVars>>
    /\ DownloadFrame

CreateFileFails(d) ==
    /\ dpc[d] = "fopen"
    /\ Failed(d)
    /\ UNCHANGED <<dver, queue, tmp, got>>
    /\ DownloadFrame

ReceiveAll(d, downloading) ==
    /\ dpc[d] = "receive"
    /\ \E content \in {"good", "other"} : tmp' = [tmp EXCEPT ![dver[d]] = content]
    /\ DownloadGoto(d, "verify")
    /\ g_downloading' = downloading
    /\ UNCHANGED <<dver, queue, g_versions, g_selected, g_sort, g_updating, g_dl_file_path, got>>
    /\ DownloadFrame

\* Mutant: the download counts as ended before the sha256 is compared.
ReceiveAndClear(d) == ReceiveAll(d, FALSE)

Receive(d) == ReceiveAll(d, g_downloading)

\* No connection, a write error, a status other than 200.
ReceiveFails(d) ==
    /\ dpc[d] = "receive"
    /\ tmp' = [tmp EXCEPT ![dver[d]] = Removed(dver[d])]
    /\ Failed(d)
    /\ UNCHANGED <<dver, queue, got>>
    /\ DownloadFrame

Verify(d) ==
    /\ dpc[d] = "verify"
    /\ tmp[dver[d]] = "good"
    /\ g_downloading' = FALSE /\ g_dl_file_path' = dver[d]
    /\ DownloadGoto(d, "post_done")
    /\ UNCHANGED <<dver, queue, g_versions, g_selected, g_sort, g_updating, tmp, got>>
    /\ DownloadFrame

\* The sha256 is another one, or the file cannot be read, which leaves it.
VerifyFails(d) ==
    /\ dpc[d] = "verify"
    /\ \/ /\ tmp[dver[d]] # "good"
          /\ tmp' = [tmp EXCEPT ![dver[d]] = Removed(dver[d])]
       \/ UNCHANGED tmp
    /\ Failed(d)
    /\ UNCHANGED <<dver, queue, got>>
    /\ DownloadFrame

PostDownload(d) ==
    /\ \/ dpc[d] = "post_done" /\ Post("DOWNLOAD_DONE")
       \/ dpc[d] = "post_error" /\ Post("DOWNLOAD_ERROR")
    /\ DownloadGoto(d, "idle") /\ dver' = [dver EXCEPT ![d] = None]
    /\ UNCHANGED <<globalVars, tmp, got>>
    /\ DownloadFrame

-----------------------------------------------------------------------------
(* The updater process and pipe_reader_thread.  See Updater for what the    *)
(* updater does with the zip.                                               *)

UpdaterFrame == UNCHANGED <<windowVars, globalVars, checkVars, dpc, dver, restarts>>

OpenZip(u) ==
    /\ Spawned(u)
    /\ tmp[uver[u]] # None
    /\ got' = [got EXCEPT ![u] = tmp[uver[u]]]
    /\ upc' = [upc EXCEPT ![u] = IF upc[u] = "spawned" THEN "running" ELSE "running_orphan"]
    /\ UNCHANGED <<queue, uver, tmp>>
    /\ UpdaterFrame

Ends(u) ==
    /\ upc' = [upc EXCEPT ![u] = "idle"] /\ uver' = [uver EXCEPT ![u] = None]
    /\ got' = [got EXCEPT ![u] = None]
    /\ IF upc[u] \in {"spawned", "running"} THEN Post("UPDATE_DONE") ELSE UNCHANGED queue
    /\ UpdaterFrame

ZipNotFound(u) ==
    /\ Spawned(u)
    /\ tmp[uver[u]] = None
    /\ Ends(u)
    /\ UNCHANGED tmp

\* It removes the zip in the end if nobody else has it open, unless that fails or
\* it is killed before.
UpdaterEnds(u) ==
    /\ Running(u)
    /\ \/ /\ \A w \in Updaters \ {u} : ~(Running(w) /\ uver[w] = uver[u])
          /\ \A d \in Threads : ~(dpc[d] = "receive" /\ dver[d] = uver[u])
          /\ tmp' = [tmp EXCEPT ![uver[u]] = None]
       \/ UNCHANGED tmp
    /\ Ends(u)

-----------------------------------------------------------------------------
(* WndProc: the posted messages.                                            *)

Take(m) ==
    /\ queue # <<>> /\ Head(queue) = m
    /\ queue' = Tail(queue)
    /\ UNCHANGED <<checkVars, downloadVars, updaterVars, restarts>>

Buttons(on) == download_on' = on /\ refresh_on' = on

WM_CHECK_ERROR ==
    /\ Take("CHECK_ERROR")
    /\ showsLog' = FALSE
    /\ UNCHANGED <<list, marked, download_on, refresh_on, boxes, globalVars>>

\* The rows are replaced; g_selected and the Download button stay as they are.
WM_CHECK_DONE ==
    /\ Take("CHECK_DONE")
    /\ g_versions' \in Sortings(g_versions, g_sort)
    /\ list' = g_versions' /\ marked' = None
    /\ showsLog' = FALSE
    /\ UNCHANGED <<download_on, refresh_on, boxes, g_selected, g_sort, g_downloading,
                   g_updating, g_dl_file_path>>

WM_DOWNLOAD_ERROR ==
    /\ Take("DOWNLOAD_ERROR")
    /\ Buttons(TRUE)
    /\ boxes' = Append(boxes, None)
    /\ UNCHANGED <<list, marked, showsLog, globalVars>>

\* Mutant: the version that is selected by now is offered.
OfferTheSelected ==
    /\ Take("DOWNLOAD_DONE")
    /\ boxes' = Append(boxes, marked)
    /\ UNCHANGED <<list, marked, download_on, refresh_on, showsLog, globalVars>>

WM_DOWNLOAD_DONE ==
    /\ Take("DOWNLOAD_DONE")
    /\ boxes' = Append(boxes, g_dl_file_path)
    /\ UNCHANGED <<list, marked, download_on, refresh_on, showsLog, globalVars>>

WM_UPDATE_DONE ==
    /\ Take("UPDATE_DONE")
    /\ g_updating' = FALSE
    /\ Buttons(TRUE)
    /\ UNCHANGED <<list, marked, showsLog, boxes, g_versions, g_selected, g_sort,
                   g_downloading, g_dl_file_path>>

HandleMessage ==
    \/ WM_CHECK_ERROR \/ WM_CHECK_DONE \/ WM_DOWNLOAD_ERROR \/ WM_DOWNLOAD_DONE
    \/ WM_UPDATE_DONE

-----------------------------------------------------------------------------
(* The user answers the message box on top; WM_DOWNLOAD_DONE goes on.       *)

CloseBox ==
    /\ boxes # <<>> /\ queue = <<>>
    /\ boxes' = Front(boxes)
    /\ UNCHANGED <<list, marked, queue, g_versions, g_selected, g_sort, g_downloading,
                   g_dl_file_path, checkVars, downloadVars, restarts>>

CloseError ==
    /\ CloseBox /\ Last(boxes) = None
    /\ UNCHANGED <<download_on, refresh_on, showsLog, g_updating, updaterVars>>

\* Mutant: the buttons are not enabled again.
ForgetInstall ==
    /\ CloseBox /\ Last(boxes) # None
    /\ UNCHANGED <<download_on, refresh_on, showsLog, g_updating, updaterVars>>

DoNotInstall ==
    /\ CloseBox /\ Last(boxes) # None
    /\ Buttons(TRUE)
    /\ UNCHANGED <<showsLog, g_updating, updaterVars>>

\* ag_apply_update_with_log stages and starts an updater for the zip.
Install ==
    /\ CloseBox /\ Last(boxes) # None
    /\ showsLog' = TRUE
    /\ g_updating' = TRUE
    /\ Buttons(FALSE)
    /\ \E u \in Updaters :
           /\ upc[u] = "idle"
           /\ upc' = [upc EXCEPT ![u] = "spawned"]
           /\ uver' = [uver EXCEPT ![u] = Last(boxes)]
    /\ UNCHANGED got

InstallFails ==
    /\ CloseBox /\ Last(boxes) # None
    /\ showsLog' = TRUE
    /\ g_updating' = FALSE
    /\ Buttons(TRUE)
    /\ UNCHANGED updaterVars

-----------------------------------------------------------------------------
(* WndProc: what the user does with the window.                             *)

Input == queue = <<>> /\ boxes = <<>>

\* The window guards against few of the clicks that come too early.  Haste has
\* what the user does all the same:
\*   "check"     refreshes or sorts while a check is in flight, whose list is
\*               not the one shown
\*   "announce"  downloads when a download has ended, before the window knows
\*   "update"    downloads while an updater runs
\*   "restart"   restarts while an updater runs that the new manager does not
\*               know of
\* A row may be selected at any time.
Hurry(what, early) == early => what \in Haste

Announced == \A d \in Threads : dpc[d] \notin {"post_done", "post_error"}

SelectRow(i, selected, log) ==
    /\ Input
    /\ i \in DOMAIN list
    /\ g_selected' = selected /\ marked' = list[i]
    /\ download_on' = ~g_downloading
    /\ showsLog' = log
    /\ UNCHANGED <<list, refresh_on, boxes, queue, g_versions, g_sort, g_downloading,
                   g_updating, g_dl_file_path, checkVars, downloadVars, updaterVars, restarts>>

\* Mutant: the rows counted from one.
SelectNext(i) == SelectRow(i, i + 1, showsLog /\ g_updating)

\* Mutant: the details of the row are shown whatever the text area is used for.
SelectClobbers(i) == SelectRow(i, i, FALSE)

\* update_detail leaves the log of an update alone.
Select(i) == SelectRow(i, i, showsLog /\ g_updating)

SortRows(c, selected) ==
    /\ Input
    /\ g_sort' = IF c = g_sort.col THEN [g_sort EXCEPT !.desc = ~@]
                                   ELSE [col |-> c, desc |-> c # Description]
    /\ g_versions' \in Sortings(g_versions, g_sort')
    /\ list' = g_versions' /\ marked' = None
    /\ g_selected' = selected /\ download_on' = FALSE
    /\ Hurry("check", asking + answering > 0)
    /\ UNCHANGED <<refresh_on, showsLog, boxes, queue, g_downloading, g_updating,
                   g_dl_file_path, checkVars, downloadVars, updaterVars, restarts>>

\* Mutant: the selection is kept when the rows change places.
SortKeepsSelection(c) == SortRows(c, g_selected)

Sort(c) == SortRows(c, 0)

do_refresh ==
    /\ Input
    /\ refresh_on
    /\ asking + answering < MaxChecks
    /\ list' = <<>> /\ marked' = None
    /\ g_selected' = 0 /\ download_on' = FALSE
    /\ showsLog' = FALSE
    /\ asking' = asking + 1
    /\ Hurry("check", asking + answering > 0)
    /\ UNCHANGED <<refresh_on, boxes, queue, g_versions, g_sort, g_downloading, g_updating,
                   g_dl_file_path, answering, downloadVars, updaterVars, restarts>>

DownloadFrom(busy, refresh) ==
    /\ Input
    /\ download_on
    /\ g_selected \in DOMAIN g_versions
    /\ ~busy
    /\ g_downloading' = TRUE
    /\ download_on' = FALSE /\ refresh_on' = refresh
    /\ Hurry("update", g_updating) /\ Hurry("announce", ~Announced)
    /\ \E d \in Threads :
           /\ dpc[d] = "idle"
           /\ DownloadGoto(d, "fopen")
           /\ dver' = [dver EXCEPT ![d] = g_versions[g_selected]]
    /\ UNCHANGED <<list, marked, showsLog, boxes, queue, g_versions, g_selected, g_sort,
                   g_updating, g_dl_file_path, checkVars, tmp, updaterVars, restarts>>

\* Mutant: only the button guards against a second download.
do_download_again == DownloadFrom(FALSE, FALSE)

\* Mutant: the Refresh button stays enabled.
do_download_refreshing == DownloadFrom(g_downloading, refresh_on)

do_download == DownloadFrom(g_downloading, FALSE)

\* The window is closed, or the process dies, and the manager starts again;
\* its updaters go on.  ag_cleanup_temp empties the temporary directory.
Restart ==
    /\ restarts < MaxRestarts /\ restarts' = restarts + 1
    /\ list' = <<>> /\ marked' = None
    /\ download_on' = FALSE /\ refresh_on' = TRUE
    /\ showsLog' = FALSE /\ boxes' = <<>> /\ queue' = <<>>
    /\ g_versions' = <<>> /\ g_selected' = 0
    /\ g_sort' = [col |-> Version, desc |-> TRUE]
    /\ g_downloading' = FALSE /\ g_updating' = FALSE /\ g_dl_file_path' = None
    /\ asking' = 1 /\ answering' = 0
    /\ dpc' = [d \in Threads |-> "idle"] /\ dver' = [d \in Threads |-> None]
    /\ tmp' = [v \in Versions |-> Removed(v)]
    /\ upc' = [u \in Updaters |-> CASE upc[u] = "spawned" -> "spawned_orphan"
                                    [] upc[u] = "running" -> "running_orphan"
                                    [] OTHER -> upc[u]]
    /\ Hurry("restart", \E u \in Updaters : upc[u] # "idle")
    /\ UNCHANGED <<uver, got>>

-----------------------------------------------------------------------------
check == CheckFails \/ CheckAnswers \/ PostCheckDone

ag_download_update(d) ==
    \/ CreateFile(d) \/ CreateFileFails(d) \/ Receive(d) \/ ReceiveFails(d)
    \/ Verify(d) \/ VerifyFails(d) \/ PostDownload(d)

updater(u) == OpenZip(u) \/ ZipNotFound(u) \/ UpdaterEnds(u)

Answer == CloseError \/ DoNotInstall \/ Install \/ InstallFails

User ==
    \/ \E i \in DOMAIN list : Select(i)
    \/ \E c \in Columns : Sort(c)
    \/ do_refresh \/ do_download

Next ==
    \/ check \/ HandleMessage \/ Answer \/ User \/ Restart
    \/ \E d \in Threads : ag_download_update(d)
    \/ \E u \in Updaters : updater(u)

Spec == Init /\ [][Next]_vars

\* The window handles its messages, the library's calls end (they have
\* timeouts), an updater ends (UpdateEnds of Updater), and the user answers a
\* message box.
FairSpec ==
    /\ Spec
    /\ WF_vars(HandleMessage) /\ WF_vars(Answer) /\ WF_vars(PostCheckDone)
    /\ \A d \in Threads : WF_vars(ag_download_update(d))
    /\ \A u \in Updaters : WF_vars(updater(u))

-----------------------------------------------------------------------------
TypeOK ==
    /\ list \in Seq(Versions) /\ g_versions \in Seq(Versions)
    /\ marked \in Versions \cup {None}
    /\ download_on \in BOOLEAN /\ refresh_on \in BOOLEAN /\ showsLog \in BOOLEAN
    /\ g_downloading \in BOOLEAN /\ g_updating \in BOOLEAN
    /\ boxes \in Seq(Versions \cup {None}) /\ queue \in Seq(Messages)
    /\ g_selected \in Nat
    /\ marked # None => g_selected \in DOMAIN list /\ list[g_selected] = marked
    /\ g_sort \in [col : Columns, desc : BOOLEAN]
    /\ g_dl_file_path \in Versions \cup {None}
    /\ asking \in Nat /\ answering \in Nat /\ restarts \in 0 .. MaxRestarts
    /\ dpc \in [Threads -> DownloadPc] /\ dver \in [Threads -> Versions \cup {None}]
    /\ \A d \in Threads : dpc[d] # "idle" => dver[d] \in Versions
    /\ tmp \in [Versions -> Contents]
    /\ upc \in [Updaters -> UpdaterPc] /\ uver \in [Updaters -> Versions \cup {None}]
    /\ \A u \in Updaters : upc[u] # "idle" => uver[u] \in Versions
    /\ got \in [Updaters -> Contents]

\* There is one download at a time, whatever the user does while messages are
\* on their way: the two could write the same temporary file (do_download).
OneDownload ==
    \A d, e \in Threads :
        dpc[d] \in {"fopen", "receive", "verify"} /\ dpc[e] \in {"fopen", "receive", "verify"}
            => d = e

\* The Download button downloads the version that the user has selected:
\* sorting, rows that are replaced and buttons that are enabled again, by a
\* selection or by a message, do not leave an index behind that means another
\* row (g_selected and g_versions).  The user waits for the list of a check
\* before sorting or refreshing, and for the end of a download or an update
\* before downloading again, but selects rows whenever there are any.
DownloadsTheSelected ==
    [][\A d \in Threads : dpc[d] = "idle" /\ dpc'[d] = "fopen"
           => dver'[d] = marked]_vars

\* What an updater reads is the package whose sha256 the library has compared,
\* for a user who starts no download while an updater runs: no download writes
\* into the zip between the comparison and the end, and none that failed is left
\* to be installed.
InstalledIsVerified ==
    \A u \in Updaters : Running(u) => got[u] = "good"

\* The log of an update stays on the screen until it ends, although the text
\* area also shows the details of a row when it is selected, which the user may
\* do all the time (update_detail), and what becomes of checks, for a user who
\* waits for the list before choosing from it: Refresh is disabled until then.
LogStays == g_updating => showsLog

\* Buttons that were disabled are enabled again: every download and update
\* ends with a message that does so, or with a box whose answer does.
ButtonsComeBack == ~refresh_on ~> refresh_on

\* The update that is under way, for a user who waits: there is one at most.
Fetching == \E d \in Threads : dpc[d] \in {"fopen", "receive", "verify"}
Told(messages) == queue # <<>> /\ Head(queue) \in messages
AsksToInstall == boxes # <<>> /\ Last(boxes) # None
Offered == (\E d \in Threads : dpc[d] = "post_done") \/ Told({"DOWNLOAD_DONE"}) \/ AsksToInstall
Updating == \E u \in Updaters : upc[u] # "idle"

Stage ==
    IF Fetching THEN "fetching"
    ELSE IF Offered THEN "offered"
    ELSE IF Updating THEN "applying"
    ELSE IF refresh_on THEN "idle" ELSE "over"

\* The version is handed on: the thread, the global, the box and the updater.
Target ==
    CASE Stage = "fetching" -> dver[CHOOSE d \in Threads : dpc[d] # "idle"]
      [] Stage = "offered" -> IF AsksToInstall THEN Last(boxes) ELSE g_dl_file_path
      [] Stage = "applying" -> uver[CHOOSE u \in Updaters : upc[u] # "idle"]
      [] OTHER -> None

Package ==
    IF Target = None THEN None
    ELSE IF \E u \in Updaters : Running(u) THEN got[CHOOSE u \in Updaters : Running(u)]
    ELSE tmp[Target]

Cycle == INSTANCE UpdateCycle WITH
    Packages <- Contents, Announced <- "good",
    chosen <- marked, stage <- Stage, target <- Target, package <- Package

\* The version selected is the one that is downloaded, compared, offered and
\* installed, one after the other; from the comparison on nothing touches its
\* package, and no other update begins before the window has heard of the end.
\* The version goes from the index of a row through a thread, a global variable,
\* a box and a command line (do_download to ag_apply_update_with_log).
ImplementsUpdateCycle == Cycle!Spec

\* manager_main.cpp:73 says of g_updating: true while ag-updater is running.
\* It is not when a second updater is started while the first runs.
UpdatingWhileItRuns ==
    \A u \in Updaters : upc[u] \in {"spawned", "running"} => g_updating
=============================================================================
