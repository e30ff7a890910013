---------------------------- MODULE PackageStore ----------------------------
(***************************************************************************)
(* The package store of the server: the versions table and the directory   *)
(* storage_dir with one zip file per version, and the request handlers     *)
(* that keep the two in step (server/src/admin_api.cpp, client_api.cpp).   *)
(* No lock covers a handler: one step is one call to the connection or to  *)
(* the file system, and steps of different handlers interleave freely.     *)
(*                                                                         *)
(* An element of Admins is an administrator session that has at most one   *)
(* request in flight, an element of Clients a client that downloads.  Each *)
(* request is served by a pool thread of its own.                          *)
(***************************************************************************)
EXTENDS Database

CONSTANTS
    Admins,     \* administrator sessions
    Clients,    \* downloading clients
    Inodes,     \* file objects of the file system
    NoInode,    \* "no such file"
    NoVersion,  \* "no request"
    Partial,    \* file content that is nobody's upload: truncated or mixed
    MaxId,      \* bound: no upload starts once nextId exceeds it
    MaxCount    \* bound: no download of a row starts once its count or its
                \* logs reach it

ASSUME StoreAssumption ==
    /\ NoInode \notin Inodes
    /\ NoVersion \notin Versions \cup Contents
    /\ Partial \notin Contents
    /\ MaxId \in Nat /\ MaxCount \in Nat

VARIABLES
    dir,        \* storage_dir: the inode of <version>.zip, or NoInode
    disk,       \* the content of each inode
    apc,        \* where the handler of an admin request is
    todo,       \* the versions of its request whose files it has not removed
    left,       \* batch: the versions the DELETE loop has not reached
    data,       \* the package content an upload carries
    afd,        \* the file it has open for writing
    effect,     \* history: the id its INSERT made, or the rows its own
                \* DELETEs or UPDATE matched
    reply,      \* the HTTP status last answered, 0 while a request is served,
                \* and the id in the answer to an upload
    cpc,        \* where the handler of a download is
    cver,       \* the version it was asked for, until its file is open
    rid,        \* the id of the row it looked up
    cfd,        \* the file it streams
    want        \* the content of that file when its size was taken

fileVars == <<dir, disk>>
adminVars == <<apc, todo, left, data, afd, effect, reply>>
clientVars == <<cpc, cver, rid, cfd, want>>
vars == <<dbVars, fileVars, adminVars, clientVars>>

InBatch == {"each", "commit", "rollback"}
AdminPc == {"idle", "exists", "fopen", "fwrite", "insert", "rowid", "errmsg",
            "undo_dup", "undo_other", "delete", "changed", "update", "matched",
            "begin", "unlink"} \cup InBatch
ClientPc == {"idle", "open", "stream", "count", "log"}

StoreTypeOK ==
    /\ dir \in [Versions -> Inodes \cup {NoInode}]
    /\ disk \in [Inodes -> Contents \cup {Partial}]
    /\ apc \in [Admins -> AdminPc]
    /\ todo \in [Admins -> SUBSET Versions]
    /\ left \in [Admins -> SUBSET Versions]
    /\ data \in [Admins -> Contents \cup {Partial}]
    /\ afd \in [Admins -> Inodes \cup {NoInode}]
    /\ effect \in [Admins -> Nat]
    /\ reply \in [Admins -> [status : {0, 200, 201, 404, 409, 500}, id : Nat]]
    /\ cpc \in [Clients -> ClientPc]
    /\ cver \in [Clients -> Versions \cup {NoVersion}]
    /\ rid \in [Clients -> Nat]
    /\ cfd \in [Clients -> Inodes \cup {NoInode}]
    /\ want \in [Clients -> Contents \cup {Partial}]

TypeOK == DbTypeOK /\ StoreTypeOK

NoReply == [status |-> 0, id |-> 0]

NoRequests ==
    /\ apc = [a \in Admins |-> "idle"]
    /\ todo = [a \in Admins |-> {}]
    /\ left = [a \in Admins |-> {}]
    /\ data = [a \in Admins |-> Partial]
    /\ afd = [a \in Admins |-> NoInode]
    /\ effect = [a \in Admins |-> 0]
    /\ reply = [a \in Admins |-> NoReply]
    /\ cpc = [c \in Clients |-> "idle"]
    /\ cver = [c \in Clients |-> NoVersion]
    /\ rid = [c \in Clients |-> 0]
    /\ cfd = [c \in Clients |-> NoInode]
    /\ want = [c \in Clients |-> Partial]

Init ==
    /\ DbInit
    /\ dir = [v \in Versions |-> NoInode]
    /\ disk = [i \in Inodes |-> Partial]
    /\ NoRequests

-----------------------------------------------------------------------------
(* Steps of a handler.                                                     *)

Goto(a, from, to) ==
    /\ apc[a] = from
    /\ apc' = [apc EXCEPT ![a] = to]

\* The handler of a answers and is done; what it did stays on record.
AnswerWithId(a, from, status, id) ==
    /\ Goto(a, from, "idle")
    /\ todo' = [todo EXCEPT ![a] = {}]
    /\ left' = [left EXCEPT ![a] = {}]
    /\ data' = [data EXCEPT ![a] = Partial]
    /\ afd' = [afd EXCEPT ![a] = NoInode]
    /\ reply' = [reply EXCEPT ![a] = [status |-> status, id |-> id]]

Answer(a, from, status) == AnswerWithId(a, from, status, 0)

Did(a, n) == effect' = [effect EXCEPT ![a] = n]

KeepRequest == UNCHANGED <<todo, left, data, afd, reply>>

(***************************************************************************)
(* A request that passed the token check and the checks of its own fields  *)
(* (semver_validate, JSON or multipart shape, zip magic, size) arrives.    *)
(* A request that fails one of them is answered without touching anything. *)
(***************************************************************************)
Receive(a, first, S, c) ==
    /\ Goto(a, "idle", first)
    /\ todo' = [todo EXCEPT ![a] = S]
    /\ data' = [data EXCEPT ![a] = c]
    /\ reply' = [reply EXCEPT ![a] = NoReply]
    /\ Did(a, 0)
    /\ UNCHANGED <<dbVars, fileVars, clientVars, left, afd>>

ReceiveUpload(a) ==
    /\ nextId <= MaxId
    /\ \E v \in Versions, c \in Contents : Receive(a, "exists", {v}, c)

ReceiveDelete(a) == \E v \in Versions : Receive(a, "delete", {v}, Partial)

ReceiveUpdate(a) == \E v \in Versions : Receive(a, "update", {v}, Partial)

ReceiveBatch(a) ==
    \E S \in (SUBSET Versions) \ {{}} : Receive(a, "begin", S, Partial)

\* A handler that only reads: the lists, the statistics, a failed lookup, and
\* the batch delete of no version.  It resets the error state, no more.
ReadOnly ==
    /\ Select
    /\ UNCHANGED <<fileVars, adminVars, clientVars>>

-----------------------------------------------------------------------------
(* POST /api/v1/admin/versions.                                            *)

\* Mutant: an upload does not ask whether the version exists.
CheckNothing(a) ==
    /\ Select
    /\ Goto(a, "exists", "fopen")
    /\ KeepRequest
    /\ UNCHANGED <<fileVars, clientVars, effect>>

\* get_version_by_name; a SELECT that fails reads as "not found".
CheckExists(a) ==
    /\ \E v \in todo[a] :
        \/ /\ rows[v] # NoRow
           /\ Answer(a, "exists", 409)
        \/ /\ rows[v] = NoRow \/ "select" \in Faults
           /\ Goto(a, "exists", "fopen")
           /\ KeepRequest
    /\ Select
    /\ UNCHANGED <<fileVars, clientVars, effect>>

Linked == {dir[v] : v \in Versions} \ {NoInode}
InUse == Linked \cup {afd[a] : a \in Admins} \cup {cfd[c] : c \in Clients}

\* write_file, fopen "wb": creates the file, or truncates the one that is there.
OpenFile(a) ==
    /\ \E v \in todo[a], i \in Inodes :
        /\ IF dir[v] = NoInode THEN i \notin InUse ELSE i = dir[v]
        /\ dir' = [dir EXCEPT ![v] = i]
        /\ disk' = [disk EXCEPT ![i] = Partial]
        /\ afd' = [afd EXCEPT ![a] = i]
    /\ Goto(a, "fopen", "fwrite")
    /\ UNCHANGED <<dbVars, clientVars, todo, left, data, reply, effect>>

OpenFileFails(a) ==
    /\ "write" \in Faults
    /\ Answer(a, "fopen", 500)
    /\ UNCHANGED <<dbVars, fileVars, clientVars, effect>>

\* Another handler wrote to, or still writes to, the file a has open.
Disturbed(a) ==
    \/ disk[afd[a]] # Partial
    \/ \E b \in Admins \ {a} : afd[b] = afd[a]

\* The file need not have all the content when write_file returns true: the
\* result of fclose, which writes what is still buffered, is dropped.
Short(a) == Disturbed(a) \/ "flush" \in Faults

\* write_file, fwrite and fclose.
WriteFile(a) ==
    /\ Goto(a, "fwrite", "insert")
    /\ disk' \in {[disk EXCEPT ![afd[a]] = c] :
                    c \in {data[a]} \cup IF Short(a) THEN {Partial} ELSE {}}
    /\ afd' = [afd EXCEPT ![a] = NoInode]
    /\ UNCHANGED <<dbVars, dir, clientVars, todo, left, data, reply, effect>>

\* Mutant: nobody looks at the result of write_file.
WriteFailureIgnored(a) ==
    /\ "write" \in Faults
    /\ Goto(a, "fwrite", "insert")
    /\ afd' = [afd EXCEPT ![a] = NoInode]
    /\ UNCHANGED <<dbVars, fileVars, clientVars, todo, left, data, reply, effect>>

\* fwrite wrote less than it was given: 500, and the file stays as it is.
WriteFileFails(a) ==
    /\ "write" \in Faults
    /\ Answer(a, "fwrite", 500)
    /\ UNCHANGED <<dbVars, fileVars, clientVars, effect>>

\* insert_version, sqlite3_step.
Insert(a) ==
    /\ \E v \in todo[a] :
        \/ /\ InsertVersion(v, data[a])
           /\ Did(a, nextId)
           /\ Goto(a, "insert", "rowid")
        \/ /\ InsertConflicts(v) \/ StatementFails
           /\ Goto(a, "insert", "errmsg")
           /\ UNCHANGED effect
    /\ KeepRequest
    /\ UNCHANGED <<fileVars, clientVars>>

\* insert_version, sqlite3_last_insert_rowid, and 201 with that id.
AnswerUpload(a) ==
    /\ AnswerWithId(a, "rowid", 201, lastRowid)
    /\ UNCHANGED <<dbVars, fileVars, clientVars, effect>>

\* insert_version, sqlite3_errmsg after the finalize: the handler answers 409
\* when the text it gets mentions UNIQUE, 500 otherwise.
ReadError(a) ==
    /\ Goto(a, "errmsg", IF errmsg = "UNIQUE" THEN "undo_dup" ELSE "undo_other")
    /\ KeepRequest
    /\ UNCHANGED <<dbVars, fileVars, clientVars, effect>>

Unlink(v) == dir' = [dir EXCEPT ![v] = NoInode] /\ UNCHANGED disk

\* remove_file of a handler; its result is at most logged.
RemoveFile(v) ==
    \/ Unlink(v)
    \/ "remove" \in Faults /\ UNCHANGED fileVars

UndoUpload(a) ==
    /\ \E v \in todo[a] : RemoveFile(v)
    /\ Answer(a, "undo_dup", 409) \/ Answer(a, "undo_other", 500)
    /\ UNCHANGED <<dbVars, clientVars, effect>>

-----------------------------------------------------------------------------
(* DELETE /api/v1/admin/versions/:version and the PUT of its description.  *)

Matched(v) == IF rows[v] = NoRow THEN 0 ELSE 1

Delete(a) ==
    /\ \E v \in todo[a] :
        \/ /\ DeleteVersion(v)
           /\ Did(a, Matched(v))
           /\ Goto(a, "delete", "changed")
           /\ KeepRequest
        \/ /\ StatementFails
           /\ Answer(a, "delete", 500)
           /\ UNCHANGED effect
    /\ UNCHANGED <<fileVars, clientVars>>

\* delete_version, sqlite3_changes: none means "not found".
ReadChanges(a) ==
    /\ IF changes = 0
       THEN Answer(a, "changed", 404)
       ELSE Goto(a, "changed", "unlink") /\ KeepRequest
    /\ UNCHANGED <<dbVars, fileVars, clientVars, effect>>

Update(a) ==
    /\ \E v \in todo[a] :
        \/ /\ UpdateDescription(v)
           /\ Did(a, Matched(v))
           /\ Goto(a, "update", "matched")
           /\ KeepRequest
        \/ /\ StatementFails
           /\ Answer(a, "update", 500)
           /\ UNCHANGED effect
    /\ UNCHANGED <<fileVars, clientVars>>

\* update_version_description, sqlite3_changes.
AnswerUpdate(a) ==
    /\ Answer(a, "matched", IF changes = 0 THEN 404 ELSE 200)
    /\ UNCHANGED <<dbVars, fileVars, clientVars, effect>>

\* remove_file, for one version of a delete after another; the last one answers.
UnlinkOne(a) ==
    /\ \E v \in todo[a] :
        /\ RemoveFile(v)
        /\ IF todo[a] = {v}
           THEN Answer(a, "unlink", 200)
           ELSE /\ apc[a] = "unlink"
                /\ todo' = [todo EXCEPT ![a] = @ \ {v}]
                /\ UNCHANGED <<apc, left, data, afd, reply>>
    /\ UNCHANGED <<dbVars, clientVars, effect>>

-----------------------------------------------------------------------------
(* DELETE /api/v1/admin/versions, delete_versions_batch.                   *)

BeginBatch(a) ==
    /\ \/ /\ Begin
          /\ Goto(a, "begin", "each")
          /\ left' = [left EXCEPT ![a] = todo[a]]
          /\ UNCHANGED <<todo, data, afd, reply>>
       \/ /\ BeginRefused
          /\ Answer(a, "begin", 500)
    /\ UNCHANGED <<fileVars, clientVars, effect>>

\* Mutant: the files go before COMMIT.
DeleteEachThenUnlink(a) ==
    /\ \E v \in left[a] :
        /\ DeleteVersion(v)
        /\ Did(a, effect[a] + Matched(v))
        /\ left' = [left EXCEPT ![a] = @ \ {v}]
        /\ Goto(a, "each", IF left[a] = {v} THEN "unlink" ELSE "each")
    /\ UNCHANGED <<fileVars, clientVars, todo, data, afd, reply>>

\* Mutant: a failing DELETE returns without ROLLBACK.
DeleteEachGivesUp(a) ==
    /\ \E v \in left[a] :
        \/ /\ DeleteVersion(v)
           /\ Did(a, effect[a] + Matched(v))
           /\ left' = [left EXCEPT ![a] = @ \ {v}]
           /\ Goto(a, "each", IF left[a] = {v} THEN "commit" ELSE "each")
           /\ UNCHANGED <<todo, data, afd, reply>>
        \/ /\ StatementFails
           /\ Answer(a, "each", 500)
           /\ UNCHANGED effect
    /\ UNCHANGED <<fileVars, clientVars>>

\* The loop over the versions; a version without a row is no error.
DeleteEach(a) ==
    /\ \E v \in left[a] :
        \/ /\ DeleteVersion(v)
           /\ Did(a, effect[a] + Matched(v))
           /\ left' = [left EXCEPT ![a] = @ \ {v}]
           /\ Goto(a, "each", IF left[a] = {v} THEN "commit" ELSE "each")
        \/ /\ StatementFails
           /\ Goto(a, "each", "rollback")
           /\ UNCHANGED <<left, effect>>
    /\ UNCHANGED <<fileVars, clientVars, todo, data, afd, reply>>

\* Mutant: a failing COMMIT returns without ROLLBACK.
CommitBatchGivesUp(a) ==
    /\ \/ Commit /\ Goto(a, "commit", "unlink") /\ KeepRequest
       \/ StatementFails /\ Answer(a, "commit", 500)
    /\ UNCHANGED <<fileVars, clientVars, effect>>

\* COMMIT; without a transaction it is an error.
CommitBatch(a) ==
    /\ \/ Commit /\ Goto(a, "commit", "unlink")
       \/ /\ saved = NoTx
          /\ errmsg' = "other"
          /\ UNCHANGED <<rows, nextId, nextLogId, saved, changes, lastRowid>>
          /\ Goto(a, "commit", "rollback")
       \/ /\ StatementFails
          /\ Goto(a, "commit", "rollback")
    /\ KeepRequest
    /\ UNCHANGED <<fileVars, clientVars, effect>>

RollbackBatch(a) ==
    /\ Rollback
    /\ Answer(a, "rollback", 500)
    /\ UNCHANGED <<fileVars, clientVars, effect>>

-----------------------------------------------------------------------------
(* GET /api/v1/client/download/:version.                                   *)

DownloadEnds(c) ==
    /\ cpc' = [cpc EXCEPT ![c] = "idle"]
    /\ cver' = [cver EXCEPT ![c] = NoVersion]
    /\ rid' = [rid EXCEPT ![c] = 0]
    /\ cfd' = [cfd EXCEPT ![c] = NoInode]
    /\ want' = [want EXCEPT ![c] = Partial]

\* get_version_by_name; a version without a row is answered 404 (ReadOnly).
Lookup(c) ==
    /\ cpc[c] = "idle"
    /\ \E v \in Versions :
        /\ rows[v] # NoRow
        /\ rows[v].count < MaxCount /\ rows[v].logs < MaxCount
        /\ cver' = [cver EXCEPT ![c] = v]
        /\ rid' = [rid EXCEPT ![c] = rows[v].id]
    /\ cpc' = [cpc EXCEPT ![c] = "open"]
    /\ Select
    /\ UNCHANGED <<fileVars, adminVars, cfd, want>>

\* fopen "rb" and ftell: the size promised is that of the content found now.
OpenPackage(c) ==
    /\ cpc[c] = "open"
    /\ dir[cver[c]] # NoInode
    /\ cfd' = [cfd EXCEPT ![c] = dir[cver[c]]]
    /\ want' = [want EXCEPT ![c] = disk[dir[cver[c]]]]
    /\ cpc' = [cpc EXCEPT ![c] = "stream"]
    /\ cver' = [cver EXCEPT ![c] = NoVersion]
    /\ UNCHANGED <<dbVars, fileVars, adminVars, rid>>

\* 500, "file not found on server".
PackageMissing(c) ==
    /\ cpc[c] = "open"
    /\ dir[cver[c]] = NoInode
    /\ DownloadEnds(c)
    /\ UNCHANGED <<dbVars, fileVars, adminVars>>

\* Mutant: the download is logged but not counted.
StreamDoneWithoutCount(c) ==
    /\ cpc[c] = "stream"
    /\ cpc' = [cpc EXCEPT ![c] = "log"]
    /\ cfd' = [cfd EXCEPT ![c] = NoInode]
    /\ want' = [want EXCEPT ![c] = Partial]
    /\ UNCHANGED <<dbVars, fileVars, adminVars, cver, rid>>

\* The provider has delivered the promised size.  While the file is shorter
\* than that, it delivers nothing and is called again.
StreamDone(c) ==
    /\ cpc[c] = "stream"
    /\ disk[cfd[c]] # Partial \/ want[c] = Partial
    /\ cpc' = [cpc EXCEPT ![c] = "count"]
    /\ cfd' = [cfd EXCEPT ![c] = NoInode]
    /\ want' = [want EXCEPT ![c] = Partial]
    /\ UNCHANGED <<dbVars, fileVars, adminVars, cver, rid>>

\* The client is gone, or the promised size was zero: no statistics.
StreamCut(c) ==
    /\ cpc[c] = "stream"
    /\ DownloadEnds(c)
    /\ UNCHANGED <<dbVars, fileVars, adminVars>>

\* increment_download_count; its result is not looked at.
Count(c) ==
    /\ cpc[c] = "count"
    /\ IncrementCount(rid[c]) \/ StatementFails
    /\ cpc' = [cpc EXCEPT ![c] = "log"]
    /\ UNCHANGED <<fileVars, adminVars, cver, rid, cfd, want>>

\* log_download; its result is not looked at.
Log(c) ==
    /\ cpc[c] = "log"
    /\ LogDownload(rid[c]) \/ StatementFails
    /\ DownloadEnds(c)
    /\ UNCHANGED <<fileVars, adminVars>>

-----------------------------------------------------------------------------
\* The process dies and is started again; files keep what is on disk.
Crash ==
    /\ "crash" \in Faults
    /\ Reopen
    /\ apc' = [a \in Admins |-> "idle"]
    /\ todo' = [a \in Admins |-> {}]
    /\ left' = [a \in Admins |-> {}]
    /\ data' = [a \in Admins |-> Partial]
    /\ afd' = [a \in Admins |-> NoInode]
    /\ effect' = [a \in Admins |-> 0]
    /\ reply' = [a \in Admins |-> NoReply]
    /\ cpc' = [c \in Clients |-> "idle"]
    /\ cver' = [c \in Clients |-> NoVersion]
    /\ rid' = [c \in Clients |-> 0]
    /\ cfd' = [c \in Clients |-> NoInode]
    /\ want' = [c \in Clients |-> Partial]
    /\ UNCHANGED fileVars

Request(a) ==
    ReceiveUpload(a) \/ ReceiveDelete(a) \/ ReceiveUpdate(a) \/ ReceiveBatch(a)

Upload(a) ==
    \/ CheckExists(a) \/ OpenFile(a) \/ OpenFileFails(a)
    \/ WriteFile(a) \/ WriteFileFails(a)
    \/ Insert(a) \/ AnswerUpload(a) \/ ReadError(a) \/ UndoUpload(a)

SingleVersion(a) ==
    Delete(a) \/ ReadChanges(a) \/ Update(a) \/ AnswerUpdate(a)

Batch(a) ==
    BeginBatch(a) \/ DeleteEach(a) \/ CommitBatch(a) \/ RollbackBatch(a)

\* A step of a handler that is serving a request of a.
Serve(a) == Upload(a) \/ SingleVersion(a) \/ Batch(a) \/ UnlinkOne(a)

Download(c) ==
    \/ Lookup(c) \/ OpenPackage(c) \/ PackageMissing(c)
    \/ StreamDone(c) \/ StreamCut(c) \/ Count(c) \/ Log(c)

Next ==
    \/ \E a \in Admins : Request(a) \/ Serve(a)
    \/ \E c \in Clients : Download(c)
    \/ ReadOnly
    \/ Crash

Spec == Init /\ [][Next]_vars

\* No two requests in flight concern the same version: the administrators
\* have agreed who maintains which.
Disjoint ==
    \A a, b \in Admins : a # b => todo[a] \cap todo[b] = {}

DisjointSpec == Init /\ [][Next /\ Disjoint']_vars

\* A pool thread runs its handler to the end.
FairSpec == Spec /\ \A a \in Admins : WF_vars(Serve(a))
-----------------------------------------------------------------------------
(* What the store keeps true.                                              *)

Backed(v, r) == dir[v] # NoInode /\ disk[dir[v]] = r.sha

\* A version that has a row can be served: its zip file is there and has the
\* content whose sha256 the row advertises.  This is what saving the file before
\* the row and deleting it after the row is for (admin_api.cpp:263-295, 448-465,
\* 488-509).  It holds with one administrator, and with several under
\* DisjointSpec as long as no transaction is ever rolled back.
RowHasFile == \A v \in Versions : rows[v] # NoRow => Backed(v, rows[v])

\* requirement.md:10: an upload that succeeds has saved the row in the database
\* and the file in the directory.  Asked only once every request is answered:
\* whatever the handlers did meanwhile, the row that is left has its file.
RowHasFileAtRest == (\A a \in Admins : apc[a] = "idle") => RowHasFile

\* While the row a download looked up exists, the download streams the file of
\* that row, and the size it promised is that of the content of that row; the
\* lookup, the open and the stream (client_api.cpp:245-323) are separate steps.
StreamsTheRow ==
    \A c \in Clients, v \in Versions :
        cpc[c] = "stream" /\ HasId(v, rid[c]) =>
            /\ cfd[c] = dir[v]
            /\ want[c] = rows[v].sha
            /\ disk[cfd[c]] = rows[v].sha

\* A row that appears while a download is in flight never has the id this
\* download is about to count and log on (client_api.cpp:300, 329-330).
StatsStayWithTheRow ==
    [][\A c \in Clients, v \in Versions :
          rid[c] # 0 /\ rid'[c] = rid[c] /\ HasId(v, rid[c])' =>
              HasId(v, rid[c]) \/ (saved # NoTx /\ saved.rows[v] # NoRow
                                                 /\ saved.rows[v].id = rid[c])]_vars

\* The logs of a row never outnumber the downloads counted on it, and the
\* difference covers the downloads that are counted but not yet logged
\* (increment_download_count and log_download are two statements).
CountCoversLogs ==
    \A v \in Versions : rows[v] # NoRow =>
        rows[v].count >= rows[v].logs
            + Cardinality({c \in Clients : cpc[c] = "log" /\ rid[c] = rows[v].id})

\* At the moment the handler of an upload answers 201, the row is there with the
\* sha256 of this upload, and the file with its content.
StoredWhenAcknowledged ==
    [][\A a \in Admins : reply[a] = NoReply /\ reply'[a].status = 201 =>
          \A v \in todo[a] :
              /\ rows[v] # NoRow /\ rows[v].sha = data[a]
              /\ Backed(v, rows[v])]_vars

\* An answer tells of its own request, also while other handlers use the
\* connection: 1003 is "the version number does not exist" (design.md:195), so
\* the statement of a request answered with it has matched no row; and the
\* answer to an upload carries the id of its row (design.md:279-288).
AnswersTellOfTheRequest ==
    \A a \in Admins :
        /\ reply[a].status = 404 => effect[a] = 0
        /\ reply[a].status = 201 => reply[a].id = effect[a]

\* An open transaction has a batch handler that is going to end it, so no
\* later statement of another handler stays uncommitted for good
\* (database.cpp:428-475 has six exits after BEGIN).
TransactionHasOwner == saved # NoTx => \E a \in Admins : apc[a] \in InBatch

\* Every transaction ends, whatever the other handlers do to it.
TransactionsEnd == saved # NoTx ~> saved = NoTx

-----------------------------------------------------------------------------
(* What the administrator sees of it, as an instance of Catalog.           *)

\* A version is published when its row is committed, with what would be served.
Published ==
    [v \in Versions |->
        IF Committed[v] = NoRow THEN Partial
        ELSE IF dir[v] = NoInode THEN NoInode ELSE disk[dir[v]]]

\* The request took effect, or found nothing to change: only its files, or its
\* answer, are left to do.
Settling == {"rowid", "changed", "matched", "unlink"}

Effected == {a \in Admins : apc[a] \in Settling /\ effect[a] > 0}
Voided == {a \in Admins : apc[a] \in Settling /\ effect[a] = 0}

Pending ==
    [a \in Admins |->
        IF apc[a] \in Settling \cup {"idle"}
        THEN [versions |-> {}, content |-> Partial]
        ELSE [versions |-> todo[a],
              content |-> IF apc[a] = "update" THEN NoVersion ELSE data[a]]]

Outcome ==
    [a \in Admins |->
        CASE reply[a].status = 0 -> "none"
          [] reply[a].status \in {200, 201} -> "success"
          [] OTHER -> "failure"]

Promise == INSTANCE Catalog
    WITH NoContent <- Partial, SameContent <- NoVersion, published <- Published,
         pending <- Pending, done <- Effected, void <- Voided, answer <- Outcome

\* Every request of one administrator is atomic, also when the process dies in
\* the middle of it (design.md:337 claims it for the delete), and a request that
\* had something to change is answered with success only when it has changed it.
ImplementsCatalog == Promise!Spec
=============================================================================
