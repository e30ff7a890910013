------------------------------ MODULE Database ------------------------------
(***************************************************************************)
(* The one sqlite3 connection of the server (Database::db_) as the request *)
(* handlers see it.  httplib runs every handler on a pool thread and all   *)
(* of them call this connection: sqlite serialises single calls, so one    *)
(* statement is one step here, but nothing serialises two calls of one     *)
(* handler.  The transaction state and the three "last call" results of a  *)
(* connection (sqlite3_changes, sqlite3_last_insert_rowid, sqlite3_errmsg) *)
(* therefore belong to all threads together, and are variables.            *)
(*                                                                         *)
(* A definition below is the effect of one call; the handlers of           *)
(* PackageStore add their own control to it.                               *)
(***************************************************************************)
EXTENDS Naturals, FiniteSets

CONSTANTS
    Versions,   \* version strings an administrator uses
    Contents,   \* package contents; stands for the bytes and for their sha256
    NoRow,      \* "no row has this version"
    NoTx,       \* "the connection is in autocommit mode"
    Faults      \* what the environment may make fail, see FaultKinds

VARIABLES
    rows,       \* versions table with its download_logs, by version (UNIQUE)
    nextId,     \* next AUTOINCREMENT id of versions (sqlite_sequence)
    nextLogId,  \* the same of download_logs
    saved,      \* what ROLLBACK restores, or NoTx
    changes,    \* sqlite3_changes(db_)
    lastRowid,  \* sqlite3_last_insert_rowid(db_), of either table
    errmsg      \* sqlite3_errmsg(db_)

dbVars == <<rows, nextId, nextLogId, saved, changes, lastRowid, errmsg>>

(***************************************************************************)
(* "write", "remove": fopen/fwrite or remove() of a package file fails.    *)
(* "flush": fclose cannot write what is still buffered, and nobody looks.  *)
(* "statement": an INSERT, UPDATE, DELETE or COMMIT reports an I/O error.  *)
(* "rollback": sqlite also answers such an error by rolling the open       *)
(* transaction back itself (sqlite3VdbeHalt, the special errors).          *)
(* "select": a SELECT reports an error.  "crash": the process dies and is  *)
(* started again.                                                          *)
(***************************************************************************)
FaultKinds == {"write", "flush", "remove", "statement", "rollback", "select", "crash"}

Row == [id : Nat, sha : Contents, count : Nat, logs : Nat]
Tables == [Versions -> Row \cup {NoRow}]

ASSUME FaultsAssumption == Faults \subseteq FaultKinds
ASSUME SentinelAssumption ==
    /\ NoRow \notin Row
    /\ NoTx \notin [rows : Tables, nextId : Nat, nextLogId : Nat]

DbTypeOK ==
    /\ rows \in Tables
    /\ nextId \in Nat /\ nextLogId \in Nat
    /\ saved \in [rows : Tables, nextId : Nat, nextLogId : Nat] \cup {NoTx}
    /\ changes \in {0, 1}
    /\ lastRowid \in Nat
    /\ errmsg \in {"none", "UNIQUE", "other"}

\* An empty database, just opened by Database::open and create_tables.
DbInit ==
    /\ rows = [v \in Versions |-> NoRow]
    /\ nextId = 1 /\ nextLogId = 1
    /\ saved = NoTx
    /\ changes = 0
    /\ lastRowid = 0
    /\ errmsg = "none"

\* The rows another process, or this one after a restart, would read.
Committed == IF saved = NoTx THEN rows ELSE saved.rows

HasId(v, id) == rows[v] # NoRow /\ rows[v].id = id

-----------------------------------------------------------------------------
(* The results a data-changing statement leaves on the connection.         *)

Changed(n) == changes' = n /\ errmsg' = "none"

Refused(why) == changes' = 0 /\ errmsg' = why

\* Any SELECT: sqlite3_prepare_v2 and sqlite3_step overwrite the error state.
Select == errmsg' = "none" /\ UNCHANGED <<rows, nextId, nextLogId, saved, changes, lastRowid>>

-----------------------------------------------------------------------------
(* Transactions.                                                           *)

\* Mutant: BEGIN is forgotten.
BeginNothing ==
    /\ saved = NoTx
    /\ errmsg' = "none"
    /\ UNCHANGED <<rows, nextId, nextLogId, saved, changes, lastRowid>>

Begin ==
    /\ saved = NoTx
    /\ saved' = [rows |-> rows, nextId |-> nextId, nextLogId |-> nextLogId]
    /\ errmsg' = "none"
    /\ UNCHANGED <<rows, nextId, nextLogId, changes, lastRowid>>

BeginRefused ==
    /\ saved # NoTx
    /\ errmsg' = "other"
    /\ UNCHANGED <<rows, nextId, nextLogId, saved, changes, lastRowid>>

Commit ==
    /\ saved # NoTx
    /\ saved' = NoTx
    /\ errmsg' = "none"
    /\ UNCHANGED <<rows, nextId, nextLogId, changes, lastRowid>>

\* ROLLBACK; without a transaction it only reports an error nobody looks at.
RestoreSaved ==
    /\ rows' = IF saved = NoTx THEN rows ELSE saved.rows
    /\ nextId' = IF saved = NoTx THEN nextId ELSE saved.nextId
    /\ nextLogId' = IF saved = NoTx THEN nextLogId ELSE saved.nextLogId
    /\ saved' = NoTx

Rollback ==
    /\ RestoreSaved
    /\ errmsg' = IF saved = NoTx THEN "other" ELSE "none"
    /\ UNCHANGED <<changes, lastRowid>>

\* A statement that fails: it has no effect of its own, but sqlite may have
\* rolled back the transaction that is open, whoever began it.
StatementFails ==
    /\ "statement" \in Faults
    /\ Refused("other")
    /\ \/ UNCHANGED <<rows, nextId, nextLogId, saved>>
       \/ /\ "rollback" \in Faults
          /\ saved # NoTx
          /\ RestoreSaved
    /\ UNCHANGED lastRowid

-----------------------------------------------------------------------------
(* The statements.                                                         *)

NewRow(id, c) == [id |-> id, sha |-> c, count |-> 0, logs |-> 0]

\* Mutant: without AUTOINCREMENT sqlite takes the largest rowid in use plus one.
InsertReusingIds(v, c) ==
    LET used == {rows[u].id : u \in {w \in Versions : rows[w] # NoRow}}
        id == CHOOSE i \in 1..nextId :
                /\ \A j \in used : j < i
                /\ i = 1 \/ i - 1 \in used
    IN  /\ rows[v] = NoRow
        /\ rows' = [rows EXCEPT ![v] = NewRow(id, c)]
        /\ nextId' = nextId + 1
        /\ lastRowid' = id
        /\ Changed(1)
        /\ UNCHANGED <<nextLogId, saved>>

\* INSERT INTO versions.
InsertVersion(v, c) ==
    /\ rows[v] = NoRow
    /\ rows' = [rows EXCEPT ![v] = NewRow(nextId, c)]
    /\ nextId' = nextId + 1
    /\ lastRowid' = nextId
    /\ Changed(1)
    /\ UNCHANGED <<nextLogId, saved>>

\* The same INSERT against a version that has a row.
InsertConflicts(v) ==
    /\ rows[v] # NoRow
    /\ Refused("UNIQUE")
    /\ UNCHANGED <<rows, nextId, nextLogId, saved, lastRowid>>

\* Mutant: the WHERE is forgotten.
DeleteAllVersions(v) ==
    /\ rows' = [w \in Versions |-> NoRow]
    /\ Changed(Cardinality({w \in Versions : rows[w] # NoRow}))
    /\ UNCHANGED <<nextId, nextLogId, saved, lastRowid>>

\* DELETE FROM versions WHERE version = ?; ON DELETE CASCADE takes the logs.
DeleteVersion(v) ==
    /\ rows' = [rows EXCEPT ![v] = NoRow]
    /\ Changed(IF rows[v] = NoRow THEN 0 ELSE 1)
    /\ UNCHANGED <<nextId, nextLogId, saved, lastRowid>>

\* UPDATE versions SET description = ?; the text itself is left out.
UpdateDescription(v) ==
    /\ Changed(IF rows[v] = NoRow THEN 0 ELSE 1)
    /\ UNCHANGED <<rows, nextId, nextLogId, saved, lastRowid>>

\* The atomic UPDATE of increment_download_count; no row, no change, no error.
IncrementCount(id) ==
    /\ rows' = [v \in Versions |->
                    IF HasId(v, id) THEN [rows[v] EXCEPT !.count = @ + 1]
                                    ELSE rows[v]]
    /\ Changed(IF \E v \in Versions : HasId(v, id) THEN 1 ELSE 0)
    /\ UNCHANGED <<nextId, nextLogId, saved, lastRowid>>

\* INSERT INTO download_logs with its foreign key on versions(id).
LogDownload(id) ==
    IF \E v \in Versions : HasId(v, id)
    THEN /\ rows' = [v \in Versions |->
                        IF HasId(v, id) THEN [rows[v] EXCEPT !.logs = @ + 1]
                                        ELSE rows[v]]
         /\ nextLogId' = nextLogId + 1
         /\ lastRowid' = nextLogId
         /\ Changed(1)
         /\ UNCHANGED <<nextId, saved>>
    ELSE /\ Refused("other")
         /\ UNCHANGED <<rows, nextId, nextLogId, saved, lastRowid>>

\* The process dies: WAL recovery drops an open transaction, and the new
\* connection starts with no results of earlier calls.
Reopen ==
    /\ RestoreSaved
    /\ changes' = 0
    /\ lastRowid' = 0
    /\ errmsg' = "none"
=============================================================================
