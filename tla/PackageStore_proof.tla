------------------------ MODULE PackageStore_proof ------------------------
(***************************************************************************)
(* Proofs about PackageStore, for all values of its constants.             *)
(***************************************************************************)
EXTENDS PackageStore, TLAPS

-----------------------------------------------------------------------------
(* Type correctness.  A handler reads the content it was given and the     *)
(* version it looked up only at the places where it has one.               *)

Carrying ==
    /\ \A a \in Admins :
        apc[a] \in {"exists", "fopen", "fwrite", "insert"} => data[a] \in Contents
    /\ \A c \in Clients : cpc[c] = "open" => cver[c] \in Versions

TypeInv == TypeOK /\ Carrying

\* Every call on the connection keeps the types of its state, which the server
\* shares between all its threads (Database::db_).
LEMMA CallsKeepTypes ==
    ASSUME DbTypeOK
    PROVE  /\ Select => DbTypeOK'
           /\ Begin \/ BeginRefused \/ Commit \/ Rollback => DbTypeOK'
           /\ StatementFails => DbTypeOK'
           /\ Reopen => DbTypeOK'
<1> USE DEF DbTypeOK
<1>1. Select => DbTypeOK'
  BY DEF Select
<1>2. Begin \/ BeginRefused \/ Commit => DbTypeOK'
  BY DEF Begin, BeginRefused, Commit
<1>3. RestoreSaved => /\ rows' \in Tables
                      /\ nextId' \in Nat /\ nextLogId' \in Nat
                      /\ saved' = NoTx
  BY SentinelAssumption DEF RestoreSaved
<1>4. Rollback => DbTypeOK'
  BY <1>3 DEF Rollback
<1>5. StatementFails => DbTypeOK'
  BY <1>3 DEF StatementFails, Refused
<1>6. Reopen => DbTypeOK'
  BY <1>3 DEF Reopen
<1> QED
  BY <1>1, <1>2, <1>4, <1>5, <1>6

\* The statements on the versions table.
LEMMA VersionStatementsKeepTypes ==
    ASSUME DbTypeOK, NEW v \in Versions
    PROVE  /\ \A k \in Contents : InsertVersion(v, k) => DbTypeOK'
           /\ InsertConflicts(v) => DbTypeOK'
           /\ DeleteVersion(v) => DbTypeOK'
           /\ UpdateDescription(v) => DbTypeOK'
<1> USE DEF DbTypeOK
<1>1. ASSUME NEW k \in Contents, InsertVersion(v, k) PROVE DbTypeOK'
  <2>1. NewRow(nextId, k) \in Row
    BY DEF NewRow, Row
  <2>2. rows' \in Tables
    BY <1>1, <2>1 DEF InsertVersion, Tables
  <2> QED
    BY <1>1, <2>2 DEF InsertVersion, Changed
<1>2. InsertConflicts(v) \/ UpdateDescription(v) => DbTypeOK'
  BY DEF InsertConflicts, UpdateDescription, Refused, Changed
<1>3. DeleteVersion(v) => DbTypeOK'
  BY DEF DeleteVersion, Changed, Tables
<1> QED
  BY <1>1, <1>2, <1>3

\* The statements that keep the statistics of a row.
LEMMA StatisticsKeepTypes ==
    ASSUME DbTypeOK, NEW i \in Nat
    PROVE  /\ IncrementCount(i) => DbTypeOK'
           /\ LogDownload(i) => DbTypeOK'
<1> USE DEF DbTypeOK
<1>1. ASSUME NEW w \in Versions, HasId(w, i)
      PROVE  /\ [rows[w] EXCEPT !.count = @ + 1] \in Row
             /\ [rows[w] EXCEPT !.logs = @ + 1] \in Row
  BY <1>1 DEF HasId, Tables, Row
<1>2. IncrementCount(i) => DbTypeOK'
  BY <1>1 DEF IncrementCount, Changed, Tables
<1>3. ASSUME LogDownload(i) PROVE DbTypeOK'
  <2>1. CASE \E w \in Versions : HasId(w, i)
    <3>1. rows' \in Tables
      BY <1>1, <1>3, <2>1 DEF LogDownload, Tables
    <3> QED
      BY <1>3, <2>1, <3>1 DEF LogDownload, Changed
  <2>2. CASE ~ \E w \in Versions : HasId(w, i)
    BY <1>3, <2>2 DEF LogDownload, Refused
  <2> QED
    BY <2>1, <2>2
<1> QED
  BY <1>2, <1>3

LEMMA RequestsKeepTypes ==
    ASSUME TypeInv, NEW a \in Admins, Request(a)
    PROVE  TypeInv'
<1> USE DEF TypeInv, TypeOK
<1>1. ASSUME NEW S \in SUBSET Versions, NEW k \in Contents \cup {Partial},
             NEW first \in {"exists", "delete", "update", "begin"},
             first = "exists" => k \in Contents, Receive(a, first, S, k)
      PROVE  TypeInv'
  <2>1. DbTypeOK'
    BY <1>1 DEF Receive, DbTypeOK, dbVars
  <2>2. StoreTypeOK'
    BY <1>1 DEF Receive, Goto, Did, NoReply, StoreTypeOK, AdminPc, fileVars, clientVars
  <2>3. Carrying'
    BY <1>1 DEF Receive, Goto, Carrying, StoreTypeOK, clientVars
  <2> QED
    BY <2>1, <2>2, <2>3
<1>2. CASE ReceiveUpload(a)
  <2>1. PICK v \in Versions, k \in Contents : Receive(a, "exists", {v}, k)
    BY <1>2 DEF ReceiveUpload
  <2> QED
    BY <1>1, <2>1
<1>3. CASE ReceiveDelete(a)
  <2>1. PICK v \in Versions : Receive(a, "delete", {v}, Partial)
    BY <1>3 DEF ReceiveDelete
  <2> QED
    BY <1>1, <2>1
<1>4. CASE ReceiveUpdate(a)
  <2>1. PICK v \in Versions : Receive(a, "update", {v}, Partial)
    BY <1>4 DEF ReceiveUpdate
  <2> QED
    BY <1>1, <2>1
<1>5. CASE ReceiveBatch(a)
  <2>1. PICK S \in SUBSET Versions : Receive(a, "begin", S, Partial)
    BY <1>5 DEF ReceiveBatch
  <2> QED
    BY <1>1, <2>1
<1> QED
  BY <1>2, <1>3, <1>4, <1>5 DEF Request

\* Where a handler goes next is a place it has.
LEMMA GotoType ==
    ASSUME StoreTypeOK, NEW a \in Admins, NEW from, NEW to \in AdminPc, Goto(a, from, to)
    PROVE  apc' \in [Admins -> AdminPc]
BY DEF StoreTypeOK, Goto

\* An answer clears what the handler knew of its request.
LEMMA AnswerType ==
    ASSUME StoreTypeOK, NEW a \in Admins, NEW from, NEW i \in Nat,
           NEW status \in {200, 201, 404, 409, 500}, AnswerWithId(a, from, status, i)
    PROVE  /\ apc' \in [Admins -> AdminPc]
           /\ todo' \in [Admins -> SUBSET Versions]
           /\ left' \in [Admins -> SUBSET Versions]
           /\ data' \in [Admins -> Contents \cup {Partial}]
           /\ afd' \in [Admins -> Inodes \cup {NoInode}]
           /\ reply' \in [Admins -> [status : {0, 200, 201, 404, 409, 500}, id : Nat]]
<1>1. apc' \in [Admins -> AdminPc]
  BY GotoType DEF AnswerWithId, AdminPc
<1>2. todo' \in [Admins -> SUBSET Versions] /\ left' \in [Admins -> SUBSET Versions]
  BY DEF AnswerWithId, StoreTypeOK
<1>3. /\ data' \in [Admins -> Contents \cup {Partial}]
      /\ afd' \in [Admins -> Inodes \cup {NoInode}]
  BY DEF AnswerWithId, StoreTypeOK
<1>4. [status |-> status, id |-> i] \in [status : {0, 200, 201, 404, 409, 500}, id : Nat]
  OBVIOUS
<1>5. reply' \in [Admins -> [status : {0, 200, 201, 404, 409, 500}, id : Nat]]
  BY <1>4 DEF AnswerWithId, StoreTypeOK
<1> QED
  BY <1>1, <1>2, <1>3, <1>5

\* A step of an admin handler that answers.
LEMMA AnswerKeepsTypes ==
    ASSUME StoreTypeOK, Carrying, NEW a \in Admins, NEW from, NEW i \in Nat,
           NEW status \in {200, 201, 404, 409, 500}, AnswerWithId(a, from, status, i),
           dir' \in [Versions -> Inodes \cup {NoInode}],
           disk' \in [Inodes -> Contents \cup {Partial}],
           effect' \in [Admins -> Nat], UNCHANGED clientVars
    PROVE  StoreTypeOK' /\ Carrying'
<1>1. StoreTypeOK'
  BY AnswerType DEF StoreTypeOK, clientVars
<1>2. Carrying'
  BY DEF AnswerWithId, Goto, StoreTypeOK, Carrying, clientVars
<1> QED
  BY <1>1, <1>2

\* A step of an admin handler that goes on.
LEMMA ProceedKeepsTypes ==
    ASSUME StoreTypeOK, Carrying, NEW a \in Admins, NEW from, NEW to \in AdminPc,
           Goto(a, from, to),
           to \in {"exists", "fopen", "fwrite", "insert"} =>
               from \in {"exists", "fopen", "fwrite", "insert"},
           dir' \in [Versions -> Inodes \cup {NoInode}],
           disk' \in [Inodes -> Contents \cup {Partial}],
           todo' \in [Admins -> SUBSET Versions],
           left' \in [Admins -> SUBSET Versions],
           afd' \in [Admins -> Inodes \cup {NoInode}],
           effect' \in [Admins -> Nat], UNCHANGED <<data, reply, clientVars>>
    PROVE  StoreTypeOK' /\ Carrying'
<1>1. apc' \in [Admins -> AdminPc]
  BY GotoType
<1>2. StoreTypeOK'
  BY <1>1 DEF StoreTypeOK, clientVars
<1>3. Carrying'
  BY DEF Goto, StoreTypeOK, Carrying, clientVars
<1> QED
  BY <1>2, <1>3

\* What is typed already and a step may leave as it is.
LEMMA TypedParts ==
    ASSUME StoreTypeOK
    PROVE  /\ dir \in [Versions -> Inodes \cup {NoInode}]
           /\ disk \in [Inodes -> Contents \cup {Partial}]
           /\ todo \in [Admins -> SUBSET Versions]
           /\ left \in [Admins -> SUBSET Versions]
           /\ afd \in [Admins -> Inodes \cup {NoInode}]
           /\ effect \in [Admins -> Nat]
BY DEF StoreTypeOK

\* The same two for a step that touches neither the files nor the downloads.
LEMMA QuietAnswerKeepsTypes ==
    ASSUME StoreTypeOK, Carrying, NEW a \in Admins, NEW from, NEW i \in Nat,
           NEW status \in {200, 201, 404, 409, 500}, AnswerWithId(a, from, status, i),
           effect' \in [Admins -> Nat], UNCHANGED <<fileVars, clientVars>>
    PROVE  StoreTypeOK' /\ Carrying'
BY TypedParts, AnswerKeepsTypes DEF fileVars

LEMMA QuietProceedKeepsTypes ==
    ASSUME StoreTypeOK, Carrying, NEW a \in Admins, NEW from, NEW to \in AdminPc,
           Goto(a, from, to), KeepRequest,
           to \in {"exists", "fopen", "fwrite", "insert"} =>
               from \in {"exists", "fopen", "fwrite", "insert"},
           effect' \in [Admins -> Nat], UNCHANGED <<fileVars, clientVars>>
    PROVE  StoreTypeOK' /\ Carrying'
BY TypedParts, ProceedKeepsTypes DEF fileVars, KeepRequest

LEMMA UnlinkKeepsTypes ==
    ASSUME StoreTypeOK, NEW v \in Versions, RemoveFile(v)
    PROVE  /\ dir' \in [Versions -> Inodes \cup {NoInode}]
           /\ disk' \in [Inodes -> Contents \cup {Partial}]
BY DEF StoreTypeOK, RemoveFile, Unlink, fileVars

LEMMA UploadKeepsTypes ==
    ASSUME TypeInv, NEW a \in Admins, Upload(a)
    PROVE  TypeInv'
<1> USE TypedParts DEF TypeInv, TypeOK
<1>0. /\ StoreTypeOK /\ Carrying /\ DbTypeOK
      /\ {"exists", "fopen", "fwrite", "insert", "rowid", "errmsg",
          "undo_dup", "undo_other"} \subseteq AdminPc
  BY DEF AdminPc
<1>u. UNCHANGED dbVars => DbTypeOK'
  BY DEF DbTypeOK, dbVars
<1>1. CASE CheckExists(a)
  <2>1. DbTypeOK'
    BY <1>1, CallsKeepTypes DEF CheckExists
  <2>2. CASE Answer(a, "exists", 409)
    BY <1>0, <1>1, <2>1, <2>2, QuietAnswerKeepsTypes DEF CheckExists, Answer
  <2>3. CASE Goto(a, "exists", "fopen") /\ KeepRequest
    BY <1>0, <1>1, <2>1, <2>3, QuietProceedKeepsTypes DEF CheckExists
  <2> QED
    BY <1>1, <2>2, <2>3 DEF CheckExists
<1>2. CASE OpenFile(a)
  <2>1. DbTypeOK'
    BY <1>2, <1>u DEF OpenFile
  <2>2. /\ dir' \in [Versions -> Inodes \cup {NoInode}]
        /\ disk' \in [Inodes -> Contents \cup {Partial}]
        /\ afd' \in [Admins -> Inodes \cup {NoInode}]
    BY <1>2 DEF OpenFile
  <2>3. Goto(a, "fopen", "fwrite") /\ UNCHANGED <<clientVars, todo, left, data, reply, effect>>
    BY <1>2 DEF OpenFile
  <2> QED
    BY <1>0, <2>1, <2>2, <2>3, ProceedKeepsTypes
<1>3. CASE OpenFileFails(a) \/ WriteFileFails(a)
  <2>1. DbTypeOK'
    BY <1>3, <1>u DEF OpenFileFails, WriteFileFails
  <2> QED
    BY <1>0, <1>3, <2>1, QuietAnswerKeepsTypes DEF OpenFileFails, WriteFileFails, Answer
<1>4. CASE WriteFile(a)
  <2>1. DbTypeOK'
    BY <1>4, <1>u DEF WriteFile
  <2>2. data[a] \in Contents \cup {Partial}
    BY DEF StoreTypeOK
  <2>3. /\ dir' \in [Versions -> Inodes \cup {NoInode}]
        /\ disk' \in [Inodes -> Contents \cup {Partial}]
        /\ afd' \in [Admins -> Inodes \cup {NoInode}]
    BY <1>4, <2>2 DEF WriteFile
  <2>4. Goto(a, "fwrite", "insert") /\ UNCHANGED <<clientVars, todo, left, data, reply, effect>>
    BY <1>4 DEF WriteFile
  <2> QED
    BY <1>0, <2>1, <2>3, <2>4, ProceedKeepsTypes
<1>5. CASE Insert(a)
  <2>1. PICK v \in Versions :
            \/ InsertVersion(v, data[a]) /\ Did(a, nextId) /\ Goto(a, "insert", "rowid")
            \/ /\ InsertConflicts(v) \/ StatementFails
               /\ Goto(a, "insert", "errmsg")
               /\ UNCHANGED effect
    BY <1>5 DEF Insert
  <2>2. KeepRequest /\ UNCHANGED <<fileVars, clientVars>>
    BY <1>5 DEF Insert
  <2>3. CASE InsertVersion(v, data[a]) /\ Did(a, nextId) /\ Goto(a, "insert", "rowid")
    <3>1. data[a] \in Contents
      BY <1>0, <2>3 DEF Carrying, Goto
    <3>2. DbTypeOK'
      BY <1>0, <2>3, <3>1, VersionStatementsKeepTypes
    <3>3. effect' \in [Admins -> Nat]
      BY <1>0, <2>3 DEF Did, DbTypeOK
    <3> QED
      BY <1>0, <2>2, <2>3, <3>2, <3>3, QuietProceedKeepsTypes
  <2>4. CASE /\ InsertConflicts(v) \/ StatementFails
             /\ Goto(a, "insert", "errmsg")
             /\ UNCHANGED effect
    <3>1. DbTypeOK'
      BY <1>0, <2>4, VersionStatementsKeepTypes, CallsKeepTypes
    <3> QED
      BY <1>0, <2>2, <2>4, <3>1, QuietProceedKeepsTypes
  <2> QED
    BY <2>1, <2>3, <2>4
<1>6. CASE AnswerUpload(a)
  <2>1. DbTypeOK' /\ lastRowid \in Nat
    BY <1>6, <1>u DEF AnswerUpload, DbTypeOK
  <2> QED
    BY <1>0, <1>6, <2>1, QuietAnswerKeepsTypes DEF AnswerUpload
<1>7. CASE ReadError(a)
  <2>1. DbTypeOK'
    BY <1>7, <1>u DEF ReadError
  <2>2. PICK to \in {"undo_dup", "undo_other"} : Goto(a, "errmsg", to)
    BY <1>7 DEF ReadError
  <2> QED
    BY <1>0, <1>7, <2>1, <2>2, QuietProceedKeepsTypes DEF ReadError
<1>8. CASE UndoUpload(a)
  <2>1. DbTypeOK'
    BY <1>8, <1>u DEF UndoUpload
  <2>2. PICK v \in Versions : RemoveFile(v)
    BY <1>8 DEF UndoUpload
  <2>3. PICK from \in AdminPc, status \in {409, 500} : AnswerWithId(a, from, status, 0)
    BY <1>0, <1>8 DEF UndoUpload, Answer
  <2> QED
    BY <1>0, <1>8, <2>1, <2>2, <2>3, UnlinkKeepsTypes, AnswerKeepsTypes DEF UndoUpload
<1> QED
  BY <1>1, <1>2, <1>3, <1>4, <1>5, <1>6, <1>7, <1>8 DEF Upload

LEMMA SingleVersionKeepsTypes ==
    ASSUME TypeInv, NEW a \in Admins, SingleVersion(a) \/ UnlinkOne(a)
    PROVE  TypeInv'
<1> USE TypedParts DEF TypeInv, TypeOK
<1>0. /\ StoreTypeOK /\ Carrying /\ DbTypeOK
      /\ {"delete", "changed", "update", "matched", "unlink"} \subseteq AdminPc
  BY DEF AdminPc
<1>u. UNCHANGED dbVars => DbTypeOK'
  BY DEF DbTypeOK, dbVars
<1>d. ASSUME NEW v \in Versions, Did(a, Matched(v)) PROVE effect' \in [Admins -> Nat]
  BY <1>0, <1>d DEF Did, Matched
<1>1. CASE Delete(a)
  <2>1. PICK v \in Versions :
            \/ DeleteVersion(v) /\ Did(a, Matched(v)) /\ Goto(a, "delete", "changed") /\ KeepRequest
            \/ StatementFails /\ AnswerWithId(a, "delete", 500, 0) /\ UNCHANGED effect
    BY <1>1 DEF Delete, Answer
  <2>2. DbTypeOK'
    BY <1>0, <2>1, VersionStatementsKeepTypes, CallsKeepTypes
  <2>3. effect' \in [Admins -> Nat] /\ UNCHANGED <<fileVars, clientVars>>
    BY <1>0, <1>1, <1>d, <2>1 DEF Delete
  <2> QED
    BY <1>0, <2>1, <2>2, <2>3, QuietAnswerKeepsTypes, QuietProceedKeepsTypes
<1>2. CASE ReadChanges(a)
  <2>1. DbTypeOK'
    BY <1>2, <1>u DEF ReadChanges
  <2> QED
    BY <1>0, <1>2, <2>1, QuietAnswerKeepsTypes, QuietProceedKeepsTypes DEF ReadChanges, Answer
<1>3. CASE Update(a)
  <2>1. PICK v \in Versions :
            \/ UpdateDescription(v) /\ Did(a, Matched(v)) /\ Goto(a, "update", "matched") /\ KeepRequest
            \/ StatementFails /\ AnswerWithId(a, "update", 500, 0) /\ UNCHANGED effect
    BY <1>3 DEF Update, Answer
  <2>2. DbTypeOK'
    BY <1>0, <2>1, VersionStatementsKeepTypes, CallsKeepTypes
  <2>3. effect' \in [Admins -> Nat] /\ UNCHANGED <<fileVars, clientVars>>
    BY <1>0, <1>3, <1>d, <2>1 DEF Update
  <2> QED
    BY <1>0, <2>1, <2>2, <2>3, QuietAnswerKeepsTypes, QuietProceedKeepsTypes
<1>4. CASE AnswerUpdate(a)
  <2>1. DbTypeOK'
    BY <1>4, <1>u DEF AnswerUpdate
  <2>2. PICK status \in {200, 404} : AnswerWithId(a, "matched", status, 0)
    BY <1>4 DEF AnswerUpdate, Answer
  <2> QED
    BY <1>0, <1>4, <2>1, <2>2, QuietAnswerKeepsTypes DEF AnswerUpdate
<1>5. CASE UnlinkOne(a)
  <2>1. DbTypeOK' /\ effect' \in [Admins -> Nat] /\ UNCHANGED clientVars
    BY <1>0, <1>5, <1>u DEF UnlinkOne
  <2>2. PICK v \in Versions :
            /\ RemoveFile(v)
            /\ \/ AnswerWithId(a, "unlink", 200, 0)
               \/ /\ apc[a] = "unlink"
                  /\ todo' = [todo EXCEPT ![a] = @ \ {v}]
                  /\ UNCHANGED <<apc, left, data, afd, reply>>
    BY <1>5 DEF UnlinkOne, Answer
  <2>3. CASE AnswerWithId(a, "unlink", 200, 0)
    BY <1>0, <2>1, <2>2, <2>3, UnlinkKeepsTypes, AnswerKeepsTypes
  <2>4. CASE /\ apc[a] = "unlink"
             /\ todo' = [todo EXCEPT ![a] = @ \ {v}]
             /\ UNCHANGED <<apc, left, data, afd, reply>>
    <3>1. /\ dir' \in [Versions -> Inodes \cup {NoInode}]
          /\ disk' \in [Inodes -> Contents \cup {Partial}]
          /\ todo' \in [Admins -> SUBSET Versions]
      BY <1>0, <2>2, <2>4, UnlinkKeepsTypes
    <3>2. StoreTypeOK'
      BY <1>0, <2>1, <2>4, <3>1 DEF StoreTypeOK, clientVars
    <3>3. Carrying'
      BY <1>0, <2>1, <2>4 DEF Carrying, clientVars
    <3> QED
      BY <2>1, <3>2, <3>3
  <2> QED
    BY <2>2, <2>3, <2>4
<1> QED
  BY <1>1, <1>2, <1>3, <1>4, <1>5 DEF SingleVersion

LEMMA BatchKeepsTypes ==
    ASSUME TypeInv, NEW a \in Admins, Batch(a)
    PROVE  TypeInv'
<1> USE TypedParts DEF TypeInv, TypeOK
<1>0. /\ StoreTypeOK /\ Carrying /\ DbTypeOK
      /\ {"begin", "each", "commit", "rollback", "unlink"} \subseteq AdminPc
  BY DEF AdminPc, InBatch
<1>1. CASE BeginBatch(a)
  <2>1. DbTypeOK' /\ UNCHANGED <<fileVars, clientVars, effect>>
    BY <1>0, <1>1, CallsKeepTypes DEF BeginBatch
  <2>2. CASE /\ Goto(a, "begin", "each")
             /\ left' = [left EXCEPT ![a] = todo[a]]
             /\ UNCHANGED <<todo, data, afd, reply>>
    <3>1. left' \in [Admins -> SUBSET Versions]
      BY <1>0, <2>2
    <3> QED
      BY <1>0, <2>1, <2>2, <3>1, ProceedKeepsTypes DEF fileVars
  <2>3. CASE AnswerWithId(a, "begin", 500, 0)
    BY <1>0, <2>1, <2>3, QuietAnswerKeepsTypes
  <2> QED
    BY <1>1, <2>2, <2>3 DEF BeginBatch, Answer
<1>2. CASE DeleteEach(a)
  <2>1. UNCHANGED <<fileVars, clientVars, todo, data, afd, reply>>
    BY <1>2 DEF DeleteEach
  <2>2. PICK v \in Versions :
            \/ /\ DeleteVersion(v)
               /\ Did(a, effect[a] + Matched(v))
               /\ left' = [left EXCEPT ![a] = @ \ {v}]
               /\ Goto(a, "each", "commit") \/ Goto(a, "each", "each")
            \/ /\ StatementFails
               /\ Goto(a, "each", "rollback")
               /\ UNCHANGED <<left, effect>>
    BY <1>0, <1>2 DEF DeleteEach
  <2>3. DbTypeOK'
    BY <1>0, <2>2, VersionStatementsKeepTypes, CallsKeepTypes
  <2>4. left' \in [Admins -> SUBSET Versions]
    BY <1>0, <2>2
  <2>5. effect' \in [Admins -> Nat]
    <3>1. effect[a] + Matched(v) \in Nat
      BY <1>0 DEF StoreTypeOK, Matched
    <3> QED
      BY <1>0, <2>2, <3>1 DEF StoreTypeOK, Did
  <2> QED
    BY <1>0, <2>1, <2>2, <2>3, <2>4, <2>5, ProceedKeepsTypes DEF fileVars
<1>3. CASE CommitBatch(a)
  <2>1. UNCHANGED <<fileVars, clientVars, effect>> /\ KeepRequest
    BY <1>3 DEF CommitBatch
  <2>2. DbTypeOK'
    BY <1>0, <1>3, CallsKeepTypes DEF CommitBatch, DbTypeOK
  <2>3. PICK to \in {"unlink", "rollback"} : Goto(a, "commit", to)
    BY <1>3 DEF CommitBatch
  <2> QED
    BY <1>0, <2>1, <2>2, <2>3, QuietProceedKeepsTypes
<1>4. CASE RollbackBatch(a)
  <2>1. DbTypeOK'
    BY <1>0, <1>4, CallsKeepTypes DEF RollbackBatch
  <2> QED
    BY <1>0, <1>4, <2>1, QuietAnswerKeepsTypes DEF RollbackBatch, Answer
<1> QED
  BY <1>1, <1>2, <1>3, <1>4 DEF Batch

LEMMA DownloadKeepsTypes ==
    ASSUME TypeInv, NEW c \in Clients, Download(c)
    PROVE  TypeInv'
<1> USE DEF TypeInv, TypeOK
<1>0. StoreTypeOK /\ Carrying /\ DbTypeOK /\ rid[c] \in Nat
  BY DEF StoreTypeOK
<1>1. UNCHANGED <<fileVars, adminVars>>
  BY DEF Download, Lookup, OpenPackage, PackageMissing, StreamDone, StreamCut, Count, Log
<1>2. DbTypeOK'
  <2>1. \/ Select \/ IncrementCount(rid[c]) \/ LogDownload(rid[c]) \/ StatementFails
        \/ UNCHANGED dbVars
    BY DEF Download, Lookup, OpenPackage, PackageMissing, StreamDone, StreamCut, Count, Log
  <2>2. UNCHANGED dbVars => DbTypeOK'
    BY <1>0 DEF DbTypeOK, dbVars
  <2> QED
    BY <1>0, <2>1, <2>2, CallsKeepTypes, StatisticsKeepTypes
<1>3. ASSUME /\ cpc' \in [Clients -> ClientPc]
             /\ cver' \in [Clients -> Versions \cup {NoVersion}]
             /\ rid' \in [Clients -> Nat]
             /\ cfd' \in [Clients -> Inodes \cup {NoInode}]
             /\ want' \in [Clients -> Contents \cup {Partial}]
      PROVE  StoreTypeOK'
  BY <1>0, <1>1, <1>3 DEF StoreTypeOK, fileVars, adminVars
<1>4. ASSUME \A d \in Clients : cpc'[d] = "open" => cver'[d] \in Versions
      PROVE  Carrying'
  BY <1>0, <1>1, <1>4 DEF Carrying, adminVars
<1>5. CASE Lookup(c)
  <2>1. PICK v \in Versions :
            /\ rows[v] # NoRow
            /\ cver' = [cver EXCEPT ![c] = v]
            /\ rid' = [rid EXCEPT ![c] = rows[v].id]
    BY <1>5 DEF Lookup
  <2>2. rows[v].id \in Nat
    BY <1>0, <2>1 DEF DbTypeOK, Tables, Row
  <2>3. StoreTypeOK'
    BY <1>0, <1>3, <1>5, <2>1, <2>2 DEF Lookup, StoreTypeOK, ClientPc
  <2>4. Carrying'
    BY <1>0, <1>4, <1>5, <2>1 DEF Lookup, StoreTypeOK, Carrying
  <2> QED
    BY <1>2, <2>3, <2>4
<1>6. CASE OpenPackage(c)
  <2>1. cver[c] \in Versions
    BY <1>0, <1>6 DEF OpenPackage, Carrying
  <2>2. dir[cver[c]] \in Inodes
    BY <1>0, <1>6, <2>1 DEF OpenPackage, StoreTypeOK
  <2>3. StoreTypeOK'
    BY <1>0, <1>3, <1>6, <2>2 DEF OpenPackage, StoreTypeOK, ClientPc
  <2>4. Carrying'
    BY <1>0, <1>4, <1>6 DEF OpenPackage, StoreTypeOK, Carrying
  <2> QED
    BY <1>2, <2>3, <2>4
<1>7. CASE StreamDone(c)
  <2>1. StoreTypeOK'
    BY <1>0, <1>3, <1>7 DEF StreamDone, StoreTypeOK, ClientPc
  <2>2. Carrying'
    BY <1>0, <1>4, <1>7 DEF StreamDone, StoreTypeOK, Carrying
  <2> QED
    BY <1>2, <2>1, <2>2
<1>8. CASE DownloadEnds(c)
  <2>1. StoreTypeOK'
    BY <1>0, <1>3, <1>8 DEF DownloadEnds, StoreTypeOK, ClientPc
  <2>2. Carrying'
    BY <1>0, <1>4, <1>8 DEF DownloadEnds, StoreTypeOK, Carrying
  <2> QED
    BY <1>2, <2>1, <2>2
<1>9. CASE Count(c)
  <2>1. StoreTypeOK'
    BY <1>0, <1>3, <1>9 DEF Count, StoreTypeOK, ClientPc
  <2>2. Carrying'
    BY <1>0, <1>4, <1>9 DEF Count, StoreTypeOK, Carrying
  <2> QED
    BY <1>2, <2>1, <2>2
<1> QED
  BY <1>5, <1>6, <1>7, <1>8, <1>9 DEF Download, PackageMissing, StreamCut, Log

LEMMA TypeStep == TypeInv /\ [Next]_vars => TypeInv'
<1> SUFFICES ASSUME TypeInv, [Next]_vars PROVE TypeInv'
  OBVIOUS
<1>0. DbTypeOK /\ StoreTypeOK /\ Carrying
  BY DEF TypeInv, TypeOK
<1>1. CASE \E a \in Admins : Request(a) \/ Serve(a)
  BY <1>1, RequestsKeepTypes, UploadKeepsTypes, SingleVersionKeepsTypes, BatchKeepsTypes
  DEF Serve
<1>2. CASE \E c \in Clients : Download(c)
  BY <1>2, DownloadKeepsTypes
<1>3. ASSUME UNCHANGED <<fileVars, adminVars, clientVars>> PROVE StoreTypeOK' /\ Carrying'
  BY <1>0, <1>3 DEF StoreTypeOK, Carrying, fileVars, adminVars, clientVars
<1>4. CASE ReadOnly
  BY <1>0, <1>3, <1>4, CallsKeepTypes DEF ReadOnly, TypeInv, TypeOK
<1>5. CASE Crash
  <2>1. DbTypeOK'
    BY <1>0, <1>5, CallsKeepTypes DEF Crash
  <2>2. StoreTypeOK'
    BY <1>0, <1>5 DEF Crash, StoreTypeOK, NoReply, AdminPc, ClientPc, fileVars
  <2>3. Carrying'
    BY <1>5 DEF Crash, Carrying
  <2> QED
    BY <2>1, <2>2, <2>3 DEF TypeInv, TypeOK
<1>6. CASE UNCHANGED vars
  <2>1. DbTypeOK'
    BY <1>0, <1>6 DEF DbTypeOK, dbVars, vars
  <2> QED
    BY <1>3, <1>6, <2>1 DEF vars, TypeInv, TypeOK
<1> QED
  BY <1>1, <1>2, <1>4, <1>5, <1>6 DEF Next

LEMMA TypeInit == Init => TypeInv
<1> SUFFICES ASSUME Init PROVE TypeInv
  OBVIOUS
<1>1. DbTypeOK
  BY DEF Init, DbInit, DbTypeOK, Tables
<1>2. StoreTypeOK
  BY DEF Init, NoRequests, NoReply, StoreTypeOK, AdminPc, ClientPc
<1>3. Carrying
  BY DEF Init, NoRequests, Carrying
<1> QED
  BY <1>1, <1>2, <1>3 DEF TypeInv, TypeOK

\* Every state the handlers reach, however they interleave and fail, has the
\* types of PackageStore.
THEOREM TypeCorrect == Spec => []TypeOK
<1>1. TypeInv => TypeOK
  BY DEF TypeInv
<1> QED
  BY <1>1, TypeInit, TypeStep, PTL DEF Spec
=============================================================================
