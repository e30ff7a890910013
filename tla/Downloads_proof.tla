--------------------------- MODULE Downloads_proof ---------------------------
(***************************************************************************)
(* What a download may rely on from looking up its row to writing the      *)
(* statistics: the id it holds is never given to another row, whoever      *)
(* works on whatever version, and while the row exists the file it has     *)
(* open is the file of the row, under the conditions of RowHasFile_proof.  *)
(* Both rest on what a transaction is: it always belongs to a batch.       *)
(***************************************************************************)
EXTENDS RowHasFile_proof

-----------------------------------------------------------------------------
(* Transactions.  A transaction is begun and ended by a batch; with no      *)
(* failing statement a batch always ends its own with COMMIT, and no other  *)
(* batch gets into its transaction.                                        *)

\* The handler of a starts a transaction by entering the batch, and leaves the
\* batch only with a statement after which no transaction is open.
LEMMA BatchEndsTransaction ==
    ASSUME TypeInv, NEW a \in Admins, Request(a) \/ Serve(a), saved' # NoTx
    PROVE  /\ apc[a] \in InBatch \/ saved = NoTx => apc'[a] \in InBatch
           /\ \A b \in Admins \ {a} : apc'[b] = apc[b]
<1>1. apc \in [Admins -> AdminPc]
  BY DEF TypeInv, TypeOK, StoreTypeOK
<1>2. ASSUME StatementFails PROVE saved # NoTx
  BY <1>2 DEF StatementFails, RestoreSaved
<1> DEFINE Goal == /\ apc[a] \in InBatch \/ saved = NoTx => apc'[a] \in InBatch
                   /\ \A b \in Admins \ {a} : apc'[b] = apc[b]
<1>3. CASE Request(a)
  BY <1>1, <1>3 DEF Request, ReceiveUpload, ReceiveDelete, ReceiveUpdate, ReceiveBatch, Receive,
     dbVars, InBatch, Goto
<1>4. CASE Upload(a)
  <2>1. saved # NoTx
    BY <1>2, <1>4 DEF Upload, CheckExists, OpenFile, OpenFileFails, WriteFile, WriteFileFails, Insert,
       AnswerUpload, ReadError, UndoUpload, Select, dbVars, InsertVersion, InsertConflicts
  <2>2. CASE CheckExists(a) \/ OpenFile(a) \/ OpenFileFails(a) \/ WriteFile(a) \/ WriteFileFails(a)
    BY <1>1, <2>1, <2>2
    DEF CheckExists, OpenFile, OpenFileFails, WriteFile, WriteFileFails, Answer, AnswerWithId, Goto, InBatch
  <2>3. CASE Insert(a) \/ AnswerUpload(a) \/ ReadError(a) \/ UndoUpload(a)
    BY <1>1, <2>1, <2>3
    DEF Insert, AnswerUpload, ReadError, UndoUpload, Answer, AnswerWithId, Goto, InBatch
  <2> QED BY <1>4, <2>2, <2>3 DEF Upload
<1>5. CASE SingleVersion(a)
  <2>1. saved # NoTx
    BY <1>2, <1>5 DEF SingleVersion, Delete, ReadChanges, Update, AnswerUpdate, dbVars, DeleteVersion,
       UpdateDescription
  <2> QED
    BY <1>1, <1>5, <2>1
    DEF SingleVersion, Delete, ReadChanges, Update, AnswerUpdate, Answer, AnswerWithId, Goto, InBatch
<1>6. CASE UnlinkOne(a)
  BY <1>1, <1>6 DEF UnlinkOne, dbVars, Answer, AnswerWithId, Goto, InBatch
<1>7. CASE Batch(a)
  <2>1. CASE BeginBatch(a)
    BY <1>1, <2>1 DEF BeginBatch, BeginRefused, Answer, AnswerWithId, Goto, InBatch
  <2>2. CASE DeleteEach(a)
    BY <1>1, <2>2 DEF DeleteEach, Goto, InBatch
  <2>3. CASE CommitBatch(a)
    BY <1>1, <2>3 DEF CommitBatch, Commit, Goto, InBatch
  <2>4. CASE RollbackBatch(a)
    BY <2>4 DEF RollbackBatch, Rollback, RestoreSaved
  <2> QED BY <1>7, <2>1, <2>2, <2>3, <2>4 DEF Batch
<1> QED BY <1>3, <1>4, <1>5, <1>6, <1>7 DEF Serve

LEMMA OwnerStep ==
    ASSUME TypeInv, TransactionHasOwner, [Next]_vars
    PROVE  TransactionHasOwner'
<1> SUFFICES ASSUME saved' # NoTx PROVE \E a \in Admins : apc'[a] \in InBatch
  BY DEF TransactionHasOwner
<1>1. CASE \E a \in Admins : Request(a) \/ Serve(a)
  BY <1>1, BatchEndsTransaction DEF TransactionHasOwner
<1>2. ASSUME UNCHANGED <<saved, apc>> PROVE \E a \in Admins : apc'[a] \in InBatch
  BY <1>2 DEF TransactionHasOwner
<1>3. ASSUME NEW c \in Clients, Download(c) PROVE \E a \in Admins : apc'[a] \in InBatch
  <2>1. apc' = apc
    BY <1>3 DEF Download, Lookup, OpenPackage, PackageMissing, StreamDone, StreamCut, Count, Log, adminVars
  <2>2. saved # NoTx
    BY <1>3 DEF Download, Lookup, OpenPackage, PackageMissing, StreamDone, StreamCut, Count, Log,
       Select, dbVars, IncrementCount, LogDownload, StatementFails, RestoreSaved
  <2> QED BY <2>1, <2>2 DEF TransactionHasOwner
<1>4. ASSUME Crash PROVE FALSE
  BY <1>4 DEF Crash, Reopen, RestoreSaved
<1> QED BY <1>1, <1>2, <1>3, <1>4 DEF Next, ReadOnly, Select, adminVars, vars, dbVars

\* An open transaction has a batch handler that is going to end it
\* (database.cpp:428-475), for any number of administrators on any versions,
\* whatever fails, rolls back or crashes.
THEOREM TransactionsOwned == Spec => []TransactionHasOwner
<1>1. Init => TransactionHasOwner
  BY DEF Init, DbInit, TransactionHasOwner
<1>2. TypeInv /\ TransactionHasOwner /\ [Next]_vars => TransactionHasOwner'
  BY OwnerStep
<1> QED BY <1>1, <1>2, TypeInit, TypeStep, PTL DEF Spec

NothingFails == "statement" \notin Faults

\* A batch past its BEGIN is in its own transaction, and alone in it.
Batches ==
    NothingFails =>
        /\ \A a \in Admins : apc[a] # "rollback"
        /\ \A a \in Admins : apc[a] \in {"each", "commit"} => saved # NoTx
        /\ \A a, b \in Admins :
            apc[a] \in {"each", "commit"} /\ apc[b] \in {"each", "commit"} => a = b

TxInv == TypeInv /\ TransactionHasOwner /\ Batches

\* The handlers outside a batch neither enter one nor touch the transaction.
LEMMA SingleStatements ==
    ASSUME NothingFails, TypeInv, NEW a \in Admins,
           Request(a) \/ Upload(a) \/ SingleVersion(a) \/ UnlinkOne(a)
    PROVE  /\ saved' = saved /\ \A b \in Admins \ {a} : apc'[b] = apc[b]
           /\ apc'[a] \notin {"each", "commit", "rollback"}
<1>1. apc \in [Admins -> AdminPc]
  BY DEF TypeInv, TypeOK, StoreTypeOK
<1>2. ~ StatementFails
  BY DEF NothingFails, StatementFails
<1>3. CASE Request(a)
  BY <1>1, <1>3 DEF Request, ReceiveUpload, ReceiveDelete, ReceiveUpdate, ReceiveBatch, Receive,
     dbVars, Goto
<1>4. CASE CheckExists(a) \/ OpenFile(a) \/ OpenFileFails(a) \/ WriteFile(a) \/ WriteFileFails(a)
  BY <1>1, <1>4
  DEF CheckExists, OpenFile, OpenFileFails, WriteFile, WriteFileFails, Select, dbVars,
      Answer, AnswerWithId, Goto
<1>5. CASE Insert(a) \/ AnswerUpload(a) \/ ReadError(a) \/ UndoUpload(a)
  BY <1>1, <1>2, <1>5
  DEF Insert, AnswerUpload, ReadError, UndoUpload, InsertVersion, InsertConflicts, dbVars,
      Answer, AnswerWithId, Goto
<1>6. CASE SingleVersion(a)
  BY <1>1, <1>2, <1>6
  DEF SingleVersion, Delete, ReadChanges, Update, AnswerUpdate, DeleteVersion, UpdateDescription,
      dbVars, Answer, AnswerWithId, Goto
<1>7. CASE UnlinkOne(a)
  BY <1>1, <1>7 DEF UnlinkOne, dbVars, Answer, AnswerWithId, Goto
<1> QED BY <1>3, <1>4, <1>5, <1>6, <1>7 DEF Upload

LEMMA BatchesStep ==
    ASSUME TypeInv, Batches, [Next]_vars
    PROVE  Batches'
<1> SUFFICES ASSUME NothingFails PROVE Batches'
  BY DEF Batches
<1>1. apc \in [Admins -> AdminPc]
  BY DEF TypeInv, TypeOK, StoreTypeOK
<1>2. ~ StatementFails
  BY DEF NothingFails, StatementFails
<1>3. ASSUME UNCHANGED <<saved, apc>> PROVE Batches'
  BY <1>3 DEF Batches
<1>4. ASSUME NEW a \in Admins, Request(a) \/ Upload(a) \/ SingleVersion(a) \/ UnlinkOne(a)
      PROVE  Batches'
  BY <1>4, SingleStatements DEF Batches
<1>5. ASSUME NEW a \in Admins, BeginBatch(a) PROVE Batches'
  <2>1. CASE Begin /\ Goto(a, "begin", "each")
    BY <1>1, <2>1, SentinelAssumption DEF Begin, Goto, Batches, TypeInv, TypeOK, DbTypeOK
  <2>2. CASE BeginRefused /\ Answer(a, "begin", 500)
    BY <1>1, <2>2 DEF BeginRefused, Answer, AnswerWithId, Goto, Batches
  <2> QED BY <1>5, <2>1, <2>2 DEF BeginBatch
<1>6. ASSUME NEW a \in Admins, DeleteEach(a) PROVE Batches'
  <2>1. /\ apc[a] = "each" /\ saved' = saved
        /\ apc'[a] \in {"each", "commit"} /\ \A b \in Admins \ {a} : apc'[b] = apc[b]
    BY <1>1, <1>2, <1>6 DEF DeleteEach, DeleteVersion, Goto
  <2> QED BY <2>1 DEF Batches
<1>7. ASSUME NEW a \in Admins, CommitBatch(a) PROVE Batches'
  <2>1. /\ apc[a] = "commit" /\ apc'[a] = "unlink" /\ \A b \in Admins \ {a} : apc'[b] = apc[b]
    BY <1>1, <1>2, <1>7 DEF CommitBatch, Goto, Batches
  <2> QED BY <2>1 DEF Batches
<1>8. ASSUME NEW a \in Admins, RollbackBatch(a) PROVE FALSE
  BY <1>8 DEF RollbackBatch, Answer, AnswerWithId, Goto, Batches
<1>9. ASSUME NEW c \in Clients, Download(c) PROVE Batches'
  BY <1>2, <1>3, <1>9 DEF Download, Lookup, OpenPackage, PackageMissing, StreamDone, StreamCut,
     Count, Log, Select, dbVars, adminVars, IncrementCount, LogDownload
<1>10. CASE Crash
  BY <1>10 DEF Crash, Batches
<1> QED BY <1>3, <1>4, <1>5, <1>6, <1>7, <1>8, <1>9, <1>10
        DEF Next, Serve, Batch, ReadOnly, Select, adminVars, vars, dbVars

LEMMA TxInit == Init => TxInv
BY TypeInit DEF Init, DbInit, NoRequests, TxInv, TransactionHasOwner, Batches

LEMMA TxStep == TxInv /\ [Next]_vars => TxInv'
BY TypeStep, OwnerStep, BatchesStep DEF TxInv

-----------------------------------------------------------------------------
(* What a step may do to the rows, to the names of files, and to the ids   *)
(* that downloads hold.                                                    *)

Asked(v) == \E a \in Admins : apc[a] \in {"delete", "each"} /\ v \in todo[a] \cup left[a]

RowStep ==
    \/ /\ UNCHANGED <<rows, nextId>>
       /\ saved' \in {saved, NoTx, [rows |-> rows, nextId |-> nextId, nextLogId |-> nextLogId]}
    \/ \E a \in Admins : apc[a] = "insert" /\ \E v \in todo[a] : InsertVersion(v, data[a])
    \/ \E v \in Versions : Asked(v) /\ DeleteVersion(v)
    \/ \E c \in Clients : \/ Count(c) /\ IncrementCount(rid[c])
                          \/ Log(c) /\ LogDownload(rid[c])
    \/ ((Solo /\ ~NothingFails) \/ Crash) /\ saved # NoTx /\ RestoreSaved

LEMMA RowSteps ==
    ASSUME Solo \/ NothingFails, TxInv, [Next]_vars
    PROVE  RowStep
<1>1. StoreTypeOK
  BY DEF TxInv, TypeInv, TypeOK
<1>2. ASSUME UNCHANGED <<rows, nextId, saved>> PROVE RowStep
  BY <1>2 DEF RowStep
<1>3. ASSUME RestoreSaved, (Solo /\ ~NothingFails) \/ Crash PROVE RowStep
  BY <1>3 DEF RestoreSaved, RowStep
<1>4. ASSUME StatementFails PROVE RowStep
  <2>1. Solo /\ ~NothingFails
    BY <1>4 DEF StatementFails, NothingFails
  <2> QED BY <1>2, <1>3, <1>4, <2>1 DEF StatementFails
<1>5. ASSUME NEW a \in Admins, Request(a) PROVE RowStep
  BY <1>2, <1>5 DEF Request, ReceiveUpload, ReceiveDelete, ReceiveUpdate, ReceiveBatch, Receive, dbVars
<1>6. ASSUME NEW a \in Admins, Upload(a) PROVE RowStep
  <2>1. CASE Insert(a)
    <3>1. CASE StatementFails
      BY <1>4, <3>1
    <3>2. PICK v \in todo[a] :
              (InsertVersion(v, data[a]) /\ apc[a] = "insert") \/ InsertConflicts(v) \/ StatementFails
      BY <2>1 DEF Insert, Goto
    <3> QED BY <1>2, <3>1, <3>2 DEF InsertConflicts, RowStep
  <2> QED
    BY <1>2, <1>6, <2>1 DEF Upload, CheckExists, OpenFile, OpenFileFails, WriteFile, WriteFileFails,
       AnswerUpload, ReadError, UndoUpload, Select, dbVars
<1>7. ASSUME NEW a \in Admins, SingleVersion(a) PROVE RowStep
  <2>1. CASE Delete(a)
    <3>1. PICK v \in todo[a] : (DeleteVersion(v) /\ apc[a] = "delete") \/ StatementFails
      BY <2>1 DEF Delete, Goto
    <3>2. v \in Versions
      BY <1>1 DEF StoreTypeOK
    <3> QED BY <1>4, <3>1, <3>2 DEF RowStep, Asked
  <2>2. CASE Update(a)
    BY <1>2, <1>4, <2>2 DEF Update, UpdateDescription
  <2> QED BY <1>2, <1>7, <2>1, <2>2 DEF SingleVersion, ReadChanges, AnswerUpdate, dbVars
<1>8. ASSUME NEW a \in Admins, Batch(a) PROVE RowStep
  <2>1. CASE BeginBatch(a)
    BY <2>1 DEF BeginBatch, Begin, BeginRefused, RowStep
  <2>2. CASE DeleteEach(a)
    <3>1. PICK v \in left[a] : (DeleteVersion(v) /\ apc[a] = "each") \/ StatementFails
      BY <2>2 DEF DeleteEach, Goto
    <3>2. v \in Versions
      BY <1>1 DEF StoreTypeOK
    <3> QED BY <1>4, <3>1, <3>2 DEF RowStep, Asked
  <2>3. CASE CommitBatch(a)
    BY <1>4, <2>3 DEF CommitBatch, Commit, RowStep
  <2>4. CASE RollbackBatch(a)
    <3>1. RestoreSaved /\ apc[a] = "rollback"
      BY <2>4 DEF RollbackBatch, Rollback, Answer, AnswerWithId, Goto
    <3>2. Solo /\ ~NothingFails
      BY <3>1 DEF TxInv, Batches
    <3> QED BY <1>3, <3>1, <3>2
  <2> QED BY <1>8, <2>1, <2>2, <2>3, <2>4 DEF Batch
<1>9. ASSUME NEW a \in Admins, UnlinkOne(a) PROVE RowStep
  BY <1>2, <1>9 DEF UnlinkOne, dbVars
<1>10. ASSUME NEW c \in Clients, Download(c) PROVE RowStep
  <2>1. CASE Count(c) \/ Log(c)
    BY <1>4, <2>1 DEF Count, Log, RowStep
  <2> QED
    BY <1>2, <1>10, <2>1 DEF Download, Lookup, OpenPackage, PackageMissing, StreamDone, StreamCut,
       Select, dbVars
<1>11. CASE ReadOnly
  BY <1>2, <1>11 DEF ReadOnly, Select
<1>12. CASE Crash
  BY <1>3, <1>12 DEF Crash, Reopen
<1>13. CASE UNCHANGED vars
  BY <1>2, <1>13 DEF vars, dbVars
<1> QED BY <1>5, <1>6, <1>7, <1>8, <1>9, <1>10, <1>11, <1>12, <1>13 DEF Next, Serve

\* The name of a file whose version has a row stays, and every name while a
\* batch has its transaction open.
LEMMA NamesStay ==
    ASSUME StoreInv, [Next]_vars
    PROVE  /\ \A v \in Versions : rows[v] # NoRow => dir'[v] = dir[v]
           /\ (\A a \in Admins : apc[a] \in InBatch) => dir' = dir
<1>1. StoreTypeOK /\ \A a \in Admins : Unpublished(a)
  BY DEF StoreInv, TypeInv, TypeOK, Handler
<1> DEFINE Stay == /\ \A v \in Versions : rows[v] # NoRow => dir'[v] = dir[v]
                   /\ (\A a \in Admins : apc[a] \in InBatch) => dir' = dir
<1>2. ASSUME UNCHANGED fileVars PROVE Stay
  BY <1>2 DEF fileVars
<1>3. ASSUME NEW a \in Admins, apc[a] \in {"fopen", "undo_dup", "undo_other", "unlink"},
             NEW v \in todo[a], NEW i, dir' = [dir EXCEPT ![v] = i]
      PROVE  Stay
  <2>1. rows[v] = NoRow /\ v \in Versions /\ apc[a] \notin InBatch
    BY <1>1, <1>3 DEF Unpublished, InBatch, StoreTypeOK
  <2> QED BY <1>1, <1>3, <2>1 DEF StoreTypeOK
<1> HIDE DEF Stay
<1>4. ASSUME NEW a \in Admins, Upload(a) PROVE Stay
  <2>1. CASE OpenFile(a)
    BY <1>3, <2>1 DEF OpenFile, Goto
  <2>2. CASE WriteFile(a)
    BY <2>2 DEF WriteFile, Stay
  <2>3. CASE UndoUpload(a)
    <3>1. PICK v \in todo[a] : RemoveFile(v)
      BY <2>3 DEF UndoUpload
    <3>2. apc[a] \in {"undo_dup", "undo_other"}
      BY <2>3 DEF UndoUpload, Answer, AnswerWithId, Goto
    <3> QED BY <1>2, <1>3, <3>1, <3>2 DEF RemoveFile, Unlink
  <2> QED
    BY <1>2, <1>4, <2>1, <2>2, <2>3 DEF Upload, CheckExists, OpenFileFails, WriteFileFails, Insert,
       AnswerUpload, ReadError
<1>5. ASSUME NEW a \in Admins, UnlinkOne(a) PROVE Stay
  <2>1. PICK v \in todo[a] : RemoveFile(v) /\ apc[a] = "unlink"
    BY <1>5 DEF UnlinkOne, Answer, AnswerWithId, Goto
  <2> QED BY <1>2, <1>3, <2>1 DEF RemoveFile, Unlink
<1>6. ASSUME NEW a \in Admins, Request(a) \/ SingleVersion(a) \/ Batch(a) PROVE Stay
  BY <1>2, <1>6 DEF Request, ReceiveUpload, ReceiveDelete, ReceiveUpdate, ReceiveBatch, Receive,
     SingleVersion, Delete, ReadChanges, Update, AnswerUpdate,
     Batch, BeginBatch, DeleteEach, CommitBatch, RollbackBatch
<1>7. ASSUME NEW c \in Clients, Download(c) PROVE Stay
  BY <1>2, <1>7 DEF Download, Lookup, OpenPackage, PackageMissing, StreamDone, StreamCut, Count, Log
<1>8. ASSUME ReadOnly \/ Crash PROVE Stay
  BY <1>2, <1>8 DEF ReadOnly, Crash
<1>9. ASSUME UNCHANGED vars PROVE Stay
  BY <1>2, <1>9 DEF vars
<1>10. Stay
  BY <1>4, <1>5, <1>6, <1>7, <1>8, <1>9 DEF Next, Serve
<1> QED BY <1>10 DEF Stay

\* A download keeps its id, gives it up, or takes that of a row it finds.
LEMMA IdsHeld ==
    ASSUME TypeInv, [Next]_vars, NEW c \in Clients
    PROVE  rid'[c] \in {rid[c], 0} \/ \E v \in Versions : HasId(v, rid'[c])
<1>1. rid \in [Clients -> Nat]
  BY DEF TypeInv, TypeOK, StoreTypeOK
<1>2. ASSUME NEW a \in Admins, Request(a) \/ Serve(a) PROVE UNCHANGED clientVars
  BY <1>2 DEF Request, ReceiveUpload, ReceiveDelete, ReceiveUpdate, ReceiveBatch, Receive, Serve,
     Upload, CheckExists, OpenFile, OpenFileFails, WriteFile, WriteFileFails, Insert, AnswerUpload,
     ReadError, UndoUpload, SingleVersion, Delete, ReadChanges, Update, AnswerUpdate,
     Batch, BeginBatch, DeleteEach, CommitBatch, RollbackBatch, UnlinkOne
<1>3. ASSUME NEW d \in Clients, Download(d)
      PROVE  rid'[c] \in {rid[c], 0} \/ \E v \in Versions : HasId(v, rid'[c])
  <2>1. CASE Lookup(d)
    BY <1>1, <2>1 DEF Lookup, HasId
  <2> QED
    BY <1>1, <1>3, <2>1 DEF Download, OpenPackage, PackageMissing, StreamDone, StreamCut, Count, Log,
       DownloadEnds
<1> QED BY <1>1, <1>2, <1>3 DEF Next, ReadOnly, Crash, vars, clientVars

-----------------------------------------------------------------------------
(* Ids are not given twice.                                                *)

IsAt(T, v, id) == T[v] # NoRow /\ T[v].id = id

Distinct(T, n) ==
    /\ \A v \in Versions : T[v] # NoRow => T[v].id < n
    /\ \A v, w \in Versions : T[v] # NoRow /\ IsAt(T, w, T[v].id) => v = w

\* The rows are rows of an earlier table, or some of them.
RowsOf(T, U) == \A v \in Versions : T[v] # NoRow => IsAt(U, v, T[v].id)

IdInv ==
    /\ nextId > 0
    /\ Distinct(rows, nextId)
    /\ \A c \in Clients : rid[c] < nextId
    /\ saved # NoTx =>
        /\ saved.nextId > 0
        /\ Distinct(saved.rows, saved.nextId)
        /\ Solo => saved.nextId = nextId /\ RowsOf(rows, saved.rows)

LEMMA FewerRows ==
    ASSUME NEW T, NEW U, NEW n, Distinct(U, n), RowsOf(T, U)
    PROVE  Distinct(T, n)
BY DEF Distinct, RowsOf, IsAt

\* Counting and logging leave every row where it is, with its id and sha256.
LEMMA StatisticsKeepRows ==
    ASSUME TypeInv, NEW c \in Clients, IncrementCount(rid[c]) \/ LogDownload(rid[c])
    PROVE  /\ UNCHANGED <<nextId, saved>>
           /\ \A v \in Versions : /\ rows'[v] = NoRow <=> rows[v] = NoRow
                                  /\ rows[v] # NoRow => /\ rows'[v].id = rows[v].id
                                                        /\ rows'[v].sha = rows[v].sha
<1>1. UNCHANGED <<nextId, saved>>
  BY DEF IncrementCount, LogDownload
<1>2. DbTypeOK /\ rid[c] \in Nat
  BY DEF TypeInv, TypeOK, StoreTypeOK
<1>3. ASSUME NEW v \in Versions
      PROVE  /\ rows'[v] = NoRow <=> rows[v] = NoRow
             /\ rows[v] # NoRow => rows'[v].id = rows[v].id /\ rows'[v].sha = rows[v].sha
  <2>1. CASE rows[v] = NoRow
    BY <1>2, <2>1 DEF IncrementCount, LogDownload, HasId, DbTypeOK, Tables
  <2>2. CASE rows[v] # NoRow
    <3>1. rows[v] \in Row
      BY <1>2, <2>2 DEF DbTypeOK, Tables
    <3>2. ASSUME NEW r \in {rows[v], [rows[v] EXCEPT !.count = @ + 1], [rows[v] EXCEPT !.logs = @ + 1]}
          PROVE  r \in Row /\ r.id = rows[v].id /\ r.sha = rows[v].sha
      BY <3>1, <3>2 DEF Row
    <3>3. rows'[v] \in {rows[v], [rows[v] EXCEPT !.count = @ + 1], [rows[v] EXCEPT !.logs = @ + 1]}
      BY DEF IncrementCount, LogDownload, HasId
    <3> QED BY <2>2, <3>2, <3>3, SentinelAssumption
  <2> QED BY <2>1, <2>2
<1> QED BY <1>1, <1>3

LEMMA InsertAdds ==
    ASSUME TypeInv, NEW v \in Versions, NEW k, InsertVersion(v, k)
    PROVE  /\ rows[v] = NoRow /\ rows'[v] = NewRow(nextId, k) /\ nextId' = nextId + 1
           /\ saved' = saved /\ \A w \in Versions \ {v} : rows'[w] = rows[w]
BY DEF TypeInv, TypeOK, DbTypeOK, Tables, InsertVersion

LEMMA DeleteTakes ==
    ASSUME TypeInv, NEW v \in Versions, DeleteVersion(v)
    PROVE  /\ rows'[v] = NoRow /\ UNCHANGED <<nextId, saved>>
           /\ \A w \in Versions \ {v} : rows'[w] = rows[w]
BY DEF TypeInv, TypeOK, DbTypeOK, Tables, DeleteVersion

LEMMA IdStep ==
    ASSUME Solo \/ NothingFails, TxInv, TxInv', IdInv, [Next]_vars
    PROVE  IdInv'
<1>1. TypeInv /\ nextId \in Nat /\ nextId' \in Nat /\ rid \in [Clients -> Nat]
  BY DEF TxInv, TypeInv, TypeOK, DbTypeOK, StoreTypeOK
<1>2. ASSUME nextId' >= nextId PROVE nextId' > 0 /\ \A c \in Clients : rid'[c] < nextId'
  <2>1. nextId' > 0
    BY <1>1, <1>2 DEF IdInv
  <2>2. ASSUME NEW c \in Clients PROVE rid'[c] < nextId'
    <3>1. CASE rid'[c] \in {rid[c], 0}
      BY <1>1, <1>2, <2>1, <3>1 DEF IdInv
    <3>2. CASE \E v \in Versions : HasId(v, rid'[c])
      <4>1. PICK v \in Versions : rows[v] # NoRow /\ rows[v].id = rid'[c]
        BY <3>2 DEF HasId
      <4>2. rid'[c] < nextId /\ rid'[c] \in Nat
        BY <1>1, <4>1 DEF IdInv, Distinct, TypeInv, TypeOK, DbTypeOK, Tables, Row
      <4> QED BY <1>1, <1>2, <4>2
    <3> QED BY <1>1, <3>1, <3>2, IdsHeld
  <2> QED BY <2>1, <2>2
<1>3. CASE UNCHANGED <<rows, nextId>> /\ saved' \in {saved, NoTx, [rows |-> rows, nextId |-> nextId, nextLogId |-> nextLogId]}
  <2>1. RowsOf(rows, rows)
    BY DEF RowsOf, IsAt
  <2>2. CASE saved' = [rows |-> rows, nextId |-> nextId, nextLogId |-> nextLogId]
    <3>1. saved'.rows = rows /\ saved'.nextId = nextId
      BY <2>2
    <3> QED BY <1>1, <1>2, <1>3, <2>1, <3>1 DEF IdInv
  <2> QED BY <1>1, <1>2, <1>3, <2>2 DEF IdInv
<1>4. ASSUME NEW a \in Admins, apc[a] = "insert", NEW v \in todo[a], InsertVersion(v, data[a]) PROVE IdInv'
  <2>1. v \in Versions
    BY DEF TxInv, TypeInv, TypeOK, StoreTypeOK
  <2>2. /\ rows[v] = NoRow /\ rows'[v] = NewRow(nextId, data[a]) /\ nextId' = nextId + 1
        /\ saved' = saved /\ \A w \in Versions \ {v} : rows'[w] = rows[w]
    BY <1>1, <1>4, <2>1, InsertAdds
  <2>3. Solo => saved = NoTx
    BY <1>4 DEF TxInv, TransactionHasOwner, Solo, InBatch
  <2>4. \A w \in Versions : rows[w] # NoRow => rows[w].id \in Nat
    BY <1>1 DEF TypeInv, TypeOK, DbTypeOK, Tables, Row
  <2>5. rows'[v].id = nextId
    BY <2>2 DEF NewRow
  <2>6. Distinct(rows, nextId)'
    BY <1>1, <2>1, <2>2, <2>4, <2>5 DEF IdInv, Distinct, IsAt
  <2> QED BY <1>1, <1>2, <2>2, <2>3, <2>6 DEF IdInv
<1>5. ASSUME NEW v \in Versions, DeleteVersion(v) PROVE IdInv'
  <2>1. /\ UNCHANGED <<nextId, saved>> /\ rows'[v] = NoRow
        /\ \A w \in Versions \ {v} : rows'[w] = rows[w]
    BY <1>1, <1>5, DeleteTakes
  <2>2. RowsOf(rows', rows) /\ \A T : RowsOf(rows, T) => RowsOf(rows', T)
    BY <2>1 DEF RowsOf, IsAt
  <2>3. Distinct(rows', nextId)
    BY <2>2, FewerRows DEF IdInv
  <2> QED BY <1>1, <1>2, <2>1, <2>2, <2>3 DEF IdInv
<1>6. ASSUME NEW c \in Clients, IncrementCount(rid[c]) \/ LogDownload(rid[c]) PROVE IdInv'
  <2>1. /\ UNCHANGED <<nextId, saved>>
        /\ \A v \in Versions : /\ rows'[v] = NoRow <=> rows[v] = NoRow
                               /\ rows[v] # NoRow => rows'[v].id = rows[v].id
    BY <1>1, <1>6, StatisticsKeepRows
  <2>2. RowsOf(rows', rows) /\ \A T : RowsOf(rows, T) => RowsOf(rows', T)
    BY <2>1 DEF RowsOf, IsAt
  <2>3. Distinct(rows', nextId)
    BY <2>2, FewerRows DEF IdInv
  <2> QED BY <1>1, <1>2, <2>1, <2>2, <2>3 DEF IdInv
<1>7. CASE Solo /\ saved # NoTx /\ RestoreSaved
  <2>1. rows' = saved.rows /\ nextId' = nextId /\ saved' = NoTx
    BY <1>7 DEF RestoreSaved, IdInv
  <2> QED BY <1>1, <1>2, <1>7, <2>1 DEF IdInv
<1>8. CASE Crash /\ saved # NoTx /\ RestoreSaved
  <2>1. rows' = saved.rows /\ nextId' = saved.nextId /\ saved' = NoTx
    BY <1>8 DEF RestoreSaved
  <2>2. \A c \in Clients : rid'[c] = 0
    BY <1>8 DEF Crash
  <2> QED BY <1>8, <2>1, <2>2 DEF IdInv
<1> QED BY <1>3, <1>4, <1>5, <1>6, <1>7, <1>8, RowSteps DEF RowStep

LEMMA IdInit == Init => IdInv
BY DEF Init, DbInit, NoRequests, IdInv, Distinct

\* The id a download holds is never given to a row that was not there, unless
\* a transaction that is rolled back had removed that row.
LEMMA IdsStay ==
    ASSUME Solo \/ NothingFails, TxInv, IdInv, [Next]_vars
    PROVE  \A c \in Clients, v \in Versions :
                rid[c] # 0 /\ rid'[c] = rid[c] /\ HasId(v, rid[c])' =>
                    HasId(v, rid[c]) \/ (saved # NoTx /\ saved.rows[v] # NoRow
                                                       /\ saved.rows[v].id = rid[c])
<1> SUFFICES ASSUME NEW c \in Clients, NEW v \in Versions, rid'[c] = rid[c],
                    rows'[v] # NoRow, rows'[v].id = rid[c]
             PROVE  HasId(v, rid[c]) \/ (saved # NoTx /\ IsAt(saved.rows, v, rid[c]))
  BY DEF HasId, IsAt
<1>1. TypeInv /\ nextId \in Nat /\ rid[c] \in Nat /\ rid[c] < nextId
  BY DEF TxInv, TypeInv, TypeOK, DbTypeOK, StoreTypeOK, IdInv
<1>2. CASE rows' = rows
  BY <1>2 DEF HasId
<1>3. ASSUME NEW a \in Admins, NEW w \in todo[a], InsertVersion(w, data[a]) PROVE HasId(v, rid[c])
  <2>1. w \in Versions
    BY DEF TxInv, TypeInv, TypeOK, StoreTypeOK
  <2>2. rows'[w] = NewRow(nextId, data[a]) /\ \A u \in Versions \ {w} : rows'[u] = rows[u]
    BY <1>1, <1>3, <2>1, InsertAdds
  <2>3. rows'[w].id = nextId
    BY <2>2 DEF NewRow
  <2> QED BY <1>1, <2>2, <2>3 DEF HasId
<1>4. ASSUME NEW w \in Versions, DeleteVersion(w) PROVE HasId(v, rid[c])
  BY <1>1, <1>4, DeleteTakes DEF HasId
<1>5. ASSUME NEW d \in Clients, IncrementCount(rid[d]) \/ LogDownload(rid[d]) PROVE HasId(v, rid[c])
  BY <1>1, <1>5, StatisticsKeepRows DEF HasId
<1>6. CASE saved # NoTx /\ RestoreSaved
  BY <1>6 DEF RestoreSaved, IsAt
<1> QED BY <1>2, <1>3, <1>4, <1>5, <1>6, RowSteps DEF RowStep

\* A download counts and logs on the row it looked up, or on none
\* (client_api.cpp:300, 329-330): any administrators on any versions, whatever
\* else fails or crashes, as long as no statement fails; and with a single
\* administrator also when statements fail and transactions are rolled back.
THEOREM StatisticsStay ==
    ASSUME Solo \/ "statement" \notin Faults
    PROVE  Spec => StatsStayWithTheRow
<1> Solo \/ NothingFails
  BY DEF NothingFails
<1>1. TxInv /\ TxInv' /\ IdInv /\ [Next]_vars => IdInv'
  BY IdStep
<1>2. TxInv /\ IdInv /\ [Next]_vars =>
        [\A c \in Clients, v \in Versions :
            rid[c] # 0 /\ rid'[c] = rid[c] /\ HasId(v, rid[c])' =>
                HasId(v, rid[c]) \/ (saved # NoTx /\ saved.rows[v] # NoRow
                                                   /\ saved.rows[v].id = rid[c])]_vars
  BY IdsStay
<1> QED BY <1>1, <1>2, TxInit, TxStep, IdInit, PTL DEF Spec, StatsStayWithTheRow

-----------------------------------------------------------------------------
(* The file a download has open.                                           *)

\* What a download that looked up a row relies on, were T the table.
Reading(T, c) ==
    \A v \in Versions : IsAt(T, v, rid[c]) =>
        /\ cpc[c] = "open" => v = cver[c]
        /\ cpc[c] = "stream" => cfd[c] = dir[v] /\ want[c] = T[v].sha

StreamInv ==
    \A c \in Clients :
        /\ Reading(rows, c)
        /\ Solo /\ saved # NoTx => Reading(saved.rows, c)

SameDownload(c) ==
    /\ cpc'[c] = cpc[c] /\ cver'[c] = cver[c] /\ rid'[c] = rid[c]
    /\ cfd'[c] = cfd[c] /\ want'[c] = want[c]

\* A step leaves a download alone, ends it, or is one of its two lookups.
LEMMA DownloadStep ==
    ASSUME StoreTypeOK, [Next]_vars, NEW c \in Clients
    PROVE  \/ SameDownload(c)
           \/ cpc'[c] \notin {"open", "stream"}
           \/ Lookup(c) \/ OpenPackage(c)
<1> DEFINE Goal == \/ SameDownload(c)
                   \/ cpc'[c] \notin {"open", "stream"}
                   \/ Lookup(c) \/ OpenPackage(c)
<1>1. ASSUME UNCHANGED clientVars PROVE Goal
  BY <1>1 DEF clientVars, SameDownload
<1>2. ASSUME NEW a \in Admins, Request(a) \/ Serve(a) PROVE UNCHANGED clientVars
  BY <1>2 DEF Request, ReceiveUpload, ReceiveDelete, ReceiveUpdate, ReceiveBatch, Receive, Serve,
     Upload, CheckExists, OpenFile, OpenFileFails, WriteFile, WriteFileFails, Insert, AnswerUpload,
     ReadError, UndoUpload, SingleVersion, Delete, ReadChanges, Update, AnswerUpdate,
     Batch, BeginBatch, DeleteEach, CommitBatch, RollbackBatch, UnlinkOne
<1>3. ASSUME NEW d \in Clients, Download(d), d # c PROVE SameDownload(c)
  BY <1>3 DEF Download, Lookup, OpenPackage, PackageMissing, StreamDone, StreamCut, Count, Log,
     DownloadEnds, StoreTypeOK, SameDownload
<1>4. ASSUME Download(c) PROVE Goal
  <2>1. CASE Lookup(c) \/ OpenPackage(c)
    BY <2>1
  <2> QED
    BY <1>4, <2>1 DEF Download, PackageMissing, StreamDone, StreamCut, Count, Log, DownloadEnds,
       StoreTypeOK
<1>5. CASE Crash
  BY <1>5 DEF Crash
<1> QED BY <1>1, <1>2, <1>3, <1>4, <1>5 DEF Next, ReadOnly, vars

\* Each row of T is a row of U, of the same upload.
SameRows(T, U) ==
    \A v \in Versions : T[v] # NoRow => IsAt(U, v, T[v].id) /\ T[v].sha = U[v].sha

\* The rows after a step that a download can mean are rows there were before.
LEMMA RowsPersist ==
    ASSUME Solo \/ NothingUndone, TxInv, StoreInv, IdInv, [Next]_vars, NEW c \in Clients,
           NEW v \in Versions, IsAt(rows', v, rid[c])
    PROVE  \/ IsAt(rows, v, rid[c]) /\ rows'[v].sha = rows[v].sha
           \/ Solo /\ saved # NoTx /\ rows' = saved.rows
<1>1. TypeInv /\ nextId \in Nat /\ rid[c] \in Nat /\ rid[c] < nextId
  BY DEF StoreInv, TypeInv, TypeOK, DbTypeOK, StoreTypeOK, IdInv
<1>2. CASE rows' = rows
  BY <1>2
<1>3. ASSUME NEW a \in Admins, NEW w \in todo[a], InsertVersion(w, data[a])
      PROVE  IsAt(rows, v, rid[c]) /\ rows'[v].sha = rows[v].sha
  <2>1. w \in Versions
    BY DEF StoreInv, TypeInv, TypeOK, StoreTypeOK
  <2>2. rows'[w] = NewRow(nextId, data[a]) /\ \A u \in Versions \ {w} : rows'[u] = rows[u]
    BY <1>1, <1>3, <2>1, InsertAdds
  <2>3. rows'[w].id = nextId
    BY <2>2 DEF NewRow
  <2> QED BY <1>1, <2>2, <2>3 DEF IsAt
<1>4. ASSUME NEW w \in Versions, DeleteVersion(w)
      PROVE  IsAt(rows, v, rid[c]) /\ rows'[v].sha = rows[v].sha
  BY <1>1, <1>4, DeleteTakes DEF IsAt
<1>5. ASSUME NEW d \in Clients, IncrementCount(rid[d]) \/ LogDownload(rid[d])
      PROVE  IsAt(rows, v, rid[c]) /\ rows'[v].sha = rows[v].sha
  BY <1>1, <1>5, StatisticsKeepRows DEF IsAt
<1>6. CASE Solo /\ saved # NoTx /\ RestoreSaved
  BY <1>6 DEF RestoreSaved
<1>7. (Solo \/ NothingFails) /\ (Crash => Solo)
  BY DEF NothingUndone, NothingFails, Crash
<1> QED BY <1>2, <1>3, <1>4, <1>5, <1>6, <1>7, RowSteps DEF RowStep

\* The rows a transaction could bring back stay those it began with.
LEMMA SavedPersists ==
    ASSUME Solo \/ NothingUndone, TxInv, StoreInv, [Next]_vars, saved' # NoTx
    PROVE  \/ saved # NoTx /\ saved' = saved
           \/ saved'.rows = rows /\ rows' = rows
<1>1. TypeInv
  BY DEF StoreInv
<1>2. ASSUME NEW a \in Admins, NEW v \in todo[a], InsertVersion(v, data[a]) PROVE saved' = saved
  BY <1>2 DEF InsertVersion
<1>3. ASSUME NEW v \in Versions, DeleteVersion(v) PROVE saved' = saved
  BY <1>3 DEF DeleteVersion
<1>4. ASSUME NEW c \in Clients, IncrementCount(rid[c]) \/ LogDownload(rid[c]) PROVE saved' = saved
  BY <1>1, <1>4, StatisticsKeepRows
<1>5. CASE RestoreSaved
  BY <1>5 DEF RestoreSaved
<1> QED BY <1>2, <1>3, <1>4, <1>5, RowSteps DEF RowStep, NothingUndone, NothingFails

LEMMA StreamStep ==
    ASSUME Solo \/ NothingUndone, TxInv, StoreInv, IdInv, StreamInv, [Next]_vars
    PROVE  StreamInv'
<1>1. StoreTypeOK /\ BackedBy(rows)
  BY DEF StoreInv, TypeInv, TypeOK
<1>2. ASSUME Solo, saved # NoTx PROVE dir' = dir
  BY <1>2, NamesStay DEF StoreInv, Undoable
<1> SUFFICES ASSUME NEW c \in Clients
             PROVE  Reading(rows, c)' /\ (Solo /\ saved' # NoTx => Reading(saved.rows, c)')
  BY DEF StreamInv
<1>3. CASE cpc'[c] \notin {"open", "stream"}
  BY <1>3 DEF Reading
<1>4. CASE SameDownload(c)
  <2>1. ASSUME NEW v \in Versions, IsAt(rows', v, rid[c])
        PROVE  /\ cpc[c] = "open" => v = cver[c]
               /\ cpc[c] = "stream" => cfd[c] = dir'[v] /\ want[c] = rows'[v].sha
    <3>1. CASE IsAt(rows, v, rid[c]) /\ rows'[v].sha = rows[v].sha
      <4>1. dir'[v] = dir[v]
        BY <3>1, NamesStay DEF IsAt
      <4> QED BY <3>1, <4>1 DEF StreamInv, Reading
    <3>2. CASE Solo /\ saved # NoTx /\ rows' = saved.rows
      BY <1>2, <2>1, <3>2 DEF StreamInv, Reading
    <3> QED BY <2>1, <3>1, <3>2, RowsPersist
  <2>2. ASSUME Solo, saved' # NoTx, NEW v \in Versions, IsAt(saved'.rows, v, rid[c])
        PROVE  /\ cpc[c] = "open" => v = cver[c]
               /\ cpc[c] = "stream" => cfd[c] = dir'[v] /\ want[c] = saved'.rows[v].sha
    <3>1. CASE saved # NoTx /\ saved' = saved
      BY <1>2, <2>2, <3>1 DEF StreamInv, Reading
    <3>2. CASE saved'.rows = rows /\ rows' = rows
      BY <2>1, <2>2, <3>2
    <3> QED BY <2>2, <3>1, <3>2, SavedPersists
  <2> QED BY <1>4, <2>1, <2>2 DEF SameDownload, Reading
<1>5. CASE Lookup(c)
  <2>1. PICK w \in Versions : rows[w] # NoRow /\ cver'[c] = w /\ rid'[c] = rows[w].id
    BY <1>1, <1>5 DEF Lookup, StoreTypeOK
  <2>2. cpc'[c] = "open" /\ UNCHANGED <<rows, saved>>
    BY <1>1, <1>5 DEF Lookup, Select, StoreTypeOK
  <2>3. \A v \in Versions : IsAt(rows, v, rid'[c]) => v = w
    BY <2>1 DEF IdInv, Distinct
  <2>4. ASSUME Solo, saved # NoTx, NEW v \in Versions, IsAt(saved.rows, v, rid'[c]) PROVE v = w
    <3>1. IsAt(saved.rows, w, rid'[c])
      BY <2>1, <2>4 DEF IdInv, RowsOf
    <3> QED BY <2>4, <3>1 DEF IdInv, Distinct, IsAt
  <2> QED BY <2>1, <2>2, <2>3, <2>4 DEF Reading
<1>6. CASE OpenPackage(c)
  <2>1. /\ cpc[c] = "open" /\ cpc'[c] = "stream" /\ rid'[c] = rid[c]
        /\ cfd'[c] = dir[cver[c]] /\ want'[c] = disk[dir[cver[c]]]
        /\ UNCHANGED <<rows, saved, dir>>
    BY <1>1, <1>6 DEF OpenPackage, StoreTypeOK, dbVars, fileVars
  <2>2. ASSUME NEW T, BackedBy(T), Reading(T, c), NEW v \in Versions, IsAt(T, v, rid[c])
        PROVE  cfd'[c] = dir[v] /\ want'[c] = T[v].sha
    BY <2>1, <2>2 DEF BackedBy, Backed, Reading, IsAt
  <2>3. Reading(rows, c)'
    BY <1>1, <2>1, <2>2 DEF StreamInv, Reading
  <2>4. ASSUME Solo, saved # NoTx PROVE Reading(saved.rows, c)'
    <3>1. BackedBy(saved.rows) /\ Reading(saved.rows, c)
      BY <2>4 DEF StoreInv, Undoable, StreamInv
    <3> QED BY <2>1, <2>2, <3>1 DEF Reading
  <2> QED BY <2>1, <2>3, <2>4
<1> QED BY <1>1, <1>3, <1>4, <1>5, <1>6, DownloadStep

LEMMA StreamInit == Init => StreamInv
BY DEF Init, DbInit, NoRequests, StreamInv, Reading

LEMMA StreamsRow ==
    ASSUME StoreInv, StreamInv PROVE StreamsTheRow
BY DEF StoreInv, BackedBy, Backed, StreamInv, Reading, StreamsTheRow, HasId, IsAt

\* While its row exists, a download streams the file of that row and has
\* promised the size of its content (client_api.cpp:245-323), under the
\* conditions of RowsHaveFiles.
THEOREM RowIsStreamed ==
    ASSUME FailuresShow, Solo \/ NothingUndone
    PROVE  DisjointSpec => []StreamsTheRow
<1>1. StoreInv /\ [Next /\ Disjoint']_vars => StoreInv'
  BY InvStep
<1>2. TxInv /\ TxInv' /\ IdInv /\ [Next /\ Disjoint']_vars => IdInv'
  BY IdStep DEF NothingUndone, NothingFails
<1>3. TxInv /\ StoreInv /\ IdInv /\ StreamInv /\ [Next /\ Disjoint']_vars => StreamInv'
  BY StreamStep
<1>4. StoreInv /\ StreamInv => StreamsTheRow
  BY StreamsRow
<1>5. TxInv /\ [Next /\ Disjoint']_vars => TxInv'
  BY TxStep
<1> QED BY <1>1, <1>2, <1>3, <1>4, <1>5, TxInit, InvInit, IdInit, StreamInit, PTL DEF DisjointSpec

\* Both, as the run store_one_admin checks them: one administrator, any request.
THEOREM OnlyAdministratorDownloads ==
    ASSUME FailuresShow, Solo
    PROVE  Spec => []StreamsTheRow /\ StatsStayWithTheRow
<1>1. Spec => DisjointSpec
  <2>1. [Next]_vars => [Next /\ Disjoint']_vars
    BY DEF Solo, Disjoint
  <2> QED BY <2>1, PTL DEF Spec, DisjointSpec
<1> QED BY <1>1, RowIsStreamed, StatisticsStay, PTL

=============================================================================
