-------------------------- MODULE RowHasFile_proof --------------------------
(***************************************************************************)
(* Why a version that has a row can be served: the proof that RowHasFile   *)
(* holds for all values of the constants, as long as the requests in       *)
(* flight concern different versions, a failing SELECT does not pass for   *)
(* an empty one nor a failing flush for a written file, and either there   *)
(* is one administrator (then everything else may fail and the process may *)
(* die) or no transaction is rolled back.                                  *)
(***************************************************************************)
EXTENDS PackageStore_proof

Solo == \A a, b \in Admins : a = b

\* No failure passes for a success: the two results the handlers do not look at
\* as they should (database.cpp:254, admin_api.cpp:37).
FailuresShow == "select" \notin Faults /\ "flush" \notin Faults

NothingUndone == "statement" \notin Faults /\ "crash" \notin Faults

\* The rows of a table have their files.
BackedBy(T) == \A v \in Versions : T[v] # NoRow => Backed(v, T[v])

\* No two versions share a file.
OneName ==
    \A v, w \in Versions : dir[v] = dir[w] /\ dir[v] # NoInode => v = w

\* What a handler that goes on to change the files relies on.
Unpublished(a) ==
    apc[a] \in {"fopen", "fwrite", "insert", "errmsg", "undo_dup", "undo_other",
                "changed", "unlink"} => \A v \in todo[a] : rows[v] = NoRow

OneVersion(a) ==
    apc[a] \in {"exists", "fopen", "fwrite", "insert", "errmsg", "undo_dup",
                "undo_other", "delete", "changed", "update"} =>
        \E v \in Versions : todo[a] = {v}

Writing(a) ==
    IF apc[a] = "fwrite"
    THEN \A v \in todo[a] :
            dir[v] # NoInode /\ afd[a] = dir[v] /\ disk[dir[v]] = Partial
    ELSE afd[a] = NoInode

Written(a) ==
    apc[a] = "insert" =>
        \A v \in todo[a] : dir[v] # NoInode /\ disk[dir[v]] = data[a]

\* A batch that is still in its transaction has removed the rows it passed.
Removed(a) ==
    saved # NoTx =>
        /\ apc[a] = "each" => \A v \in todo[a] \ left[a] : rows[v] = NoRow
        /\ apc[a] = "commit" => \A v \in todo[a] : rows[v] = NoRow

\* The versions the loop has not reached are versions of the request.
Remaining(a) ==
    IF apc[a] \in {"each", "rollback"} THEN left[a] \subseteq todo[a] ELSE left[a] = {}

Handler(a) ==
    /\ Unpublished(a) /\ OneVersion(a)
    /\ Writing(a) /\ Written(a)
    /\ Removed(a) /\ Remaining(a)

\* Whoever could roll the open transaction back is the only administrator, and
\* is in the middle of a batch, so the files still fit the rows before it.
Undoable ==
    Solo => (saved # NoTx => /\ BackedBy(saved.rows)
                             /\ \A a \in Admins : apc[a] \in InBatch)

NeverUndone ==
    NothingUndone =>
        /\ \A a \in Admins : apc[a] # "rollback"
        /\ \A a \in Admins : apc[a] \in {"each", "commit"} => saved # NoTx
        /\ \A a, b \in Admins :
            apc[a] \in {"each", "commit"} /\ apc[b] \in {"each", "commit"} => a = b

StoreInv ==
    /\ TypeInv
    /\ Disjoint
    /\ OneName
    /\ BackedBy(rows)
    /\ Undoable
    /\ NeverUndone
    /\ \A a \in Admins : Handler(a)

-----------------------------------------------------------------------------
(* What one step leaves alone.                                             *)

\* The handler of b takes no part in the step.
Same(b) ==
    /\ apc'[b] = apc[b] /\ todo'[b] = todo[b] /\ left'[b] = left[b]
    /\ data'[b] = data[b] /\ afd'[b] = afd[b]

\* Nothing of the other versions changes.
Footprint(a) ==
    \A v \in Versions \ todo[a] :
        /\ rows'[v] = rows[v]
        /\ dir'[v] = dir[v]
        /\ dir[v] # NoInode => disk'[dir[v]] = disk[dir[v]]

Served(v) == rows[v] # NoRow => Backed(v, rows[v])

\* A handler keeps what it relies on through a step of another handler that
\* stays within the versions of its own request.
LEMMA OtherHandlers ==
    ASSUME StoreInv, NEW a \in Admins, \A b \in Admins \ {a} : Same(b), Footprint(a),
           saved' = NoTx \/ saved # NoTx
               \/ \A b \in Admins \ {a} : apc[b] \notin {"each", "commit"},
           Handler(a)'
    PROVE  \A b \in Admins : Handler(b)'
<1> SUFFICES ASSUME NEW b \in Admins, b # a PROVE Handler(b)'
  OBVIOUS
<1>1. Handler(b) /\ Same(b)
  BY DEF StoreInv
<1>2. todo[b] \subseteq Versions \ todo[a]
  BY DEF StoreInv, Disjoint, TypeInv, TypeOK, StoreTypeOK
<1>3. \A v \in todo[b] : /\ rows'[v] = rows[v]
                         /\ dir'[v] = dir[v]
                         /\ dir[v] # NoInode => disk'[dir[v]] = disk[dir[v]]
  BY <1>2 DEF Footprint
<1>4. Unpublished(b)' /\ OneVersion(b)'
  BY <1>1, <1>3 DEF Handler, Same, Unpublished, OneVersion
<1>5. Writing(b)' /\ Written(b)'
  BY <1>1, <1>3 DEF Handler, Same, Writing, Written
<1>6. Removed(b)' /\ Remaining(b)'
  BY <1>1, <1>3 DEF Handler, Same, Removed, Remaining
<1> QED
  BY <1>4, <1>5, <1>6 DEF Handler

\* A step outside the transaction of a batch.
LEMMA OutsideBatch ==
    ASSUME StoreInv, TypeInv', Disjoint', NEW a \in Admins,
           apc[a] \notin InBatch, apc'[a] \notin InBatch, saved' = saved,
           \A b \in Admins \ {a} : Same(b), Footprint(a), OneName',
           \A v \in todo[a] : Served(v)', Handler(a)'
    PROVE  StoreInv'
<1>1. \A b \in Admins : Handler(b)'
  BY OtherHandlers
<1>2. BackedBy(rows)'
  <2> SUFFICES ASSUME NEW v \in Versions PROVE Served(v)'
    BY DEF BackedBy, Served
  <2>1. CASE v \in todo[a]
    BY <2>1
  <2>2. CASE v \notin todo[a]
    BY <2>2 DEF Footprint, Served, StoreInv, BackedBy, Backed
  <2> QED
    BY <2>1, <2>2
<1>3. Undoable'
  BY DEF StoreInv, Undoable
<1>4. NeverUndone'
  BY DEF StoreInv, NeverUndone, Same, InBatch
<1> QED
  BY <1>1, <1>2, <1>3, <1>4 DEF StoreInv

\* Outside a batch a failing statement changes nothing: a transaction it could
\* roll back would be its own.
LEMMA FailureOutsideBatch ==
    ASSUME Solo \/ NothingUndone, StoreInv, NEW a \in Admins, apc[a] \notin InBatch,
           StatementFails
    PROVE  UNCHANGED <<rows, saved>>
BY DEF StatementFails, NothingUndone, StoreInv, Undoable

\* An answer ends the request of a and no other.
LEMMA Answered ==
    ASSUME StoreTypeOK, NEW a \in Admins, NEW from, NEW status, NEW i,
           AnswerWithId(a, from, status, i)
    PROVE  /\ apc[a] = from /\ apc'[a] = "idle" /\ todo'[a] = {}
           /\ Handler(a)'
           /\ \A b \in Admins \ {a} : Same(b)
<1>1. /\ apc[a] = from /\ apc'[a] = "idle" /\ todo'[a] = {} /\ left'[a] = {}
      /\ afd'[a] = NoInode
  BY DEF StoreTypeOK, AnswerWithId, Goto
<1>2. Handler(a)'
  BY <1>1 DEF Handler, Unpublished, OneVersion, Writing, Written, Removed, Remaining
<1>3. ASSUME NEW b \in Admins \ {a} PROVE Same(b)
  BY DEF StoreTypeOK, AnswerWithId, Goto, Same
<1> QED
  BY <1>1, <1>2, <1>3

LEMMA Proceeded ==
    ASSUME StoreTypeOK, NEW a \in Admins, NEW from, NEW to, Goto(a, from, to)
    PROVE  /\ apc[a] = from /\ apc'[a] = to
           /\ \A b \in Admins \ {a} : apc'[b] = apc[b]
           /\ KeepRequest => \A b \in Admins \ {a} : Same(b)
BY DEF StoreTypeOK, Goto, KeepRequest, Same

\* A step that leaves the rows, the transaction and the files alone.
LEMMA Untouched ==
    ASSUME StoreInv, UNCHANGED <<rows, saved, dir, disk>>
    PROVE  /\ OneName'
           /\ \A v \in Versions : Served(v)'
           /\ \A a \in Admins : Footprint(a)
BY DEF StoreInv, OneName, BackedBy, Backed, Served, Footprint

LEMMA QuietStep ==
    ASSUME StoreInv, TypeInv', Disjoint', NEW a \in Admins,
           apc[a] \notin InBatch, apc'[a] \notin InBatch,
           UNCHANGED <<rows, saved, dir, disk>>,
           \A b \in Admins \ {a} : Same(b), Handler(a)'
    PROVE  StoreInv'
<1>1. todo[a] \subseteq Versions
  BY DEF StoreInv, TypeInv, TypeOK, StoreTypeOK
<1> QED
  BY <1>1, Untouched, OutsideBatch

-----------------------------------------------------------------------------
(* The handlers.                                                           *)

LEMMA RequestKeepsInv ==
    ASSUME StoreInv, TypeInv', Disjoint', NEW a \in Admins, Request(a)
    PROVE  StoreInv'
<1>1. PICK first \in {"exists", "delete", "update", "begin"}, S \in SUBSET Versions,
           k \in Contents \cup {Partial} :
        /\ Receive(a, first, S, k)
        /\ first \in {"exists", "delete", "update"} => \E v \in Versions : S = {v}
  <2>1. CASE ReceiveUpload(a)
    BY <2>1 DEF ReceiveUpload
  <2>2. CASE ReceiveDelete(a)
    BY <2>2 DEF ReceiveDelete
  <2>3. CASE ReceiveUpdate(a)
    <3>1. PICK v \in Versions : Receive(a, "update", {v}, Partial)
      BY <2>3 DEF ReceiveUpdate
    <3> QED
      BY <3>1
  <2>4. CASE ReceiveBatch(a)
    <3>1. PICK S \in SUBSET Versions : Receive(a, "begin", S, Partial)
      BY <2>4 DEF ReceiveBatch
    <3> QED
      BY <3>1
  <2> QED
    BY <2>1, <2>2, <2>3, <2>4 DEF Request
<1>2. /\ StoreTypeOK /\ Handler(a) /\ apc[a] = "idle" /\ apc'[a] = first /\ todo'[a] = S
      /\ left'[a] = left[a] /\ afd'[a] = afd[a]
      /\ UNCHANGED <<rows, saved, dir, disk>>
  BY <1>1 DEF Receive, Goto, StoreInv, TypeInv, TypeOK, StoreTypeOK, dbVars, fileVars
<1>3. \A b \in Admins \ {a} : Same(b)
  BY <1>1, <1>2 DEF Receive, Goto, StoreTypeOK, Same
<1>4. Handler(a)'
  BY <1>1, <1>2 DEF Handler, Unpublished, OneVersion, Writing, Written, Removed, Remaining
<1> QED
  BY <1>2, <1>3, <1>4, QuietStep DEF InBatch

LEMMA UploadKeepsInv ==
    ASSUME FailuresShow, Solo \/ NothingUndone, StoreInv, TypeInv', Disjoint',
           NEW a \in Admins, Upload(a)
    PROVE  StoreInv'
<1>0. /\ StoreTypeOK /\ Handler(a) /\ OneName /\ BackedBy(rows)
      /\ todo[a] \subseteq Versions
  BY DEF StoreInv, TypeInv, TypeOK, StoreTypeOK
<1> DEFINE UploadPc == {"exists", "fopen", "fwrite", "insert", "rowid", "errmsg",
                        "undo_dup", "undo_other"}
<1>b. UploadPc \cap InBatch = {} /\ "idle" \notin InBatch
  BY DEF InBatch
<1>1. CASE CheckExists(a)
  <2>1. UNCHANGED <<rows, saved, dir, disk>>
    BY <1>1 DEF CheckExists, Select, fileVars
  <2>2. CASE AnswerWithId(a, "exists", 409, 0)
    BY <1>0, <1>b, <2>1, <2>2, Answered, QuietStep
  <2>3. CASE /\ Goto(a, "exists", "fopen") /\ KeepRequest
             /\ \E v \in todo[a] : rows[v] = NoRow
    <3>1. /\ apc[a] = "exists" /\ apc'[a] = "fopen" /\ UNCHANGED <<todo, left, data, afd>>
          /\ \A b \in Admins \ {a} : Same(b)
      BY <1>0, <2>3, Proceeded DEF KeepRequest
    <3>2. Handler(a)'
      BY <1>0, <2>1, <2>3, <3>1
      DEF Handler, Unpublished, OneVersion, Writing, Written, Removed, Remaining
    <3> QED
      BY <1>b, <2>1, <3>1, <3>2, QuietStep
  <2> QED
    BY <1>1, <2>2, <2>3 DEF CheckExists, Answer, FailuresShow
<1>2. CASE OpenFile(a)
  <2>1. PICK v \in todo[a], i \in Inodes :
            /\ IF dir[v] = NoInode THEN i \notin InUse ELSE i = dir[v]
            /\ dir' = [dir EXCEPT ![v] = i]
            /\ disk' = [disk EXCEPT ![i] = Partial]
            /\ afd' = [afd EXCEPT ![a] = i]
    BY <1>2 DEF OpenFile
  <2>2. /\ apc[a] = "fopen" /\ apc'[a] = "fwrite"
        /\ \A b \in Admins \ {a} : apc'[b] = apc[b]
        /\ UNCHANGED <<rows, saved, todo, left, data>>
    BY <1>0, <1>2, Proceeded DEF OpenFile, dbVars
  <2>3. todo[a] = {v} /\ rows[v] = NoRow /\ v \in Versions /\ left[a] = {}
    BY <1>0, <2>1, <2>2 DEF Handler, OneVersion, Unpublished, Remaining
  <2>4. \A w \in Versions \ {v} : dir[w] # i
    BY <1>0, <2>1, <2>3, StoreAssumption DEF OneName, InUse, Linked, StoreTypeOK
  <2>5. \A b \in Admins \ {a} : Same(b)
    BY <1>0, <2>1, <2>2 DEF Same, StoreTypeOK
  <2>6. dir'[v] = i /\ disk'[i] = Partial /\ afd'[a] = i /\ i # NoInode
    BY <1>0, <2>1, <2>3, StoreAssumption DEF StoreTypeOK
  <2>7. Footprint(a)
    BY <1>0, <2>1, <2>2, <2>3, <2>4 DEF Footprint, StoreTypeOK
  <2>8. OneName'
    BY <1>0, <2>1, <2>3, <2>4, <2>6 DEF OneName, StoreTypeOK
  <2>9. Handler(a)'
    BY <2>2, <2>3, <2>6
    DEF Handler, Unpublished, OneVersion, Writing, Written, Removed, Remaining
  <2>10. \A w \in todo[a] : Served(w)'
    BY <2>2, <2>3 DEF Served
  <2> QED
    BY <1>b, <2>2, <2>5, <2>7, <2>8, <2>9, <2>10, OutsideBatch
<1>3. CASE OpenFileFails(a) \/ WriteFileFails(a)
  <2>1. PICK from \in UploadPc : AnswerWithId(a, from, 500, 0)
    BY <1>3 DEF OpenFileFails, WriteFileFails, Answer
  <2>2. UNCHANGED <<rows, saved, dir, disk>>
    BY <1>3 DEF OpenFileFails, WriteFileFails, dbVars, fileVars
  <2> QED
    BY <1>0, <1>b, <2>1, <2>2, Answered, QuietStep
<1>4. CASE WriteFile(a)
  <2>1. /\ apc[a] = "fwrite" /\ apc'[a] = "insert"
        /\ \A b \in Admins \ {a} : apc'[b] = apc[b]
        /\ afd' = [afd EXCEPT ![a] = NoInode]
        /\ UNCHANGED <<rows, saved, dir, todo, left, data>>
    BY <1>0, <1>4, Proceeded DEF WriteFile, dbVars
  <2>2. PICK v \in Versions :
            /\ todo[a] = {v} /\ rows[v] = NoRow /\ left[a] = {}
            /\ dir[v] # NoInode /\ afd[a] = dir[v] /\ disk[dir[v]] = Partial
    BY <1>0, <2>1 DEF Handler, OneVersion, Unpublished, Writing, Remaining
  <2>3. ASSUME NEW b \in Admins \ {a} PROVE afd[b] # afd[a]
    <3>1. Handler(b) /\ todo[b] \subseteq Versions /\ todo[a] \cap todo[b] = {}
      BY DEF StoreInv, Disjoint, TypeInv, TypeOK, StoreTypeOK
    <3>2. CASE apc[b] = "fwrite"
      <4>1. PICK w \in Versions : todo[b] = {w} /\ afd[b] = dir[w]
        BY <3>1, <3>2 DEF Handler, OneVersion, Writing
      <4> QED
        BY <1>0, <2>2, <3>1, <4>1 DEF OneName
    <3>3. CASE apc[b] # "fwrite"
      BY <2>2, <3>1, <3>3 DEF Handler, Writing
    <3> QED
      BY <3>2, <3>3
  <2>4. ~ Short(a)
    BY <2>2, <2>3 DEF Short, Disturbed, FailuresShow
  <2>5. disk' = [disk EXCEPT ![dir[v]] = data[a]]
    BY <1>4, <2>2, <2>4 DEF WriteFile
  <2>6. dir[v] \in Inodes /\ disk'[dir[v]] = data[a] /\ afd'[a] = NoInode
    BY <1>0, <2>1, <2>2, <2>5 DEF StoreTypeOK
  <2>7. Footprint(a)
    BY <1>0, <2>1, <2>2, <2>5 DEF Footprint, OneName, StoreTypeOK
  <2>8. OneName'
    BY <1>0, <2>1 DEF OneName
  <2>9. Handler(a)'
    BY <2>1, <2>2, <2>6
    DEF Handler, Unpublished, OneVersion, Writing, Written, Removed, Remaining
  <2>10. \A w \in todo[a] : Served(w)'
    BY <2>1, <2>2 DEF Served
  <2>11. \A b \in Admins \ {a} : Same(b)
    BY <1>0, <2>1 DEF Same, StoreTypeOK
  <2> QED
    BY <1>b, <2>1, <2>7, <2>8, <2>9, <2>10, <2>11, OutsideBatch
<1>5. CASE Insert(a)
  <2>1. UNCHANGED <<dir, disk>> /\ KeepRequest
    BY <1>5 DEF Insert, fileVars
  <2>2. apc[a] = "insert" /\ apc'[a] \in {"rowid", "errmsg"}
    BY <1>0, <1>5, Proceeded DEF Insert
  <2>3. \A b \in Admins \ {a} : Same(b)
    BY <1>0, <1>5, <2>1, Proceeded DEF Insert
  <2>4. PICK v \in Versions :
            /\ todo[a] = {v} /\ rows[v] = NoRow /\ left[a] = {} /\ afd[a] = NoInode
            /\ dir[v] # NoInode /\ disk[dir[v]] = data[a]
    BY <1>0, <2>2 DEF Handler, OneVersion, Unpublished, Writing, Written, Remaining
  <2>5. CASE InsertVersion(v, data[a]) /\ Goto(a, "insert", "rowid")
    <3>1. /\ apc'[a] = "rowid" /\ saved' = saved
          /\ rows' = [rows EXCEPT ![v] = NewRow(nextId, data[a])]
      BY <1>0, <2>5, Proceeded DEF InsertVersion
    <3>2. rows'[v].sha = data[a] /\ \A w \in Versions \ {v} : rows'[w] = rows[w]
      BY <3>1 DEF NewRow, StoreInv, TypeInv, TypeOK, DbTypeOK, Tables
    <3>3. Footprint(a)
      BY <2>1, <2>4, <3>2 DEF Footprint
    <3>4. OneName'
      BY <1>0, <2>1 DEF OneName
    <3>5. \A w \in todo[a] : Served(w)'
      BY <2>1, <2>4, <3>2 DEF Served, Backed
    <3>6. Handler(a)'
      BY <2>1, <2>4, <3>1
      DEF Handler, Unpublished, OneVersion, Writing, Written, Removed, Remaining, KeepRequest
    <3> QED
      BY <1>b, <2>2, <2>3, <3>1, <3>3, <3>4, <3>5, <3>6, OutsideBatch
  <2>6. CASE StatementFails /\ Goto(a, "insert", "errmsg")
    <3>1. UNCHANGED <<rows, saved>>
      BY <1>b, <2>2, <2>6, FailureOutsideBatch
    <3>2. apc'[a] = "errmsg"
      BY <1>0, <2>6, Proceeded
    <3>3. Handler(a)'
      BY <2>1, <2>4, <3>1, <3>2
      DEF Handler, Unpublished, OneVersion, Writing, Written, Removed, Remaining, KeepRequest
    <3> QED
      BY <1>b, <2>1, <2>2, <2>3, <3>1, <3>3, QuietStep
  <2> QED
    BY <1>5, <2>4, <2>5, <2>6 DEF Insert, InsertConflicts
<1>6. CASE AnswerUpload(a)
  <2>1. UNCHANGED <<rows, saved, dir, disk>> /\ AnswerWithId(a, "rowid", 201, lastRowid)
    BY <1>6 DEF AnswerUpload, dbVars, fileVars
  <2> QED
    BY <1>0, <1>b, <2>1, Answered, QuietStep
<1>7. CASE ReadError(a)
  <2>1. UNCHANGED <<rows, saved, dir, disk>> /\ KeepRequest
    BY <1>7 DEF ReadError, dbVars, fileVars
  <2>2. /\ apc[a] = "errmsg" /\ apc'[a] \in {"undo_dup", "undo_other"}
        /\ \A b \in Admins \ {a} : Same(b)
    BY <1>0, <1>7, <2>1, Proceeded DEF ReadError
  <2>3. Handler(a)'
    BY <1>0, <2>1, <2>2
    DEF Handler, Unpublished, OneVersion, Writing, Written, Removed, Remaining, KeepRequest
  <2> QED
    BY <1>b, <2>1, <2>2, <2>3, QuietStep
<1>8. CASE UndoUpload(a)
  <2>1. PICK from \in {"undo_dup", "undo_other"}, status \in {409, 500} :
            AnswerWithId(a, from, status, 0)
    BY <1>8 DEF UndoUpload, Answer
  <2>2. /\ apc[a] \in {"undo_dup", "undo_other"} /\ apc'[a] = "idle"
        /\ Handler(a)' /\ \A b \in Admins \ {a} : Same(b)
    BY <1>0, <2>1, Answered
  <2>3. PICK v \in Versions : todo[a] = {v} /\ RemoveFile(v) /\ rows[v] = NoRow
    BY <1>0, <1>8, <2>2 DEF UndoUpload, Handler, OneVersion, Unpublished
  <2>4. UNCHANGED <<rows, saved, disk>>
    BY <1>8, <2>3 DEF UndoUpload, RemoveFile, Unlink, dbVars, fileVars
  <2>5. dir' = [dir EXCEPT ![v] = NoInode] \/ dir' = dir
    BY <2>3 DEF RemoveFile, Unlink, fileVars
  <2>6. Footprint(a) /\ OneName'
    BY <1>0, <2>3, <2>4, <2>5 DEF Footprint, OneName, StoreTypeOK
  <2>7. \A w \in todo[a] : Served(w)'
    BY <2>3, <2>4 DEF Served
  <2> QED
    BY <1>b, <2>2, <2>4, <2>6, <2>7, OutsideBatch
<1> QED
  BY <1>1, <1>2, <1>3, <1>4, <1>5, <1>6, <1>7, <1>8 DEF Upload

LEMMA SingleVersionKeepsInv ==
    ASSUME Solo \/ NothingUndone, StoreInv, TypeInv', Disjoint',
           NEW a \in Admins, SingleVersion(a) \/ UnlinkOne(a)
    PROVE  StoreInv'
<1>0. /\ StoreTypeOK /\ Handler(a) /\ OneName /\ BackedBy(rows)
      /\ todo[a] \subseteq Versions
  BY DEF StoreInv, TypeInv, TypeOK, StoreTypeOK
<1>b. {"delete", "changed", "update", "matched", "unlink", "idle"} \cap InBatch = {}
  BY DEF InBatch
<1>1. CASE Delete(a)
  <2>1. UNCHANGED <<dir, disk>>
    BY <1>1 DEF Delete, fileVars
  <2>2. PICK v \in todo[a] :
            \/ DeleteVersion(v) /\ Goto(a, "delete", "changed") /\ KeepRequest
            \/ StatementFails /\ AnswerWithId(a, "delete", 500, 0)
    BY <1>1 DEF Delete, Answer
  <2>3. CASE DeleteVersion(v) /\ Goto(a, "delete", "changed") /\ KeepRequest
    <3>1. /\ apc[a] = "delete" /\ apc'[a] = "changed" /\ UNCHANGED <<todo, left, data, afd>>
          /\ \A b \in Admins \ {a} : Same(b)
      BY <1>0, <2>3, Proceeded DEF KeepRequest
    <3>2. todo[a] = {v} /\ v \in Versions
      BY <1>0, <2>2, <3>1 DEF Handler, OneVersion
    <3>3. /\ saved' = saved /\ rows'[v] = NoRow
          /\ \A w \in Versions \ {v} : rows'[w] = rows[w]
      BY <2>3, <3>2 DEF DeleteVersion, StoreInv, TypeInv, TypeOK, DbTypeOK, Tables
    <3>4. Footprint(a) /\ OneName' /\ \A w \in todo[a] : Served(w)'
      BY <1>0, <2>1, <3>2, <3>3 DEF Footprint, OneName, Served
    <3>5. Handler(a)'
      BY <1>0, <3>1, <3>2, <3>3
      DEF Handler, Unpublished, OneVersion, Writing, Written, Removed, Remaining
    <3> QED
      BY <1>b, <3>1, <3>3, <3>4, <3>5, OutsideBatch
  <2>4. CASE StatementFails /\ AnswerWithId(a, "delete", 500, 0)
    BY <1>0, <1>b, <2>1, <2>4, Answered, FailureOutsideBatch, QuietStep
  <2> QED
    BY <2>2, <2>3, <2>4
<1>2. CASE ReadChanges(a)
  <2>1. UNCHANGED <<rows, saved, dir, disk>>
    BY <1>2 DEF ReadChanges, dbVars, fileVars
  <2>2. CASE AnswerWithId(a, "changed", 404, 0)
    BY <1>0, <1>b, <2>1, <2>2, Answered, QuietStep
  <2>3. CASE Goto(a, "changed", "unlink") /\ KeepRequest
    <3>1. /\ apc[a] = "changed" /\ apc'[a] = "unlink" /\ UNCHANGED <<todo, left, data, afd>>
          /\ \A b \in Admins \ {a} : Same(b)
      BY <1>0, <2>3, Proceeded DEF KeepRequest
    <3>2. Handler(a)'
      BY <1>0, <2>1, <3>1
      DEF Handler, Unpublished, OneVersion, Writing, Written, Removed, Remaining
    <3> QED
      BY <1>b, <2>1, <3>1, <3>2, QuietStep
  <2> QED
    BY <1>2, <2>2, <2>3 DEF ReadChanges, Answer
<1>3. CASE Update(a)
  <2>1. UNCHANGED <<dir, disk>>
    BY <1>3 DEF Update, fileVars
  <2>2. PICK v \in todo[a] :
            \/ UpdateDescription(v) /\ Goto(a, "update", "matched") /\ KeepRequest
            \/ StatementFails /\ AnswerWithId(a, "update", 500, 0)
    BY <1>3 DEF Update, Answer
  <2>3. CASE UpdateDescription(v) /\ Goto(a, "update", "matched") /\ KeepRequest
    <3>1. /\ apc[a] = "update" /\ apc'[a] = "matched" /\ UNCHANGED <<todo, left, data, afd>>
          /\ \A b \in Admins \ {a} : Same(b)
      BY <1>0, <2>3, Proceeded DEF KeepRequest
    <3>2. UNCHANGED <<rows, saved>>
      BY <2>3 DEF UpdateDescription
    <3>3. Handler(a)'
      BY <1>0, <3>1, <3>2
      DEF Handler, Unpublished, OneVersion, Writing, Written, Removed, Remaining
    <3> QED
      BY <1>b, <2>1, <3>1, <3>2, <3>3, QuietStep
  <2>4. CASE StatementFails /\ AnswerWithId(a, "update", 500, 0)
    BY <1>0, <1>b, <2>1, <2>4, Answered, FailureOutsideBatch, QuietStep
  <2> QED
    BY <2>2, <2>3, <2>4
<1>4. CASE AnswerUpdate(a)
  <2>1. UNCHANGED <<rows, saved, dir, disk>>
    BY <1>4 DEF AnswerUpdate, dbVars, fileVars
  <2>2. PICK status : AnswerWithId(a, "matched", status, 0)
    BY <1>4 DEF AnswerUpdate, Answer
  <2> QED
    BY <1>0, <1>b, <2>1, <2>2, Answered, QuietStep
<1>5. CASE UnlinkOne(a)
  <2>1. PICK v \in todo[a] :
            /\ RemoveFile(v)
            /\ \/ AnswerWithId(a, "unlink", 200, 0)
               \/ /\ apc[a] = "unlink"
                  /\ todo' = [todo EXCEPT ![a] = @ \ {v}]
                  /\ UNCHANGED <<apc, left, data, afd, reply>>
    BY <1>5 DEF UnlinkOne, Answer
  <2>2. apc[a] = "unlink" /\ apc'[a] \in {"idle", "unlink"}
    BY <1>0, <2>1, Answered
  <2>3. \A w \in todo[a] : rows[w] = NoRow
    BY <1>0, <2>2 DEF Handler, Unpublished
  <2>4. UNCHANGED <<rows, saved, disk>>
    BY <1>5, <2>1 DEF UnlinkOne, RemoveFile, Unlink, dbVars, fileVars
  <2>5. dir' = [dir EXCEPT ![v] = NoInode] \/ dir' = dir
    BY <2>1 DEF RemoveFile, Unlink, fileVars
  <2>6. Footprint(a) /\ OneName' /\ \A w \in todo[a] : Served(w)'
    BY <1>0, <2>3, <2>4, <2>5 DEF Footprint, OneName, Served, StoreTypeOK
  <2>7. CASE AnswerWithId(a, "unlink", 200, 0)
    BY <1>0, <1>b, <2>2, <2>4, <2>6, <2>7, Answered, OutsideBatch
  <2>8. CASE /\ todo' = [todo EXCEPT ![a] = @ \ {v}]
             /\ UNCHANGED <<apc, left, data, afd, reply>>
    <3>1. \A b \in Admins \ {a} : Same(b)
      BY <1>0, <2>8 DEF Same, StoreTypeOK
    <3>2. todo'[a] = todo[a] \ {v}
      BY <1>0, <2>8 DEF StoreTypeOK
    <3>3. Handler(a)'
      BY <1>0, <2>2, <2>3, <2>4, <2>8, <3>2
      DEF Handler, Unpublished, OneVersion, Writing, Written, Removed, Remaining
    <3> QED
      BY <1>b, <2>2, <2>4, <2>6, <3>1, <3>3, OutsideBatch
  <2> QED
    BY <2>1, <2>7, <2>8
<1> QED
  BY <1>1, <1>2, <1>3, <1>4, <1>5 DEF SingleVersion

\* Going back to the rows before the transaction is harmless when the only
\* administrator is still in the batch that began it.
LEMMA RestoreKeepsInv ==
    ASSUME Solo, StoreInv, TypeInv', Disjoint', saved # NoTx,
           rows' = saved.rows, saved' = NoTx,
           \A a \in Admins : /\ apc'[a] \in InBatch
                             /\ apc'[a] = "each" => apc[a] = "each"
                             /\ apc'[a] = "commit" => apc[a] = "commit"
                             /\ apc'[a] = "rollback" /\ apc[a] # "rollback" =>
                                    apc[a] \in {"each", "commit"},
           UNCHANGED <<dir, disk, todo, left, data, afd>>,
           ~ NothingUndone
    PROVE  StoreInv'
<1>1. OneName' /\ BackedBy(rows)'
  BY DEF StoreInv, OneName, Undoable, BackedBy, Backed
<1>2. Undoable' /\ NeverUndone'
  BY SentinelAssumption DEF Undoable, NeverUndone, NothingUndone
<1>3. ASSUME NEW a \in Admins PROVE Handler(a)'
  <2>1. Handler(a) /\ apc[a] \in InBatch
    BY DEF StoreInv, Undoable
  <2>2. Unpublished(a)' /\ OneVersion(a)' /\ Written(a)' /\ Removed(a)'
    BY DEF Unpublished, OneVersion, Written, Removed, InBatch
  <2>3. Writing(a)' /\ Remaining(a)'
    BY <2>1 DEF Handler, Writing, Remaining, InBatch
  <2> QED
    BY <2>2, <2>3 DEF Handler
<1> QED
  BY <1>1, <1>2, <1>3 DEF StoreInv

\* A statement of a batch that fails, and sends the batch to its ROLLBACK.
LEMMA FailureInBatch ==
    ASSUME Solo \/ NothingUndone, StoreInv, TypeInv', Disjoint', NEW a \in Admins,
           StatementFails, apc[a] \in {"each", "commit"},
           Goto(a, apc[a], "rollback"), KeepRequest, UNCHANGED fileVars
    PROVE  StoreInv'
<1>1. ~ NothingUndone /\ Solo
  BY DEF StatementFails, NothingUndone
<1>2. \A b \in Admins : b = a
  BY <1>1 DEF Solo
<1>3. apc'[a] = "rollback" /\ StoreTypeOK /\ Handler(a)
  BY Proceeded DEF StoreInv, TypeInv, TypeOK
<1>4. UNCHANGED <<dir, disk, todo, left, data, afd>>
  BY DEF KeepRequest, fileVars
<1>5. CASE UNCHANGED <<rows, saved>>
  <2>1. OneName' /\ BackedBy(rows)'
    BY <1>4, <1>5 DEF StoreInv, OneName, BackedBy, Backed
  <2>2. Undoable' /\ NeverUndone'
    BY <1>1, <1>2, <1>3, <1>4, <1>5
    DEF StoreInv, Undoable, NeverUndone, BackedBy, Backed, InBatch
  <2>3. Handler(a)'
    BY <1>3, <1>4, <1>5
    DEF Handler, Unpublished, OneVersion, Writing, Written, Removed, Remaining
  <2> QED
    BY <1>2, <2>1, <2>2, <2>3 DEF StoreInv
<1>6. CASE saved # NoTx /\ RestoreSaved
  <2>1. rows' = saved.rows /\ saved' = NoTx
    BY <1>6 DEF RestoreSaved
  <2> QED
    BY <1>1, <1>2, <1>3, <1>4, <1>6, <2>1, RestoreKeepsInv DEF InBatch
<1> QED
  BY <1>5, <1>6 DEF StatementFails

LEMMA BatchKeepsInv ==
    ASSUME Solo \/ NothingUndone, StoreInv, TypeInv', Disjoint', NEW a \in Admins, Batch(a)
    PROVE  StoreInv'
<1>0. /\ StoreTypeOK /\ Handler(a) /\ OneName /\ BackedBy(rows)
      /\ todo[a] \subseteq Versions /\ rows \in Tables /\ nextId \in Nat /\ nextLogId \in Nat
  BY DEF StoreInv, TypeInv, TypeOK, StoreTypeOK, DbTypeOK
<1>1. CASE BeginBatch(a)
  <2>1. UNCHANGED <<rows, dir, disk>>
    BY <1>1 DEF BeginBatch, Begin, BeginRefused, fileVars
  <2>2. CASE BeginRefused /\ AnswerWithId(a, "begin", 500, 0)
    BY <1>0, <2>1, <2>2, Answered, QuietStep DEF BeginRefused, InBatch
  <2>3. CASE /\ Begin
             /\ Goto(a, "begin", "each")
             /\ left' = [left EXCEPT ![a] = todo[a]]
             /\ UNCHANGED <<todo, data, afd, reply>>
    <3>1. /\ apc[a] = "begin" /\ apc'[a] = "each" /\ left'[a] = todo[a]
          /\ UNCHANGED <<todo, data, afd>> /\ afd[a] = NoInode
          /\ \A b \in Admins \ {a} : Same(b)
      BY <1>0, <2>3, Proceeded DEF Same, Handler, Writing, StoreTypeOK
    <3>2. saved = NoTx /\ saved'.rows = rows /\ saved' # NoTx
      BY <1>0, <2>3, SentinelAssumption DEF Begin
    <3>3. OneName' /\ BackedBy(rows)' /\ BackedBy(saved.rows)' /\ Footprint(a)
      BY <1>0, <2>1, <3>2 DEF OneName, BackedBy, Backed, Footprint
    <3>4. Handler(a)'
      BY <3>1 DEF Handler, Unpublished, OneVersion, Writing, Written, Removed, Remaining
    <3>5. \A b \in Admins \ {a} : apc[b] \notin {"each", "commit"}
      BY <3>2 DEF StoreInv, NeverUndone, Solo
    <3>6. \A b \in Admins : Handler(b)'
      BY <3>1, <3>3, <3>4, <3>5, OtherHandlers
    <3>7. Undoable'
      BY <3>1, <3>3 DEF Undoable, Solo, InBatch
    <3>8. NeverUndone'
      BY <3>1, <3>2, <3>5 DEF StoreInv, NeverUndone, Same
    <3> QED
      BY <3>3, <3>6, <3>7, <3>8 DEF StoreInv
  <2> QED
    BY <1>1, <2>2, <2>3 DEF BeginBatch, Answer
<1>2. CASE DeleteEach(a)
  <2>1. apc[a] = "each" /\ UNCHANGED <<dir, disk, todo, data, afd, reply>>
    BY <1>2 DEF DeleteEach, Goto, fileVars
  <2>2. PICK v \in left[a] :
            \/ /\ DeleteVersion(v)
               /\ left' = [left EXCEPT ![a] = @ \ {v}]
               /\ Goto(a, "each", IF left[a] = {v} THEN "commit" ELSE "each")
            \/ StatementFails /\ Goto(a, "each", "rollback") /\ UNCHANGED left
    BY <1>2 DEF DeleteEach
  <2>3. left[a] \subseteq todo[a] /\ v \in Versions /\ afd[a] = NoInode
    BY <1>0, <2>1, <2>2 DEF Handler, Remaining, Writing
  <2>4. CASE StatementFails /\ Goto(a, "each", "rollback") /\ UNCHANGED left
    BY <1>2, <2>1, <2>4, FailureInBatch DEF KeepRequest, fileVars
  <2>5. CASE /\ DeleteVersion(v)
             /\ left' = [left EXCEPT ![a] = @ \ {v}]
             /\ Goto(a, "each", IF left[a] = {v} THEN "commit" ELSE "each")
    <3>1. /\ apc'[a] = (IF left[a] = {v} THEN "commit" ELSE "each")
          /\ left'[a] = left[a] \ {v}
          /\ \A b \in Admins \ {a} : Same(b)
      BY <1>0, <2>1, <2>5, Proceeded DEF Same, StoreTypeOK
    <3>2. /\ saved' = saved /\ rows'[v] = NoRow
          /\ \A w \in Versions \ {v} : rows'[w] = rows[w]
      BY <1>0, <2>3, <2>5 DEF DeleteVersion, Tables
    <3>3. OneName' /\ BackedBy(rows)' /\ Footprint(a)
      BY <1>0, <2>1, <2>2, <2>3, <3>2 DEF OneName, BackedBy, Backed, Footprint
    <3>4. Handler(a)'
      BY <1>0, <2>1, <2>3, <3>1, <3>2
      DEF Handler, Unpublished, OneVersion, Writing, Written, Removed, Remaining
    <3>5. \A b \in Admins : Handler(b)'
      BY <3>1, <3>2, <3>3, <3>4, OtherHandlers
    <3>6. Undoable'
      BY <2>1, <3>1, <3>2 DEF StoreInv, Undoable, Solo, InBatch, BackedBy, Backed
    <3>7. NeverUndone'
      BY <2>1, <3>1, <3>2 DEF StoreInv, NeverUndone, Same
    <3> QED
      BY <3>3, <3>5, <3>6, <3>7 DEF StoreInv
  <2> QED
    BY <2>2, <2>4, <2>5
<1>3. CASE CommitBatch(a)
  <2>1. apc[a] = "commit" /\ KeepRequest /\ UNCHANGED <<dir, disk, fileVars>>
    BY <1>3 DEF CommitBatch, Goto, fileVars
  <2>2. CASE Commit /\ Goto(a, "commit", "unlink")
    <3>1. /\ apc'[a] = "unlink" /\ saved' = NoTx /\ saved # NoTx /\ rows' = rows
          /\ \A b \in Admins \ {a} : Same(b)
      BY <1>0, <2>1, <2>2, Proceeded DEF Commit
    <3>2. OneName' /\ BackedBy(rows)' /\ Footprint(a)
      BY <1>0, <2>1, <3>1 DEF OneName, BackedBy, Backed, Footprint
    <3>3. Handler(a)'
      BY <1>0, <2>1, <3>1
      DEF Handler, Unpublished, OneVersion, Writing, Written, Removed, Remaining, KeepRequest
    <3>4. \A b \in Admins : Handler(b)'
      BY <3>1, <3>2, <3>3, OtherHandlers
    <3>5. Undoable' /\ NeverUndone'
      BY <2>1, <3>1 DEF StoreInv, Undoable, NeverUndone, Same
    <3> QED
      BY <3>2, <3>4, <3>5 DEF StoreInv
  <2>3. CASE /\ saved = NoTx /\ Goto(a, "commit", "rollback")
             /\ UNCHANGED <<rows, nextId, nextLogId, saved, changes, lastRowid>>
    <3>1. ~ NothingUndone /\ Solo
      BY <2>1, <2>3 DEF StoreInv, NeverUndone
    <3>2. apc'[a] = "rollback" /\ UNCHANGED <<rows, saved, todo, left, data, afd>>
      BY <1>0, <2>1, <2>3, Proceeded DEF KeepRequest
    <3>3. OneName' /\ BackedBy(rows)' /\ Undoable' /\ NeverUndone'
      BY <1>0, <2>1, <2>3, <3>1, <3>2
      DEF OneName, BackedBy, Backed, Undoable, NeverUndone
    <3>4. Handler(a)'
      BY <1>0, <2>1, <2>3, <3>2
      DEF Handler, Unpublished, OneVersion, Writing, Written, Removed, Remaining
    <3> QED
      BY <3>1, <3>3, <3>4 DEF StoreInv, Solo
  <2>4. CASE StatementFails /\ Goto(a, "commit", "rollback")
    BY <2>1, <2>4, FailureInBatch
  <2> QED
    BY <1>3, <2>2, <2>3, <2>4 DEF CommitBatch
<1>4. CASE RollbackBatch(a)
  <2>1. AnswerWithId(a, "rollback", 500, 0) /\ UNCHANGED <<dir, disk>>
    BY <1>4 DEF RollbackBatch, Answer, fileVars
  <2>2. apc[a] = "rollback" /\ Handler(a)'
    BY <1>0, <2>1, Answered
  <2>3. ~ NothingUndone /\ Solo
    BY <2>2 DEF StoreInv, NeverUndone
  <2>4. saved' = NoTx /\ rows' = IF saved = NoTx THEN rows ELSE saved.rows
    BY <1>4 DEF RollbackBatch, Rollback, RestoreSaved
  <2>5. OneName' /\ BackedBy(rows)'
    BY <1>0, <2>1, <2>3, <2>4 DEF StoreInv, Undoable, OneName, BackedBy, Backed
  <2>6. Undoable' /\ NeverUndone'
    BY <2>3, <2>4 DEF Undoable, NeverUndone
  <2> QED
    BY <2>2, <2>3, <2>5, <2>6 DEF StoreInv, Solo
<1> QED
  BY <1>1, <1>2, <1>3, <1>4 DEF Batch

-----------------------------------------------------------------------------
(* The downloads, the readers and the restart.                             *)

\* Counting and logging leave every row where it is, with its sha256.
LEMMA StatisticsKeepShas ==
    ASSUME DbTypeOK, NEW i \in Nat, IncrementCount(i) \/ LogDownload(i)
    PROVE  /\ saved' = saved
           /\ \A v \in Versions : /\ rows'[v] = NoRow <=> rows[v] = NoRow
                                  /\ rows[v] # NoRow => rows'[v].sha = rows[v].sha
<1>1. saved' = saved
  BY DEF IncrementCount, LogDownload
<1>2. ASSUME NEW v \in Versions
      PROVE  /\ rows'[v] = NoRow <=> rows[v] = NoRow
             /\ rows[v] # NoRow => rows'[v].sha = rows[v].sha
  <2>1. CASE rows[v] = NoRow
    BY <2>1 DEF IncrementCount, LogDownload, HasId, DbTypeOK, Tables
  <2>2. CASE rows[v] # NoRow
    <3>1. rows[v] \in Row
      BY <2>2 DEF DbTypeOK, Tables
    <3>2. /\ [rows[v] EXCEPT !.count = @ + 1] \in Row
          /\ [rows[v] EXCEPT !.logs = @ + 1] \in Row
          /\ [rows[v] EXCEPT !.count = @ + 1].sha = rows[v].sha
          /\ [rows[v] EXCEPT !.logs = @ + 1].sha = rows[v].sha
      BY <3>1 DEF Row
    <3>3. rows'[v] \in {rows[v], [rows[v] EXCEPT !.count = @ + 1],
                        [rows[v] EXCEPT !.logs = @ + 1]}
      BY DEF IncrementCount, LogDownload, HasId
    <3> QED
      BY <2>2, <3>1, <3>2, <3>3, SentinelAssumption
  <2> QED
    BY <2>1, <2>2
<1> QED
  BY <1>1, <1>2

LEMMA DownloadKeepsInv ==
    ASSUME Solo \/ NothingUndone, StoreInv, TypeInv', NEW c \in Clients, Download(c)
    PROVE  StoreInv'
<1>0. DbTypeOK /\ StoreTypeOK /\ rid[c] \in Nat
  BY DEF StoreInv, TypeInv, TypeOK, StoreTypeOK
<1>1. UNCHANGED <<dir, disk, apc, todo, left, data, afd>>
  BY DEF Download, Lookup, OpenPackage, PackageMissing, StreamDone, StreamCut, Count, Log,
         fileVars, adminVars
<1>2. Disjoint' /\ OneName'
  BY <1>1 DEF StoreInv, Disjoint, OneName
<1>3. CASE /\ saved' = saved
           /\ \A v \in Versions : /\ rows'[v] = NoRow <=> rows[v] = NoRow
                                  /\ rows[v] # NoRow => rows'[v].sha = rows[v].sha
  <2>1. BackedBy(rows)' /\ Undoable' /\ NeverUndone'
    BY <1>1, <1>3 DEF StoreInv, BackedBy, Backed, Undoable, NeverUndone
  <2>2. ASSUME NEW a \in Admins PROVE Handler(a)'
    <3>1. Handler(a) /\ todo[a] \subseteq Versions
      BY <1>0 DEF StoreInv, StoreTypeOK
    <3> QED
      BY <1>1, <1>3, <3>1
      DEF Handler, Unpublished, OneVersion, Writing, Written, Removed, Remaining
  <2> QED
    BY <1>2, <2>1, <2>2 DEF StoreInv
<1>4. CASE StatementFails /\ saved # NoTx /\ RestoreSaved
  <2>1. rows' = saved.rows /\ saved' = NoTx /\ ~ NothingUndone /\ Solo
    BY <1>4 DEF RestoreSaved, StatementFails, NothingUndone
  <2>2. \A a \in Admins : apc[a] \in InBatch
    BY <1>4, <2>1 DEF StoreInv, Undoable
  <2> QED
    BY <1>1, <1>2, <1>4, <2>1, <2>2, RestoreKeepsInv
<1>5. \/ Select \/ UNCHANGED dbVars \/ IncrementCount(rid[c]) \/ LogDownload(rid[c])
      \/ StatementFails
  BY DEF Download, Lookup, OpenPackage, PackageMissing, StreamDone, StreamCut, Count, Log
<1>6. Select \/ UNCHANGED dbVars => UNCHANGED <<rows, saved>>
  BY DEF Select, dbVars
<1>7. StatementFails => UNCHANGED <<rows, saved>> \/ (saved # NoTx /\ RestoreSaved)
  BY DEF StatementFails
<1> QED
  BY <1>0, <1>3, <1>4, <1>5, <1>6, <1>7, StatisticsKeepShas

LEMMA CrashKeepsInv ==
    ASSUME Solo \/ NothingUndone, StoreInv, TypeInv', Crash
    PROVE  StoreInv'
<1>1. Solo /\ ~ NothingUndone
  BY DEF Crash, NothingUndone
<1>2. /\ \A a \in Admins : /\ apc'[a] = "idle" /\ todo'[a] = {} /\ left'[a] = {}
                           /\ afd'[a] = NoInode
      /\ saved' = NoTx /\ rows' = (IF saved = NoTx THEN rows ELSE saved.rows)
      /\ UNCHANGED <<dir, disk>>
  BY DEF Crash, Reopen, RestoreSaved, fileVars
<1>3. OneName' /\ BackedBy(rows)'
  BY <1>1, <1>2 DEF StoreInv, Undoable, OneName, BackedBy, Backed
<1>4. Disjoint' /\ Undoable' /\ NeverUndone'
  BY <1>1, <1>2 DEF Disjoint, Undoable, NeverUndone
<1>5. \A a \in Admins : Handler(a)'
  BY <1>2 DEF Handler, Unpublished, OneVersion, Writing, Written, Removed, Remaining
<1> QED
  BY <1>3, <1>4, <1>5 DEF StoreInv

LEMMA InvStep ==
    ASSUME FailuresShow, Solo \/ NothingUndone,
           StoreInv, [Next /\ Disjoint']_vars
    PROVE  StoreInv'
<1>1. TypeInv'
  BY TypeStep DEF StoreInv
<1>2. ASSUME UNCHANGED <<rows, saved, fileVars, adminVars>> PROVE StoreInv'
  BY <1>1, <1>2
  DEF StoreInv, fileVars, adminVars, Disjoint, OneName, BackedBy, Backed, Undoable, NeverUndone,
      Handler, Unpublished, OneVersion, Writing, Written, Removed, Remaining
<1>3. CASE UNCHANGED vars
  BY <1>2, <1>3 DEF vars, dbVars
<1>4. CASE Next /\ Disjoint'
  <2>1. CASE \E a \in Admins : Request(a) \/ Serve(a)
    BY <1>1, <1>4, <2>1, RequestKeepsInv, UploadKeepsInv, SingleVersionKeepsInv, BatchKeepsInv
    DEF Serve
  <2>2. CASE \E c \in Clients : Download(c)
    BY <1>1, <2>2, DownloadKeepsInv
  <2>3. CASE ReadOnly
    BY <1>2, <2>3 DEF ReadOnly, Select
  <2>4. CASE Crash
    BY <1>1, <2>4, CrashKeepsInv
  <2> QED
    BY <1>4, <2>1, <2>2, <2>3, <2>4 DEF Next
<1> QED
  BY <1>3, <1>4

LEMMA InvInit == Init => StoreInv
<1> SUFFICES ASSUME Init PROVE StoreInv
  OBVIOUS
<1>1. TypeInv
  BY TypeInit
<1>2. OneName /\ BackedBy(rows) /\ Disjoint
  BY DEF Init, DbInit, NoRequests, OneName, BackedBy, Disjoint
<1>3. Undoable /\ NeverUndone
  BY DEF Init, DbInit, NoRequests, Undoable, NeverUndone
<1>4. \A a \in Admins : Handler(a)
  BY DEF Init, NoRequests, Handler, Unpublished, OneVersion, Writing, Written, Removed, Remaining
<1> QED
  BY <1>1, <1>2, <1>3, <1>4 DEF StoreInv

\* A version that has a row has its zip file, with the content of its sha256
\* (admin_api.cpp:263-295, 448-465, 488-509), for any number of administrators
\* that work on different versions, when a SELECT that fails never passes for
\* "not found" (database.cpp:254), nor a flush that fails for a written file
\* (admin_api.cpp:37), and no statement fails and nothing crashes.
\* With one administrator statements may fail, sqlite may roll back, and the
\* server may die anywhere.
THEOREM RowsHaveFiles ==
    ASSUME FailuresShow, Solo \/ NothingUndone
    PROVE  DisjointSpec => []RowHasFile
<1>1. StoreInv => RowHasFile
  BY DEF StoreInv, BackedBy, RowHasFile
<1>2. StoreInv /\ [Next /\ Disjoint']_vars => StoreInv'
  BY InvStep
<1> QED
  BY <1>1, <1>2, InvInit, PTL DEF DisjointSpec

\* In particular for the only administrator, whatever he asks for.
THEOREM OnlyAdministrator ==
    ASSUME FailuresShow, Solo
    PROVE  Spec => []RowHasFile
<1>1. StoreInv => RowHasFile
  BY DEF StoreInv, BackedBy, RowHasFile
<1>2. [Next]_vars => [Next /\ Disjoint']_vars
  BY DEF Solo, Disjoint
<1>3. StoreInv /\ [Next]_vars => StoreInv'
  BY <1>2, InvStep
<1> QED
  BY <1>1, <1>3, InvInit, PTL DEF Spec
=============================================================================
