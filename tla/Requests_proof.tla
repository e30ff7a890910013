---------------------------- MODULE Requests_proof ----------------------------
(***************************************************************************)
(* What the handlers of several requests keep true together: an upload     *)
(* that is acknowledged is stored, the statistics of a row fit each other, *)
(* and the requests of the only administrator are atomic.                  *)
(***************************************************************************)
EXTENDS Downloads_proof, FiniteSetTheorems

-----------------------------------------------------------------------------
(* The files of uploads, whatever becomes of the rows.                     *)

\* From the closing of its file to the answer, the file of an upload holds what
\* was uploaded.
Stored(a) ==
    apc[a] \in {"insert", "rowid"} =>
        \A v \in todo[a] : dir[v] # NoInode /\ disk[dir[v]] = data[a]

FileHandler(a) == OneVersion(a) /\ Writing(a) /\ Remaining(a) /\ Stored(a)

\* The part of StoreInv that needs no row: it holds also while SELECTs fail,
\* transactions are undone and the process dies.
FileInv ==
    /\ TypeInv
    /\ Disjoint
    /\ OneName
    /\ \A a \in Admins : FileHandler(a)

FileFootprint(a) ==
    \A v \in Versions \ todo[a] :
        /\ dir'[v] = dir[v]
        /\ dir[v] # NoInode => disk'[dir[v]] = disk[dir[v]]

LEMMA FileStep ==
    ASSUME FileInv, TypeInv', Disjoint', NEW a \in Admins, \A b \in Admins \ {a} : Same(b),
           FileFootprint(a), OneName', FileHandler(a)'
    PROVE  FileInv'
<1>1. ASSUME NEW b \in Admins \ {a} PROVE FileHandler(b)'
  <2>1. FileHandler(b) /\ Same(b)
    BY DEF FileInv
  <2>2. todo[b] \subseteq Versions \ todo[a]
    BY DEF FileInv, Disjoint, TypeInv, TypeOK, StoreTypeOK
  <2>3. \A v \in todo[b] : /\ dir'[v] = dir[v]
                           /\ dir[v] # NoInode => disk'[dir[v]] = disk[dir[v]]
    BY <2>2 DEF FileFootprint
  <2>4. OneVersion(b)' /\ Remaining(b)'
    BY <2>1 DEF FileHandler, Same, OneVersion, Remaining
  <2>5. Writing(b)' /\ Stored(b)'
    BY <2>1, <2>3 DEF FileHandler, Same, Writing, Stored
  <2> QED BY <2>4, <2>5 DEF FileHandler
<1> QED BY <1>1 DEF FileInv

\* A step that leaves all files alone.
LEMMA NoFileStep ==
    ASSUME FileInv, TypeInv', Disjoint', NEW a \in Admins, \A b \in Admins \ {a} : Same(b),
           UNCHANGED <<dir, disk>>, FileHandler(a)'
    PROVE  FileInv'
<1>1. FileFootprint(a) /\ OneName'
  BY DEF FileInv, FileFootprint, OneName
<1> QED BY <1>1, FileStep

\* An answer ends all a handler relied on.
LEMMA AnsweredFiles ==
    ASSUME FileInv, NEW a \in Admins, NEW from, NEW status, NEW i, AnswerWithId(a, from, status, i)
    PROVE  /\ apc[a] = from /\ FileHandler(a)' /\ \A b \in Admins \ {a} : Same(b)
<1>1. StoreTypeOK
  BY DEF FileInv, TypeInv, TypeOK
<1>2. /\ apc[a] = from /\ apc'[a] = "idle" /\ todo'[a] = {}
      /\ Handler(a)' /\ \A b \in Admins \ {a} : Same(b)
  BY <1>1, Answered
<1>3. Stored(a)'
  BY <1>2 DEF Stored
<1> QED BY <1>2, <1>3 DEF Handler, FileHandler

LEMMA RequestKeepsFiles ==
    ASSUME FileInv, TypeInv', Disjoint', NEW a \in Admins, Request(a)
    PROVE  FileInv'
<1>1. PICK first \in {"exists", "delete", "update", "begin"}, S \in SUBSET Versions,
           k \in Contents \cup {Partial} :
        /\ Receive(a, first, S, k)
        /\ first \in {"exists", "delete", "update"} => \E v \in Versions : S = {v}
  <2>1. CASE ReceiveUpload(a)
    BY <2>1 DEF ReceiveUpload
  <2>2. CASE ReceiveDelete(a)
    BY <2>2 DEF ReceiveDelete
  <2>3. CASE ReceiveUpdate(a)
    <3>1. PICK v \in Versions : Receive(a, "update", {v}, Partial)
      BY <2>3 DEF ReceiveUpdate
    <3> QED BY <3>1
  <2>4. CASE ReceiveBatch(a)
    <3>1. PICK S \in SUBSET Versions : Receive(a, "begin", S, Partial)
      BY <2>4 DEF ReceiveBatch
    <3> QED BY <3>1
  <2> QED BY <2>1, <2>2, <2>3, <2>4 DEF Request
<1>2. /\ StoreTypeOK /\ FileHandler(a) /\ apc[a] = "idle" /\ apc'[a] = first /\ todo'[a] = S
      /\ left'[a] = left[a] /\ afd'[a] = afd[a] /\ UNCHANGED <<dir, disk>>
  BY <1>1 DEF Receive, Goto, FileInv, TypeInv, TypeOK, StoreTypeOK, fileVars
<1>3. \A b \in Admins \ {a} : Same(b)
  BY <1>1, <1>2 DEF Receive, Goto, StoreTypeOK, Same
<1>4. FileHandler(a)'
  BY <1>1, <1>2 DEF FileHandler, OneVersion, Writing, Remaining, Stored
<1> QED BY <1>2, <1>3, <1>4, NoFileStep

LEMMA UploadKeepsFiles ==
    ASSUME "flush" \notin Faults, FileInv, TypeInv', Disjoint', NEW a \in Admins, Upload(a)
    PROVE  FileInv'
<1>0. /\ StoreTypeOK /\ FileHandler(a) /\ OneName /\ todo[a] \subseteq Versions
  BY DEF FileInv, TypeInv, TypeOK, StoreTypeOK
<1>1. ASSUME NEW from, NEW status, NEW i, AnswerWithId(a, from, status, i), UNCHANGED <<dir, disk>>
      PROVE  FileInv'
  BY <1>1, AnsweredFiles, NoFileStep
<1>2. ASSUME NEW from \in {"exists", "insert", "errmsg"},
             NEW to \in {"fopen", "rowid", "errmsg", "undo_dup", "undo_other"},
             from = "insert" => to \in {"rowid", "errmsg"},
             from # "insert" => to # "rowid",
             Goto(a, from, to), KeepRequest, UNCHANGED <<dir, disk>>
      PROVE  FileInv'
  <2>1. /\ apc[a] = from /\ apc'[a] = to /\ UNCHANGED <<todo, left, data, afd>>
        /\ \A b \in Admins \ {a} : Same(b)
    BY <1>0, <1>2, Proceeded DEF KeepRequest
  <2>2. FileHandler(a)'
    BY <1>0, <1>2, <2>1 DEF FileHandler, OneVersion, Writing, Remaining, Stored
  <2> QED BY <1>2, <2>1, <2>2, NoFileStep
<1>3. CASE CheckExists(a)
  BY <1>1, <1>2, <1>3 DEF CheckExists, Answer, fileVars
<1>4. CASE OpenFile(a)
  <2>1. PICK v \in todo[a], i \in Inodes :
            /\ IF dir[v] = NoInode THEN i \notin InUse ELSE i = dir[v]
            /\ dir' = [dir EXCEPT ![v] = i]
            /\ disk' = [disk EXCEPT ![i] = Partial]
            /\ afd' = [afd EXCEPT ![a] = i]
    BY <1>4 DEF OpenFile
  <2>2. /\ apc[a] = "fopen" /\ apc'[a] = "fwrite"
        /\ \A b \in Admins \ {a} : apc'[b] = apc[b]
        /\ UNCHANGED <<todo, left, data>>
    BY <1>0, <1>4, Proceeded DEF OpenFile
  <2>3. todo[a] = {v} /\ v \in Versions /\ left[a] = {}
    BY <1>0, <2>1, <2>2 DEF FileHandler, OneVersion, Remaining
  <2>4. \A w \in Versions \ {v} : dir[w] # i
    BY <1>0, <2>1, <2>3, StoreAssumption DEF OneName, InUse, Linked, StoreTypeOK
  <2>5. \A b \in Admins \ {a} : Same(b)
    BY <1>0, <2>1, <2>2 DEF Same, StoreTypeOK
  <2>6. dir'[v] = i /\ disk'[i] = Partial /\ afd'[a] = i /\ i # NoInode
    BY <1>0, <2>1, <2>3, StoreAssumption DEF StoreTypeOK
  <2>7. FileFootprint(a)
    BY <1>0, <2>1, <2>3, <2>4 DEF FileFootprint, StoreTypeOK
  <2>8. OneName'
    BY <1>0, <2>1, <2>3, <2>4, <2>6 DEF OneName, StoreTypeOK
  <2>9. FileHandler(a)'
    BY <2>2, <2>3, <2>6 DEF FileHandler, OneVersion, Writing, Remaining, Stored
  <2> QED BY <2>5, <2>7, <2>8, <2>9, FileStep
<1>5. CASE WriteFile(a)
  <2>1. /\ apc[a] = "fwrite" /\ apc'[a] = "insert"
        /\ \A b \in Admins \ {a} : apc'[b] = apc[b]
        /\ afd' = [afd EXCEPT ![a] = NoInode]
        /\ UNCHANGED <<dir, todo, left, data>>
    BY <1>0, <1>5, Proceeded DEF WriteFile
  <2>2. PICK v \in Versions :
            /\ todo[a] = {v} /\ left[a] = {}
            /\ dir[v] # NoInode /\ afd[a] = dir[v] /\ disk[dir[v]] = Partial
    BY <1>0, <2>1 DEF FileHandler, OneVersion, Writing, Remaining
  <2>3. ASSUME NEW b \in Admins \ {a} PROVE afd[b] # afd[a]
    <3>1. FileHandler(b) /\ todo[b] \subseteq Versions /\ todo[a] \cap todo[b] = {}
      BY DEF FileInv, Disjoint, TypeInv, TypeOK, StoreTypeOK
    <3>2. CASE apc[b] = "fwrite"
      <4>1. PICK w \in Versions : todo[b] = {w} /\ afd[b] = dir[w]
        BY <3>1, <3>2 DEF FileHandler, OneVersion, Writing
      <4> QED BY <1>0, <2>2, <3>1, <4>1 DEF OneName
    <3>3. CASE apc[b] # "fwrite"
      BY <2>2, <3>1, <3>3 DEF FileHandler, Writing
    <3> QED BY <3>2, <3>3
  <2>4. ~ Short(a)
    BY <2>2, <2>3 DEF Short, Disturbed
  <2>5. disk' = [disk EXCEPT ![dir[v]] = data[a]]
    BY <1>5, <2>2, <2>4 DEF WriteFile
  <2>6. dir[v] \in Inodes /\ disk'[dir[v]] = data[a] /\ afd'[a] = NoInode
    BY <1>0, <2>1, <2>2, <2>5 DEF StoreTypeOK
  <2>7. FileFootprint(a)
    BY <1>0, <2>1, <2>2, <2>5 DEF FileFootprint, OneName, StoreTypeOK
  <2>8. OneName'
    BY <1>0, <2>1 DEF OneName
  <2>9. FileHandler(a)'
    BY <2>1, <2>2, <2>6 DEF FileHandler, OneVersion, Writing, Remaining, Stored
  <2>10. \A b \in Admins \ {a} : Same(b)
    BY <1>0, <2>1 DEF Same, StoreTypeOK
  <2> QED BY <2>7, <2>8, <2>9, <2>10, FileStep
<1>6. CASE OpenFileFails(a) \/ WriteFileFails(a)
  BY <1>1, <1>6 DEF OpenFileFails, WriteFileFails, Answer, fileVars
<1>7. CASE Insert(a)
  BY <1>2, <1>7 DEF Insert, fileVars
<1>8. CASE AnswerUpload(a)
  BY <1>1, <1>8 DEF AnswerUpload, fileVars
<1>9. CASE ReadError(a)
  BY <1>2, <1>9 DEF ReadError, fileVars
<1>10. CASE UndoUpload(a)
  <2>1. PICK from \in {"undo_dup", "undo_other"}, status \in {409, 500} :
            AnswerWithId(a, from, status, 0)
    BY <1>10 DEF UndoUpload, Answer
  <2>2. FileHandler(a)' /\ \A b \in Admins \ {a} : Same(b)
    BY <2>1, AnsweredFiles
  <2>3. PICK v \in todo[a] : RemoveFile(v)
    BY <1>10 DEF UndoUpload
  <2>4. FileFootprint(a) /\ OneName'
    BY <1>0, <2>3 DEF RemoveFile, Unlink, fileVars, FileFootprint, OneName, StoreTypeOK
  <2> QED BY <2>2, <2>4, FileStep
<1> QED BY <1>3, <1>4, <1>5, <1>6, <1>7, <1>8, <1>9, <1>10 DEF Upload

LEMMA SingleVersionKeepsFiles ==
    ASSUME FileInv, TypeInv', Disjoint', NEW a \in Admins, SingleVersion(a) \/ UnlinkOne(a)
    PROVE  FileInv'
<1>0. /\ StoreTypeOK /\ FileHandler(a) /\ OneName /\ todo[a] \subseteq Versions
  BY DEF FileInv, TypeInv, TypeOK, StoreTypeOK
<1>1. ASSUME NEW from, NEW status, NEW i, AnswerWithId(a, from, status, i), UNCHANGED <<dir, disk>>
      PROVE  FileInv'
  BY <1>1, AnsweredFiles, NoFileStep
<1>2. ASSUME NEW from \in {"delete", "changed", "update"}, NEW to \in {"changed", "unlink", "matched"},
             to = "changed" => from = "delete",
             Goto(a, from, to), KeepRequest, UNCHANGED <<dir, disk>>
      PROVE  FileInv'
  <2>1. /\ apc[a] = from /\ apc'[a] = to /\ UNCHANGED <<todo, left, data, afd>>
        /\ \A b \in Admins \ {a} : Same(b)
    BY <1>0, <1>2, Proceeded DEF KeepRequest
  <2>2. FileHandler(a)'
    BY <1>0, <1>2, <2>1 DEF FileHandler, OneVersion, Writing, Remaining, Stored
  <2> QED BY <1>2, <2>1, <2>2, NoFileStep
<1>3. CASE Delete(a)
  BY <1>1, <1>2, <1>3 DEF Delete, Answer, fileVars
<1>4. CASE ReadChanges(a)
  BY <1>1, <1>2, <1>4 DEF ReadChanges, Answer, fileVars
<1>5. CASE Update(a)
  BY <1>1, <1>2, <1>5 DEF Update, Answer, fileVars
<1>6. CASE AnswerUpdate(a)
  BY <1>1, <1>6 DEF AnswerUpdate, Answer, fileVars
<1>7. CASE UnlinkOne(a)
  <2>1. PICK v \in todo[a] :
            /\ RemoveFile(v)
            /\ \/ AnswerWithId(a, "unlink", 200, 0)
               \/ /\ apc[a] = "unlink"
                  /\ todo' = [todo EXCEPT ![a] = @ \ {v}]
                  /\ UNCHANGED <<apc, left, data, afd, reply>>
    BY <1>7 DEF UnlinkOne, Answer
  <2>2. FileFootprint(a) /\ OneName'
    BY <1>0, <2>1 DEF RemoveFile, Unlink, fileVars, FileFootprint, OneName, StoreTypeOK
  <2>3. CASE AnswerWithId(a, "unlink", 200, 0)
    BY <2>2, <2>3, AnsweredFiles, FileStep
  <2>4. CASE /\ apc[a] = "unlink"
             /\ todo' = [todo EXCEPT ![a] = @ \ {v}]
             /\ UNCHANGED <<apc, left, data, afd, reply>>
    <3>1. \A b \in Admins \ {a} : Same(b)
      BY <1>0, <2>4 DEF Same, StoreTypeOK
    <3>2. FileHandler(a)'
      BY <1>0, <2>4 DEF FileHandler, OneVersion, Writing, Remaining, Stored
    <3> QED BY <2>2, <3>1, <3>2, FileStep
  <2> QED BY <2>1, <2>3, <2>4
<1> QED BY <1>3, <1>4, <1>5, <1>6, <1>7 DEF SingleVersion

LEMMA BatchKeepsFiles ==
    ASSUME FileInv, TypeInv', Disjoint', NEW a \in Admins, Batch(a)
    PROVE  FileInv'
<1>0. StoreTypeOK /\ FileHandler(a) /\ UNCHANGED <<dir, disk>>
  BY DEF FileInv, TypeInv, TypeOK, Batch, BeginBatch, DeleteEach, CommitBatch, RollbackBatch, fileVars
<1>1. CASE \E from, status : AnswerWithId(a, from, status, 0)
  BY <1>0, <1>1, AnsweredFiles, NoFileStep
<1>2. CASE /\ apc[a] \in {"begin", "each", "commit"}
           /\ \E to \in {"each", "commit", "rollback", "unlink"} : Goto(a, apc[a], to)
           /\ \E S \in SUBSET Versions :
                /\ left' = [left EXCEPT ![a] = S] /\ S \subseteq todo[a]
                /\ apc'[a] \in {"commit", "unlink"} => S = {}
           /\ UNCHANGED <<todo, data, afd>>
  <2>1. \A b \in Admins \ {a} : Same(b)
    BY <1>0, <1>2 DEF Goto, Same, StoreTypeOK
  <2>2. apc'[a] \in {"each", "commit", "rollback", "unlink"}
    BY <1>0, <1>2 DEF Goto, StoreTypeOK
  <2>3. /\ left'[a] \subseteq todo'[a] /\ afd'[a] = NoInode
        /\ apc'[a] \in {"commit", "unlink"} => left'[a] = {}
    BY <1>0, <1>2 DEF FileHandler, Writing, StoreTypeOK
  <2>4. FileHandler(a)'
    BY <2>2, <2>3 DEF FileHandler, OneVersion, Writing, Remaining, Stored
  <2> QED BY <1>0, <2>1, <2>4, NoFileStep
<1> DEFINE Moves == /\ apc[a] \in {"begin", "each", "commit"}
                    /\ \E to \in {"each", "commit", "rollback", "unlink"} : Goto(a, apc[a], to)
                    /\ \E S \in SUBSET Versions :
                        /\ left' = [left EXCEPT ![a] = S] /\ S \subseteq todo[a]
                        /\ apc'[a] \in {"commit", "unlink"} => S = {}
                    /\ UNCHANGED <<todo, data, afd>>
<1>3. CASE BeginBatch(a)
  <2>1. todo[a] \in SUBSET Versions
    BY <1>0 DEF StoreTypeOK
  <2>2. CASE /\ Goto(a, "begin", "each") /\ left' = [left EXCEPT ![a] = todo[a]]
             /\ UNCHANGED <<todo, data, afd, reply>>
    <3>1. apc[a] = "begin" /\ apc'[a] = "each"
      BY <1>0, <2>2 DEF Goto, StoreTypeOK
    <3>2. Moves
      BY <2>1, <2>2, <3>1
    <3> QED BY <1>2, <3>2
  <2> QED BY <1>1, <1>3, <2>2 DEF BeginBatch, Answer
<1>4. CASE DeleteEach(a)
  <2>1. apc[a] = "each" /\ left[a] \subseteq todo[a] /\ todo[a] \in SUBSET Versions
        /\ left \in [Admins -> SUBSET Versions]
    BY <1>0, <1>4 DEF DeleteEach, Goto, FileHandler, Remaining, StoreTypeOK
  <2>2. PICK v \in left[a] :
            \/ /\ left' = [left EXCEPT ![a] = @ \ {v}]
               /\ Goto(a, "each", IF left[a] = {v} THEN "commit" ELSE "each")
            \/ Goto(a, "each", "rollback") /\ UNCHANGED left
    BY <1>4 DEF DeleteEach
  <2>3. CASE /\ left' = [left EXCEPT ![a] = @ \ {v}]
             /\ Goto(a, "each", IF left[a] = {v} THEN "commit" ELSE "each")
    <3>1. apc'[a] = IF left[a] = {v} THEN "commit" ELSE "each"
      BY <1>0, <2>3 DEF Goto, StoreTypeOK
    <3>2. left' = [left EXCEPT ![a] = left[a] \ {v}]
      BY <2>1, <2>3
    <3>3. left[a] \ {v} \in SUBSET Versions /\ left[a] \ {v} \subseteq todo[a]
      BY <2>1
    <3>4. apc'[a] \in {"commit", "unlink"} => left[a] \ {v} = {}
      BY <3>1
    <3>5. UNCHANGED <<todo, data, afd>> /\ apc[a] \in {"begin", "each", "commit"}
      BY <1>4, <2>1 DEF DeleteEach
    <3>6. Goto(a, apc[a], IF left[a] = {v} THEN "commit" ELSE "each")
      BY <2>1, <2>3
    <3>7. Moves
      BY <3>2, <3>3, <3>4, <3>5, <3>6
    <3> QED BY <1>2, <3>7
  <2>4. CASE Goto(a, "each", "rollback") /\ UNCHANGED left
    <3>1. apc'[a] = "rollback"
      BY <1>0, <2>4 DEF Goto, StoreTypeOK
    <3>2. left' = [left EXCEPT ![a] = left[a]]
      BY <2>1, <2>4
    <3>3. Moves
      BY <1>4, <2>1, <2>4, <3>1, <3>2 DEF DeleteEach
    <3> QED BY <1>2, <3>3
  <2> QED BY <2>2, <2>3, <2>4
<1>5. CASE CommitBatch(a)
  <2>1. PICK to \in {"unlink", "rollback"} : Goto(a, "commit", to)
    BY <1>5 DEF CommitBatch
  <2>2. apc[a] = "commit" /\ left[a] = {} /\ left \in [Admins -> SUBSET Versions]
    BY <1>0, <2>1 DEF Goto, FileHandler, Remaining, StoreTypeOK
  <2>3. left' = [left EXCEPT ![a] = {}] /\ UNCHANGED <<todo, data, afd>>
    BY <1>5, <2>2 DEF CommitBatch, KeepRequest
  <2>4. Moves
    BY <2>1, <2>2, <2>3
  <2> QED BY <1>2, <2>4
<1>6. CASE RollbackBatch(a)
  BY <1>1, <1>6 DEF RollbackBatch, Answer
<1> QED BY <1>3, <1>4, <1>5, <1>6 DEF Batch

LEMMA FilesInvStep ==
    ASSUME "flush" \notin Faults, FileInv, [Next /\ Disjoint']_vars
    PROVE  FileInv'
<1>1. TypeInv'
  BY TypeStep DEF FileInv
<1>2. ASSUME UNCHANGED <<fileVars, adminVars>> PROVE FileInv'
  BY <1>1, <1>2 DEF FileInv, fileVars, adminVars, Disjoint, OneName,
     FileHandler, OneVersion, Writing, Remaining, Stored
<1>3. ASSUME NEW c \in Clients, Download(c) PROVE UNCHANGED <<fileVars, adminVars>>
  BY <1>3 DEF Download, Lookup, OpenPackage, PackageMissing, StreamDone, StreamCut, Count, Log
<1>4. CASE Crash
  <2>1. \A a \in Admins : /\ apc'[a] = "idle" /\ todo'[a] = {} /\ left'[a] = {}
                          /\ afd'[a] = NoInode
    BY <1>4 DEF Crash
  <2>2. OneName' /\ Disjoint'
    BY <1>4, <2>1 DEF Crash, fileVars, FileInv, OneName, Disjoint
  <2>3. \A a \in Admins : FileHandler(a)'
    BY <2>1 DEF FileHandler, OneVersion, Writing, Remaining, Stored
  <2> QED BY <1>1, <2>2, <2>3 DEF FileInv
<1>5. ASSUME Disjoint', NEW a \in Admins, Request(a) \/ Serve(a) PROVE FileInv'
  BY <1>1, <1>5, RequestKeepsFiles, UploadKeepsFiles, SingleVersionKeepsFiles, BatchKeepsFiles
  DEF Serve
<1> QED BY <1>2, <1>3, <1>4, <1>5 DEF Next, ReadOnly, vars

LEMMA FilesInit == Init => FileInv
<1> SUFFICES ASSUME Init PROVE FileInv
  OBVIOUS
<1>1. OneName /\ Disjoint /\ \A a \in Admins : FileHandler(a)
  BY DEF Init, NoRequests, OneName, Disjoint, FileHandler, OneVersion, Writing, Remaining, Stored
<1> QED BY <1>1, TypeInit DEF FileInv

-----------------------------------------------------------------------------
(* Uploads.                                                                *)

\* The row of an upload that reads its id is the one it inserted.
RowInserted(a) ==
    apc[a] = "rowid" => \A v \in todo[a] : rows[v] # NoRow /\ rows[v].sha = data[a]

\* Only the INSERT of its own upload brings a handler to the point where it
\* reads the id, and only there it answers 201.
LEMMA UploadProgress ==
    ASSUME StoreTypeOK, [Next]_vars, NEW a \in Admins
    PROVE  /\ apc'[a] = "rowid" =>
                 /\ todo'[a] = todo[a] /\ data'[a] = data[a]
                 /\ apc[a] = "rowid" \/ (apc[a] = "insert"
                                            /\ \E v \in todo[a] : InsertVersion(v, data[a]))
           /\ reply[a] = NoReply /\ reply'[a].status = 201 => apc[a] = "rowid"
<1> DEFINE Goal == /\ apc'[a] = "rowid" =>
                         /\ todo'[a] = todo[a] /\ data'[a] = data[a]
                         /\ apc[a] = "rowid" \/ (apc[a] = "insert"
                                            /\ \E v \in todo[a] : InsertVersion(v, data[a]))
                   /\ reply[a] = NoReply /\ reply'[a].status = 201 => apc[a] = "rowid"
<1>1. apc \in [Admins -> AdminPc] /\ todo \in [Admins -> SUBSET Versions]
      /\ data \in [Admins -> Contents \cup {Partial}]
      /\ reply \in [Admins -> [status : {0, 200, 201, 404, 409, 500}, id : Nat]]
  BY DEF StoreTypeOK
<1>2. ASSUME UNCHANGED adminVars PROVE Goal
  BY <1>2 DEF adminVars, NoReply
<1>3. ASSUME NEW b \in Admins, Request(b) PROVE Goal
  BY <1>1, <1>3 DEF Request, ReceiveUpload, ReceiveDelete, ReceiveUpdate, ReceiveBatch, Receive, Goto, NoReply
<1>4. ASSUME NEW b \in Admins, CheckExists(b) \/ OpenFile(b) \/ OpenFileFails(b)
                                \/ WriteFile(b) \/ WriteFileFails(b) PROVE Goal
  BY <1>1, <1>4 DEF CheckExists, OpenFile, OpenFileFails, WriteFile, WriteFileFails, KeepRequest,
     Answer, AnswerWithId, Goto, NoReply
<1>5. ASSUME NEW b \in Admins, Insert(b) PROVE Goal
  BY <1>1, <1>5 DEF Insert, KeepRequest, Goto, NoReply
<1>6. ASSUME NEW b \in Admins, AnswerUpload(b) \/ ReadError(b) \/ UndoUpload(b) PROVE Goal
  BY <1>1, <1>6 DEF AnswerUpload, ReadError, UndoUpload, KeepRequest, Answer, AnswerWithId, Goto, NoReply
<1>7. ASSUME NEW b \in Admins, SingleVersion(b) \/ UnlinkOne(b) PROVE Goal
  BY <1>1, <1>7 DEF SingleVersion, Delete, ReadChanges, Update, AnswerUpdate, UnlinkOne, KeepRequest,
     Answer, AnswerWithId, Goto, NoReply
<1>8. ASSUME NEW b \in Admins, Batch(b) PROVE Goal
  BY <1>1, <1>8 DEF Batch, BeginBatch, DeleteEach, CommitBatch, RollbackBatch, KeepRequest,
     Answer, AnswerWithId, Goto, NoReply
<1>9. ASSUME NEW c \in Clients, Download(c) PROVE Goal
  BY <1>2, <1>9 DEF Download, Lookup, OpenPackage, PackageMissing, StreamDone, StreamCut, Count, Log
<1>10. ASSUME Crash PROVE Goal
  BY <1>10 DEF Crash, NoReply
<1> HIDE DEF Goal
<1>11. ASSUME NEW b \in Admins, Upload(b) PROVE Goal
  BY <1>4, <1>5, <1>6, <1>11 DEF Upload
<1>12. ASSUME ReadOnly \/ UNCHANGED vars PROVE Goal
  <2>1. UNCHANGED adminVars
    BY <1>12 DEF ReadOnly, vars, adminVars
  <2> QED BY <1>2, <2>1
<1>13. Goal
  BY <1>3, <1>7, <1>8, <1>9, <1>10, <1>11, <1>12 DEF Next, Serve
<1> QED BY <1>13 DEF Goal

LEMMA InsertedStep ==
    ASSUME Solo \/ NothingFails, TxInv, FileInv, [Next]_vars, NEW a \in Admins, RowInserted(a)
    PROVE  RowInserted(a)'
<1>1. TypeInv /\ StoreTypeOK /\ OneVersion(a)
  BY DEF FileInv, TypeInv, TypeOK, FileHandler
<1> SUFFICES ASSUME apc'[a] = "rowid", NEW v \in todo'[a]
             PROVE  rows'[v] # NoRow /\ rows'[v].sha = data'[a]
  BY DEF RowInserted
<1>2. todo'[a] = todo[a] /\ data'[a] = data[a] /\ v \in Versions
  BY <1>1, UploadProgress DEF StoreTypeOK
<1>3. CASE apc[a] = "insert" /\ \E w \in todo[a] : InsertVersion(w, data[a])
  <2>1. InsertVersion(v, data[a])
    BY <1>1, <1>2, <1>3 DEF OneVersion
  <2>2. rows'[v] = NewRow(nextId, data[a])
    BY <1>1, <1>2, <2>1, InsertAdds
  <2>3. nextId \in Nat /\ data[a] \in Contents
    BY <1>1, <1>3 DEF TypeInv, TypeOK, DbTypeOK, Carrying
  <2>4. NewRow(nextId, data[a]) \in Row
    BY <2>3 DEF NewRow, Row
  <2> QED BY <1>2, <2>2, <2>4, SentinelAssumption DEF NewRow
<1>4. CASE apc[a] = "rowid"
  <2>1. rows[v] # NoRow /\ rows[v].sha = data[a]
    BY <1>2, <1>4 DEF RowInserted
  <2>2. CASE rows' = rows
    BY <1>2, <2>1, <2>2
  <2>3. ASSUME NEW b \in Admins, NEW w \in todo[b], InsertVersion(w, data[b])
        PROVE  rows'[v] = rows[v]
    <3>1. w \in Versions
      BY <1>1 DEF StoreTypeOK
    <3>2. rows[w] = NoRow /\ \A u \in Versions \ {w} : rows'[u] = rows[u]
      BY <1>1, <2>3, <3>1, InsertAdds
    <3> QED BY <1>2, <2>1, <3>2
  <2>4. ASSUME NEW w \in Versions, Asked(w), DeleteVersion(w) PROVE rows'[v] = rows[v]
    <3>1. PICK b \in Admins : apc[b] \in {"delete", "each"} /\ w \in todo[b] \cup left[b]
      BY <2>4 DEF Asked
    <3>2. w \in todo[b] /\ b # a
      BY <1>4, <3>1 DEF FileInv, FileHandler, Remaining
    <3>3. w # v
      BY <1>2, <3>2 DEF FileInv, Disjoint
    <3> QED BY <1>1, <1>2, <2>4, <3>3, DeleteTakes
  <2>5. ASSUME NEW c \in Clients, IncrementCount(rid[c]) \/ LogDownload(rid[c])
        PROVE  rows'[v] # NoRow /\ rows'[v].sha = data[a]
    BY <1>1, <1>2, <2>1, <2>5, StatisticsKeepRows
  <2>6. ASSUME Solo, saved # NoTx PROVE FALSE
    BY <1>4, <2>6 DEF TxInv, TransactionHasOwner, Solo, InBatch
  <2>7. ~Crash
    BY DEF Crash
  <2> QED BY <1>2, <2>1, <2>2, <2>3, <2>4, <2>5, <2>6, <2>7, RowSteps DEF RowStep
<1> QED BY <1>1, <1>3, <1>4, UploadProgress

\* At the moment an upload is answered 201, its row and its file are there with
\* what was uploaded (admin_api.cpp:263-300), for any number of administrators
\* that work on different versions and any downloads, whatever SELECTs and file
\* operations fail and wherever the server dies, as long as no flush fails: that
\* one is not noticed (admin_api.cpp:37).  With one administrator also when
\* statements fail and sqlite rolls back.  With several, the ROLLBACK of a batch
\* would undo the row that another has inserted meanwhile.
THEOREM UploadsAreStored ==
    ASSUME "flush" \notin Faults, Solo \/ "statement" \notin Faults
    PROVE  DisjointSpec => StoredWhenAcknowledged
<1> DEFINE Inserted == \A a \in Admins : RowInserted(a)
<1>1. Init => Inserted
  BY DEF Init, NoRequests, RowInserted
<1>2. FileInv /\ [Next /\ Disjoint']_vars => FileInv'
  BY FilesInvStep
<1>3. TxInv /\ FileInv /\ Inserted /\ [Next /\ Disjoint']_vars => Inserted'
  BY InsertedStep DEF NothingFails
<1>4. FileInv /\ Inserted /\ [Next /\ Disjoint']_vars =>
        [\A a \in Admins : reply[a] = NoReply /\ reply'[a].status = 201 =>
            \A v \in todo[a] : /\ rows[v] # NoRow /\ rows[v].sha = data[a]
                               /\ Backed(v, rows[v])]_vars
  <2> SUFFICES ASSUME FileInv, Inserted, [Next]_vars, NEW a \in Admins,
                      reply[a] = NoReply, reply'[a].status = 201, NEW v \in todo[a]
               PROVE  rows[v] # NoRow /\ rows[v].sha = data[a] /\ Backed(v, rows[v])
    OBVIOUS
  <2>1. StoreTypeOK /\ Stored(a)
    BY DEF FileInv, FileHandler, TypeInv, TypeOK
  <2>2. apc[a] = "rowid" /\ rows[v] # NoRow /\ rows[v].sha = data[a]
    BY <2>1, UploadProgress DEF RowInserted
  <2> QED BY <2>1, <2>2 DEF Stored, Backed
<1> HIDE DEF Inserted
<1>5. TxInv /\ [Next /\ Disjoint']_vars => TxInv'
  BY TxStep
<1> QED BY <1>1, <1>2, <1>3, <1>4, <1>5, FilesInit, TxInit, PTL DEF DisjointSpec, StoredWhenAcknowledged

-----------------------------------------------------------------------------
(* Statistics.                                                             *)

Logging(id) == {c \in Clients : cpc[c] = "log" /\ rid[c] = id}

\* Only counting brings a download to the point where it is logged.
LEMMA LoggingStep ==
    ASSUME StoreTypeOK, [Next]_vars, NEW c \in Clients, cpc'[c] = "log"
    PROVE  rid'[c] = rid[c] /\ (cpc[c] = "log" \/ Count(c))
<1>1. ASSUME UNCHANGED clientVars PROVE cpc[c] = "log" /\ rid'[c] = rid[c]
  BY <1>1 DEF clientVars
<1>2. ASSUME NEW a \in Admins, Request(a) \/ Serve(a) PROVE UNCHANGED clientVars
  BY <1>2 DEF Request, ReceiveUpload, ReceiveDelete, ReceiveUpdate, ReceiveBatch, Receive, Serve,
     Upload, CheckExists, OpenFile, OpenFileFails, WriteFile, WriteFileFails, Insert, AnswerUpload,
     ReadError, UndoUpload, SingleVersion, Delete, ReadChanges, Update, AnswerUpdate,
     Batch, BeginBatch, DeleteEach, CommitBatch, RollbackBatch, UnlinkOne
<1>3. ASSUME NEW d \in Clients, Download(d) PROVE rid'[c] = rid[c] /\ (cpc[c] = "log" \/ Count(c))
  <2>0. cpc \in [Clients -> ClientPc] /\ rid \in [Clients -> Nat]
    BY DEF StoreTypeOK
  <2>1. CASE Count(d)
    BY <2>0, <2>1 DEF Count
  <2>2. CASE Lookup(d)
    BY <2>0, <2>2 DEF Lookup
  <2>3. CASE OpenPackage(d) \/ PackageMissing(d)
    BY <2>0, <2>3 DEF OpenPackage, PackageMissing, DownloadEnds
  <2>4. CASE StreamDone(d) \/ StreamCut(d)
    BY <2>0, <2>4 DEF StreamDone, StreamCut, DownloadEnds
  <2>5. CASE Log(d)
    BY <2>0, <2>5 DEF Log, DownloadEnds
  <2> QED BY <1>3, <2>1, <2>2, <2>3, <2>4, <2>5 DEF Download
<1>4. CASE Crash
  BY <1>4 DEF Crash
<1> QED BY <1>1, <1>2, <1>3, <1>4 DEF Next, ReadOnly, vars

\* What the two statements of the statistics do to a row.
LEMMA StatisticsOf ==
    ASSUME TypeInv, NEW c \in Clients, NEW v \in Versions, rows[v] # NoRow
    PROVE  /\ IncrementCount(rid[c]) =>
                 /\ rows'[v].logs = rows[v].logs
                 /\ rows'[v].count = rows[v].count + IF rows[v].id = rid[c] THEN 1 ELSE 0
           /\ LogDownload(rid[c]) =>
                 /\ rows'[v].count = rows[v].count
                 /\ rows'[v].logs = rows[v].logs + IF rows[v].id = rid[c] THEN 1 ELSE 0
<1>1. rows[v] \in Row
  BY DEF TypeInv, TypeOK, DbTypeOK, Tables
<1>2. /\ [rows[v] EXCEPT !.count = @ + 1].count = rows[v].count + 1
      /\ [rows[v] EXCEPT !.count = @ + 1].logs = rows[v].logs
      /\ [rows[v] EXCEPT !.logs = @ + 1].logs = rows[v].logs + 1
      /\ [rows[v] EXCEPT !.logs = @ + 1].count = rows[v].count
      /\ rows[v].count \in Nat /\ rows[v].logs \in Nat
  BY <1>1 DEF Row
<1>3. ASSUME IncrementCount(rid[c])
      PROVE  rows'[v] = IF rows[v].id = rid[c] THEN [rows[v] EXCEPT !.count = @ + 1] ELSE rows[v]
  BY <1>3 DEF IncrementCount, HasId
<1>4. ASSUME LogDownload(rid[c])
      PROVE  rows'[v] = IF rows[v].id = rid[c] THEN [rows[v] EXCEPT !.logs = @ + 1] ELSE rows[v]
  BY <1>4 DEF LogDownload, HasId
<1>5. ASSUME IncrementCount(rid[c])
      PROVE  /\ rows'[v].logs = rows[v].logs
             /\ rows'[v].count = rows[v].count + IF rows[v].id = rid[c] THEN 1 ELSE 0
  <2>1. CASE rows[v].id = rid[c]
    BY <1>2, <1>3, <1>5, <2>1
  <2>2. CASE rows[v].id # rid[c]
    BY <1>2, <1>3, <1>5, <2>2
  <2> QED BY <2>1, <2>2
<1>6. ASSUME LogDownload(rid[c])
      PROVE  /\ rows'[v].count = rows[v].count
             /\ rows'[v].logs = rows[v].logs + IF rows[v].id = rid[c] THEN 1 ELSE 0
  <2>1. CASE rows[v].id = rid[c]
    BY <1>2, <1>4, <1>6, <2>1
  <2>2. CASE rows[v].id # rid[c]
    BY <1>2, <1>4, <1>6, <2>2
  <2> QED BY <2>1, <2>2
<1> QED BY <1>5, <1>6

LEMMA LoggingSubset ==
    ASSUME IsFiniteSet(Clients), NEW S, NEW T, S \subseteq T, T \subseteq Clients
    PROVE  Cardinality(S) \in Nat /\ Cardinality(T) \in Nat /\ Cardinality(S) <= Cardinality(T)
BY FS_Subset, FS_CardinalityType

LEMMA CountStep ==
    ASSUME IsFiniteSet(Clients), NothingFails, TxInv, IdInv, CountCoversLogs, [Next]_vars, ~Crash
    PROVE  CountCoversLogs'
<1>1. TypeInv /\ StoreTypeOK /\ nextId \in Nat /\ rid \in [Clients -> Nat]
  BY DEF TxInv, TypeInv, TypeOK, DbTypeOK, StoreTypeOK
<1>2. ASSUME NEW v \in Versions, rows[v] # NoRow
      PROVE  /\ rows[v].id \in Nat /\ rows[v].count \in Nat /\ rows[v].logs \in Nat
             /\ rows[v].count >= rows[v].logs + Cardinality(Logging(rows[v].id))
  BY <1>1, <1>2 DEF TypeInv, TypeOK, DbTypeOK, Tables, Row, CountCoversLogs, Logging
<1> SUFFICES ASSUME NEW v \in Versions, rows'[v] # NoRow
             PROVE  rows'[v].count >= rows'[v].logs + Cardinality(Logging(rows[v].id)')
  BY DEF CountCoversLogs, Logging
<1> DEFINE Before(id) == Logging(id)
           After(id) == {c \in Clients : cpc'[c] = "log" /\ rid'[c] = id}
<1>3. ASSUME NEW id, NEW c \in Clients, c \in After(id), ~Count(c) PROVE c \in Before(id)
  BY <1>1, <1>3, LoggingStep DEF Logging
<1>4. ASSUME NEW id, \A c \in Clients : ~Count(c)
      PROVE  Cardinality(After(id)) \in Nat /\ Cardinality(Before(id)) \in Nat
             /\ Cardinality(After(id)) <= Cardinality(Before(id))
  <2>1. After(id) \subseteq Before(id) /\ Before(id) \subseteq Clients
    BY <1>3, <1>4 DEF Logging
  <2> QED BY <2>1, LoggingSubset
<1>5. ASSUME \A c \in Clients : ~Count(c), rows'[v] = rows[v]
      PROVE  rows'[v].count >= rows'[v].logs + Cardinality(After(rows'[v].id))
  BY <1>2, <1>4, <1>5
<1>6. ASSUME NEW c \in Clients, Count(c), IncrementCount(rid[c])
      PROVE  rows'[v].count >= rows'[v].logs + Cardinality(After(rows'[v].id))
  <2>1. rows[v] # NoRow /\ rows'[v].id = rows[v].id
    BY <1>1, <1>6, StatisticsKeepRows
  <2>2. /\ cpc[c] = "count"
        /\ \A d \in Clients \ {c} : ~Count(d)
        /\ rid'[c] = rid[c]
    <3>1. \A d \in Clients : Count(d) => cpc[d] = "count" /\ cpc'[d] = "log" /\ rid' = rid
                                         /\ \A e \in Clients \ {d} : cpc'[e] = cpc[e]
      BY <1>1 DEF Count, StoreTypeOK
    <3> QED BY <1>6, <3>1
  <2>3. Cardinality(Before(rows[v].id)) \in Nat /\ IsFiniteSet(Before(rows[v].id))
    BY FS_Subset, FS_CardinalityType DEF Logging
  <2>4. c \notin Before(rows[v].id)
    BY <2>2 DEF Logging
  <2>5. CASE rows[v].id = rid[c]
    <3>1. Cardinality(Before(rows[v].id) \cup {c}) = Cardinality(Before(rows[v].id)) + 1
      BY <2>3, <2>4, FS_AddElement
    <3>2. After(rows[v].id) \subseteq Before(rows[v].id) \cup {c}
          /\ Before(rows[v].id) \cup {c} \subseteq Clients
      BY <1>3, <2>2 DEF Logging
    <3>3. Cardinality(After(rows[v].id)) \in Nat
          /\ Cardinality(After(rows[v].id)) <= Cardinality(Before(rows[v].id)) + 1
      BY <3>1, <3>2, LoggingSubset
    <3>4. rows'[v].count = rows[v].count + 1 /\ rows'[v].logs = rows[v].logs
      BY <1>1, <1>6, <2>1, <2>5, StatisticsOf
    <3> QED BY <1>2, <2>1, <2>3, <3>3, <3>4
  <2>6. CASE rows[v].id # rid[c]
    <3>1. After(rows[v].id) \subseteq Before(rows[v].id) /\ Before(rows[v].id) \subseteq Clients
      BY <1>3, <2>2, <2>6 DEF Logging
    <3>2. Cardinality(After(rows[v].id)) \in Nat
          /\ Cardinality(After(rows[v].id)) <= Cardinality(Before(rows[v].id))
      BY <3>1, LoggingSubset
    <3>3. rows'[v].count = rows[v].count /\ rows'[v].logs = rows[v].logs
      BY <1>1, <1>2, <1>6, <2>1, <2>6, StatisticsOf
    <3> QED BY <1>2, <2>1, <2>3, <3>2, <3>3
  <2> QED BY <2>5, <2>6
<1>7. ASSUME NEW c \in Clients, Log(c), LogDownload(rid[c])
      PROVE  rows'[v].count >= rows'[v].logs + Cardinality(After(rows'[v].id))
  <2>1. rows[v] # NoRow /\ rows'[v].id = rows[v].id
    BY <1>1, <1>7, StatisticsKeepRows
  <2>2. cpc[c] = "log" /\ cpc'[c] = "idle" /\ \A d \in Clients : ~Count(d)
    <3>1. \A d \in Clients : Count(d) => cpc[d] = "count" /\ cpc'[d] = "log"
                                         /\ \A e \in Clients \ {d} : cpc'[e] = cpc[e]
      BY <1>1 DEF Count, StoreTypeOK
    <3>2. cpc[c] = "log" /\ cpc'[c] = "idle"
      BY <1>1, <1>7 DEF Log, DownloadEnds, StoreTypeOK
    <3> QED BY <3>1, <3>2
  <2>3. Cardinality(Before(rows[v].id)) \in Nat /\ IsFiniteSet(Before(rows[v].id))
    BY FS_Subset, FS_CardinalityType DEF Logging
  <2>4. CASE rows[v].id = rid[c]
    <3>1. c \in Before(rows[v].id)
      BY <2>2, <2>4 DEF Logging
    <3>2. Cardinality(Before(rows[v].id) \ {c}) = Cardinality(Before(rows[v].id)) - 1
      BY <2>3, <3>1, FS_RemoveElement
    <3>3. After(rows[v].id) \subseteq Before(rows[v].id) \ {c}
          /\ Before(rows[v].id) \ {c} \subseteq Clients
      BY <1>3, <2>2 DEF Logging
    <3>4. Cardinality(After(rows[v].id)) \in Nat
          /\ Cardinality(After(rows[v].id)) <= Cardinality(Before(rows[v].id)) - 1
      BY <3>2, <3>3, LoggingSubset
    <3>5. rows'[v].logs = rows[v].logs + 1 /\ rows'[v].count = rows[v].count
      BY <1>1, <1>7, <2>1, <2>4, StatisticsOf
    <3> QED BY <1>2, <2>1, <2>3, <3>4, <3>5
  <2>5. CASE rows[v].id # rid[c]
    <3>1. rows'[v].count = rows[v].count /\ rows'[v].logs = rows[v].logs
      BY <1>1, <1>2, <1>7, <2>1, <2>5, StatisticsOf
    <3> QED BY <1>2, <1>4, <2>1, <2>2, <3>1
  <2> QED BY <2>4, <2>5
<1>8. ASSUME NEW c \in Clients, Count(c) PROVE IncrementCount(rid[c])
  BY <1>8 DEF Count, NothingFails, StatementFails
<1> DEFINE Enough == rows'[v].count >= rows'[v].logs + Cardinality(After(rows'[v].id))
<1> HIDE DEF After
<1>9. ASSUME \A c \in Clients : ~Count(c) PROVE Enough
  <2>1. ASSUME rows' = rows PROVE Enough
    BY <1>5, <1>9, <2>1
  <2>2. ASSUME NEW a \in Admins, NEW w \in todo[a], InsertVersion(w, data[a])
        PROVE  Enough
    <3>1. w \in Versions
      BY <1>1 DEF StoreTypeOK
    <3>2. rows'[w] = NewRow(nextId, data[a]) /\ \A u \in Versions \ {w} : rows'[u] = rows[u]
      BY <1>1, <2>2, <3>1, InsertAdds
    <3>3. Before(nextId) = {}
      BY <1>1 DEF IdInv, Logging
    <3>4. Cardinality(After(nextId)) = 0
      BY <1>4, <1>9, <3>3, FS_EmptySet
    <3>5. /\ rows'[w].id = nextId /\ rows'[w].count = 0 /\ rows'[w].logs = 0
      BY <3>2 DEF NewRow
    <3> QED BY <1>5, <1>9, <3>2, <3>4, <3>5
  <2>3. ASSUME NEW w \in Versions, DeleteVersion(w) PROVE rows'[v] = rows[v]
    BY <1>1, <2>3, DeleteTakes
  <2>4. ASSUME rows'[v] = rows[v] PROVE Enough
    BY <1>5, <1>9, <2>4
  <2>5. ASSUME NEW c \in Clients, Log(c), LogDownload(rid[c]) PROVE Enough
    BY <1>7, <2>5
  <2> HIDE DEF Enough
  <2> QED BY <1>9, <2>1, <2>2, <2>3, <2>4, <2>5, RowSteps DEF RowStep
<1>10. Enough
  <2>1. ASSUME NEW c \in Clients, Count(c) PROVE Enough
    BY <1>6, <1>8, <2>1
  <2> HIDE DEF Enough
  <2> QED BY <1>9, <2>1
<1> QED BY <1>10 DEF Logging, After

\* The rows an open transaction would bring back are counted as well.
SavedCovered ==
    saved # NoTx => \A v \in Versions : saved.rows[v] # NoRow =>
                        saved.rows[v].count >= saved.rows[v].logs

LEMMA CoveredAlone ==
    ASSUME IsFiniteSet(Clients), TypeInv, CountCoversLogs, NEW v \in Versions, rows[v] # NoRow
    PROVE  rows[v].count >= rows[v].logs
<1>1. rows[v].count \in Nat /\ rows[v].logs \in Nat
  BY DEF TypeInv, TypeOK, DbTypeOK, Tables, Row
<1>2. Cardinality(Logging(rows[v].id)) \in Nat
  BY LoggingSubset DEF Logging
<1>3. rows[v].count >= rows[v].logs + Cardinality(Logging(rows[v].id))
  BY DEF CountCoversLogs, Logging
<1> QED BY <1>1, <1>2, <1>3

LEMMA SavedCoveredStep ==
    ASSUME IsFiniteSet(Clients), NothingFails, TxInv, CountCoversLogs, SavedCovered, [Next]_vars
    PROVE  SavedCovered'
<1>1. TypeInv
  BY DEF TxInv
<1>2. CASE saved' = saved
  BY <1>2 DEF SavedCovered
<1>3. CASE saved' = NoTx
  BY <1>3 DEF SavedCovered
<1>4. CASE saved' = [rows |-> rows, nextId |-> nextId, nextLogId |-> nextLogId]
  <2>1. saved'.rows = rows
    BY <1>4
  <2> QED BY <1>1, <2>1, CoveredAlone DEF SavedCovered
<1>5. ASSUME NEW a \in Admins, NEW v \in todo[a], InsertVersion(v, data[a]) PROVE saved' = saved
  BY <1>5 DEF InsertVersion
<1>6. ASSUME NEW v \in Versions, DeleteVersion(v) PROVE saved' = saved
  BY <1>6 DEF DeleteVersion
<1>7. ASSUME NEW c \in Clients, IncrementCount(rid[c]) \/ LogDownload(rid[c]) PROVE saved' = saved
  BY <1>1, <1>7, StatisticsKeepRows
<1>8. ASSUME RestoreSaved PROVE saved' = NoTx
  BY <1>8 DEF RestoreSaved
<1> QED BY <1>2, <1>3, <1>4, <1>5, <1>6, <1>7, <1>8, RowSteps DEF RowStep

LEMMA CountAfterCrash ==
    ASSUME IsFiniteSet(Clients), TypeInv, TypeInv', CountCoversLogs, SavedCovered, Crash
    PROVE  CountCoversLogs'
<1> SUFFICES ASSUME NEW v \in Versions, rows'[v] # NoRow
             PROVE  rows'[v].count >= rows'[v].logs + Cardinality(Logging(rows[v].id)')
  BY DEF CountCoversLogs, Logging
<1>1. Logging(rows[v].id)' = {}
  BY DEF Crash, Logging
<1>2. Cardinality(Logging(rows[v].id)') = 0
  BY <1>1, FS_EmptySet
<1>3. rows'[v].count \in Nat /\ rows'[v].logs \in Nat
  BY DEF TypeInv, TypeOK, DbTypeOK, Tables, Row
<1>4. rows'[v].count >= rows'[v].logs
  <2>1. CASE saved = NoTx
    <3>1. rows' = rows
      BY <2>1 DEF Crash, Reopen, RestoreSaved
    <3> QED BY <3>1, CoveredAlone
  <2>2. CASE saved # NoTx
    <3>1. rows' = saved.rows
      BY <2>2 DEF Crash, Reopen, RestoreSaved
    <3> QED BY <2>2, <3>1 DEF SavedCovered
  <2> QED BY <2>1, <2>2
<1> QED BY <1>2, <1>3, <1>4

\* The logs of a row never outnumber its downloads (database.cpp:363-410,
\* client_api.cpp:329-330): any administrators on any versions, any finite
\* number of downloads, whatever SELECT or file operation fails and wherever the
\* process dies, as long as no other statement fails.
THEOREM LogsAreCounted ==
    ASSUME "statement" \notin Faults, IsFiniteSet(Clients)
    PROVE  Spec => []CountCoversLogs
<1> NothingFails
  BY DEF NothingFails
<1>1. Init => CountCoversLogs /\ SavedCovered
  BY DEF Init, DbInit, CountCoversLogs, SavedCovered
<1>2. TxInv /\ TxInv' /\ IdInv /\ [Next]_vars => IdInv'
  BY IdStep
<1>3. TxInv /\ CountCoversLogs /\ SavedCovered /\ [Next]_vars => SavedCovered'
  BY SavedCoveredStep
<1>4. TxInv /\ TxInv' /\ IdInv /\ CountCoversLogs /\ SavedCovered /\ [Next]_vars => CountCoversLogs'
  BY CountStep, CountAfterCrash DEF TxInv
<1> QED BY <1>1, <1>2, <1>3, <1>4, TxInit, TxStep, IdInit, PTL DEF Spec
-----------------------------------------------------------------------------
(* Requests of the only administrator are atomic.                          *)

PublishedBy(T) == [v \in Versions |-> IF T[v] = NoRow THEN Partial ELSE T[v].sha]

\* Two rows of the same upload, or none.
SameUpload(r, s) == (r = NoRow <=> s = NoRow) /\ (r # NoRow => r.sha = s.sha)

\* Requests that take rows away.
Removing == {"delete", "begin"} \cup InBatch

\* The versions the DELETE loop of a batch has passed.
Passed(a) == todo[a] \ left[a]

\* A batch remembers whether any of them had a row.
Found(a) ==
    /\ apc[a] = "begin" => effect[a] = 0
    /\ apc[a] \in {"each", "commit"} =>
          (effect[a] > 0 <=> \E v \in Passed(a) : saved.rows[v] # NoRow)

\* In the transaction of a batch only the versions it has passed differ from
\* the rows that were there at BEGIN.
AtomicInv ==
    \A a \in Admins :
        /\ apc[a] \in Removing => todo[a] # {} /\ data[a] = Partial
        /\ apc[a] \in {"each", "commit"} => saved # NoTx
        /\ saved # NoTx => \A v \in Versions \ Passed(a) : SameUpload(rows[v], saved.rows[v])
        /\ Found(a)

LEMMA PublishedIs ==
    ASSUME Solo, StoreInv PROVE Published = PublishedBy(Committed)
<1>1. BackedBy(rows) /\ (saved # NoTx => BackedBy(saved.rows))
  BY DEF StoreInv, Undoable
<1>2. BackedBy(Committed)
  BY <1>1 DEF Committed
<1> QED BY <1>2 DEF BackedBy, Backed, Published, PublishedBy

LEMMA PublishedHasRow ==
    ASSUME Solo, StoreInv, NEW v \in Versions
    PROVE  Promise!IsPublished(v) <=> Committed[v] # NoRow
<1>1. Published[v] = IF Committed[v] = NoRow THEN Partial ELSE Committed[v].sha
  BY PublishedIs DEF PublishedBy
<1>2. Committed \in Tables
  <2>1. rows \in Tables /\ (saved # NoTx => saved.rows \in Tables)
    BY DEF StoreInv, TypeInv, TypeOK, DbTypeOK
  <2> QED BY <2>1 DEF Committed
<1>3. Committed[v] # NoRow => Committed[v].sha \in Contents
  BY <1>2 DEF Tables, Row
<1> QED BY <1>1, <1>3, StoreAssumption DEF Promise!IsPublished

LEMMA SamePublished ==
    ASSUME NEW T, NEW U, \A v \in Versions : SameUpload(T[v], U[v])
    PROVE  PublishedBy(T) = PublishedBy(U)
BY DEF PublishedBy, SameUpload

\* How a request that takes rows away comes to where it is.
LEMMA RemovingStep ==
    ASSUME TypeInv, [Next]_vars, NEW a \in Admins, apc'[a] \in Removing
    PROVE  \/ apc[a] = "idle" /\ todo'[a] # {} /\ data'[a] = Partial
                              /\ apc'[a] \notin {"each", "commit"}
           \/ /\ apc[a] \in Removing /\ todo'[a] = todo[a] /\ data'[a] = data[a]
              /\ apc'[a] \in {"each", "commit"} =>
                    apc[a] \in {"each", "commit"} \/ saved' # NoTx
<1> DEFINE Goal == \/ apc[a] = "idle" /\ todo'[a] # {} /\ data'[a] = Partial
                                      /\ apc'[a] \notin {"each", "commit"}
                   \/ /\ apc[a] \in Removing /\ todo'[a] = todo[a] /\ data'[a] = data[a]
                      /\ apc'[a] \in {"each", "commit"} =>
                            apc[a] \in {"each", "commit"} \/ saved' # NoTx
<1> USE DEF Removing, InBatch
<1>0. StoreTypeOK
  BY DEF TypeInv, TypeOK
<1>1. ASSUME apc'[a] = apc[a], todo'[a] = todo[a], data'[a] = data[a] PROVE Goal
  BY <1>1
<1>2. ASSUME NEW b \in Admins, b # a, Request(b) \/ Serve(b)
      PROVE  apc'[a] = apc[a] /\ todo'[a] = todo[a] /\ data'[a] = data[a]
  BY <1>0, <1>2 DEF Request, ReceiveUpload, ReceiveDelete, ReceiveUpdate, ReceiveBatch, Receive, Serve,
     Upload, CheckExists, OpenFile, OpenFileFails, WriteFile, WriteFileFails, Insert, AnswerUpload,
     ReadError, UndoUpload, SingleVersion, Delete, ReadChanges, Update, AnswerUpdate,
     Batch, BeginBatch, DeleteEach, CommitBatch, RollbackBatch, UnlinkOne,
     Goto, KeepRequest, Answer, AnswerWithId, StoreTypeOK
<1>3. ASSUME Request(a) PROVE Goal
  <2>1. PICK first \in AdminPc, S \in SUBSET Versions, k \in Contents \cup {Partial} :
            /\ Receive(a, first, S, k)
            /\ first \in Removing => S # {} /\ k = Partial /\ first \notin {"each", "commit"}
    <3>1. CASE ReceiveUpload(a)
      <4>1. PICK v \in Versions, k \in Contents : Receive(a, "exists", {v}, k)
        BY <3>1 DEF ReceiveUpload
      <4> QED BY <4>1 DEF AdminPc
    <3>2. CASE ReceiveDelete(a) \/ ReceiveUpdate(a)
      <4>1. PICK v \in Versions, first \in {"delete", "update"} : Receive(a, first, {v}, Partial)
        BY <3>2 DEF ReceiveDelete, ReceiveUpdate
      <4> QED BY <4>1 DEF AdminPc
    <3>3. CASE ReceiveBatch(a)
      <4>1. PICK S \in SUBSET Versions : S # {} /\ Receive(a, "begin", S, Partial)
        BY <3>3 DEF ReceiveBatch
      <4> QED BY <4>1 DEF AdminPc
    <3> QED BY <1>3, <3>1, <3>2, <3>3 DEF Request
  <2> QED BY <1>0, <2>1 DEF Receive, Goto, StoreTypeOK
<1>4. ASSUME Upload(a) PROVE FALSE
  BY <1>0, <1>4 DEF Upload, CheckExists, OpenFile, OpenFileFails, WriteFile, WriteFileFails, Insert,
     AnswerUpload, ReadError, UndoUpload, Goto, Answer, AnswerWithId, StoreTypeOK
<1>5. ASSUME SingleVersion(a) \/ UnlinkOne(a) PROVE FALSE
  BY <1>0, <1>5 DEF SingleVersion, Delete, ReadChanges, Update, AnswerUpdate, UnlinkOne,
     Goto, Answer, AnswerWithId, StoreTypeOK
<1>6. ASSUME Batch(a) PROVE Goal
  <2>1. CASE BeginBatch(a)
    <3>1. [rows |-> rows, nextId |-> nextId, nextLogId |-> nextLogId] # NoTx
      BY SentinelAssumption DEF TypeInv, TypeOK, DbTypeOK
    <3> QED BY <1>0, <2>1, <3>1 DEF BeginBatch, Begin, BeginRefused, Goto, Answer, AnswerWithId, StoreTypeOK
  <2>2. CASE DeleteEach(a)
    BY <1>0, <2>2 DEF DeleteEach, Goto, StoreTypeOK
  <2>3. CASE CommitBatch(a)
    BY <1>0, <2>3 DEF CommitBatch, Goto, KeepRequest, StoreTypeOK
  <2>4. CASE RollbackBatch(a)
    BY <1>0, <2>4 DEF RollbackBatch, Goto, Answer, AnswerWithId, StoreTypeOK
  <2> QED BY <1>6, <2>1, <2>2, <2>3, <2>4 DEF Batch
<1>7. ASSUME UNCHANGED adminVars PROVE Goal
  BY <1>7 DEF adminVars
<1>8. ASSUME NEW c \in Clients, Download(c) PROVE UNCHANGED adminVars
  BY <1>8 DEF Download, Lookup, OpenPackage, PackageMissing, StreamDone, StreamCut, Count, Log, adminVars
<1>9. ASSUME ReadOnly \/ UNCHANGED vars PROVE UNCHANGED adminVars
  BY <1>9 DEF ReadOnly, vars, adminVars
<1>10. ASSUME Crash PROVE FALSE
  BY <1>10 DEF Crash
<1> QED BY <1>1, <1>2, <1>3, <1>4, <1>5, <1>6, <1>7, <1>8, <1>9, <1>10 DEF Next, Serve

\* How a batch comes to where it is.
LEMMA BatchProgress ==
    ASSUME Solo, "rollback" \notin Faults, TypeInv, [Next]_vars, NEW a \in Admins,
           apc'[a] \in {"begin"} \cup InBatch
    PROVE  \/ ReceiveBatch(a) \/ BeginBatch(a) \/ DeleteEach(a) \/ CommitBatch(a)
           \/ UNCHANGED adminVars /\ UNCHANGED <<rows, saved>>
           \/ /\ UNCHANGED adminVars
              /\ \E c \in Clients : IncrementCount(rid[c]) \/ LogDownload(rid[c])
<1> DEFINE Goal == \/ ReceiveBatch(a) \/ BeginBatch(a) \/ DeleteEach(a) \/ CommitBatch(a)
                   \/ UNCHANGED adminVars /\ UNCHANGED <<rows, saved>>
                   \/ /\ UNCHANGED adminVars
                      /\ \E c \in Clients : IncrementCount(rid[c]) \/ LogDownload(rid[c])
<1>0. StoreTypeOK /\ (\A b \in Admins : b = a) /\ apc \in [Admins -> AdminPc]
  BY DEF TypeInv, TypeOK, StoreTypeOK, Solo
<1>1. ASSUME ReceiveUpload(a) \/ ReceiveDelete(a) \/ ReceiveUpdate(a) PROVE FALSE
  BY <1>0, <1>1 DEF ReceiveUpload, ReceiveDelete, ReceiveUpdate, Receive, Goto, InBatch
<1>2. ASSUME Upload(a) PROVE FALSE
  BY <1>0, <1>2 DEF Upload, CheckExists, OpenFile, OpenFileFails, WriteFile, WriteFileFails, Insert,
     AnswerUpload, ReadError, UndoUpload, Goto, Answer, AnswerWithId, InBatch
<1>3. ASSUME SingleVersion(a) \/ UnlinkOne(a) PROVE FALSE
  BY <1>0, <1>3 DEF SingleVersion, Delete, ReadChanges, Update, AnswerUpdate, UnlinkOne,
     Goto, Answer, AnswerWithId, InBatch
<1>4. ASSUME RollbackBatch(a) PROVE FALSE
  BY <1>0, <1>4 DEF RollbackBatch, Goto, Answer, AnswerWithId, InBatch
<1>5. ASSUME NEW c \in Clients, Download(c) PROVE Goal
  <2>1. CASE Count(c) \/ Log(c)
    BY <2>1 DEF Count, Log, StatementFails
  <2>2. CASE Lookup(c) \/ OpenPackage(c) \/ PackageMissing(c) \/ StreamDone(c) \/ StreamCut(c)
    BY <2>2 DEF Lookup, OpenPackage, PackageMissing, StreamDone, StreamCut, Select, dbVars
  <2> QED BY <1>5, <2>1, <2>2 DEF Download
<1>6. ASSUME ReadOnly \/ UNCHANGED vars PROVE Goal
  BY <1>6 DEF ReadOnly, Select, vars, dbVars, adminVars
<1>7. ASSUME Crash PROVE FALSE
  BY <1>7 DEF Crash, InBatch
<1> HIDE DEF Goal
<1>8. ASSUME Request(a) \/ Serve(a) PROVE Goal
  BY <1>1, <1>2, <1>3, <1>4, <1>8 DEF Request, Serve, Batch, Goal
<1>9. Goal
  BY <1>0, <1>5, <1>6, <1>7, <1>8 DEF Next
<1> QED BY <1>9 DEF Goal

\* One turn of the DELETE loop.
LEMMA Turn ==
    ASSUME StoreInv, NEW a \in Admins, DeleteEach(a), apc'[a] # "rollback"
    PROVE  \E v \in left[a] :
              /\ DeleteVersion(v) /\ v \in todo[a] /\ v \in Versions
              /\ todo'[a] = todo[a] /\ left'[a] = left[a] \ {v}
              /\ effect'[a] = effect[a] + Matched(v)
<1>1. StoreTypeOK /\ Remaining(a) /\ apc[a] = "each"
  BY DEF StoreInv, TypeInv, TypeOK, Handler, DeleteEach, Goto
<1>2. PICK v \in left[a] :
          \/ DeleteVersion(v) /\ Did(a, effect[a] + Matched(v)) /\ left' = [left EXCEPT ![a] = @ \ {v}]
          \/ Goto(a, "each", "rollback")
  BY DEF DeleteEach
<1>3. ~ Goto(a, "each", "rollback")
  BY <1>1 DEF Goto, StoreTypeOK
<1>4. v \in todo[a] /\ v \in Versions
  BY <1>1 DEF Remaining, StoreTypeOK
<1>5. todo'[a] = todo[a] /\ left'[a] = left[a] \ {v} /\ effect'[a] = effect[a] + Matched(v)
  BY <1>1, <1>2, <1>3 DEF DeleteEach, Did, StoreTypeOK
<1> QED BY <1>2, <1>3, <1>4, <1>5

LEMMA FoundStep ==
    ASSUME Solo, "rollback" \notin Faults, TxInv, StoreInv, AtomicInv, [Next]_vars, NEW a \in Admins
    PROVE  Found(a)'
<1>1. TypeInv /\ StoreTypeOK /\ Found(a) /\ Remaining(a)
  BY DEF StoreInv, TypeInv, TypeOK, AtomicInv, Handler
<1>2. CASE apc'[a] \notin {"begin"} \cup InBatch
  BY <1>2 DEF Found, InBatch
<1>3. CASE ReceiveBatch(a)
  BY <1>1, <1>3 DEF ReceiveBatch, Receive, Did, Goto, StoreTypeOK, Found
<1>4. CASE BeginBatch(a)
  <2>1. apc[a] = "begin" /\ effect'[a] = 0 /\ apc'[a] \in {"each", "idle"}
        /\ (apc'[a] = "each" => Passed(a)' = {})
    BY <1>1, <1>4 DEF BeginBatch, Answer, AnswerWithId, Goto, StoreTypeOK, Found, Passed
  <2> QED BY <2>1 DEF Found
<1>5. CASE DeleteEach(a) /\ apc'[a] # "rollback"
  <2>1. PICK v \in left[a] :
            /\ DeleteVersion(v) /\ v \in todo[a] /\ v \in Versions
            /\ todo'[a] = todo[a] /\ left'[a] = left[a] \ {v}
            /\ effect'[a] = effect[a] + Matched(v)
    BY <1>5, Turn
  <2>2. /\ apc[a] = "each" /\ apc'[a] \in {"each", "commit"} /\ saved' = saved /\ saved # NoTx
        /\ effect[a] \in Nat
    BY <1>1, <1>5, <2>1 DEF DeleteEach, Goto, StoreTypeOK, DeleteVersion, AtomicInv
  <2>3. Passed(a)' = Passed(a) \cup {v}
    BY <2>1 DEF Passed
  <2>4. rows[v] = NoRow <=> saved.rows[v] = NoRow
    BY <2>1, <2>2 DEF AtomicInv, Passed, SameUpload
  <2>5. effect'[a] > 0 <=> effect[a] > 0 \/ saved.rows[v] # NoRow
    BY <2>1, <2>2, <2>4 DEF Matched
  <2>6. effect[a] > 0 <=> \E w \in Passed(a) : saved.rows[w] # NoRow
    BY <1>1, <2>2 DEF Found
  <2>7. effect'[a] > 0 <=> \E w \in Passed(a)' : saved'.rows[w] # NoRow
    BY <2>2, <2>3, <2>5, <2>6
  <2> QED BY <2>2, <2>7 DEF Found
<1>6. CASE DeleteEach(a) /\ apc'[a] = "rollback"
  BY <1>6 DEF Found
<1>7. CASE CommitBatch(a)
  BY <1>1, <1>7 DEF CommitBatch, Goto, StoreTypeOK, Found
<1>8. CASE UNCHANGED adminVars /\ saved' = saved
  BY <1>1, <1>8 DEF adminVars, Found, Passed
<1>9. ASSUME NEW c \in Clients, IncrementCount(rid[c]) \/ LogDownload(rid[c]) PROVE saved' = saved
  BY <1>9 DEF IncrementCount, LogDownload
<1> QED BY <1>1, <1>2, <1>3, <1>4, <1>5, <1>6, <1>7, <1>8, <1>9, BatchProgress

LEMMA AtomicStep ==
    ASSUME Solo, "rollback" \notin Faults, TxInv, StoreInv, AtomicInv, [Next]_vars
    PROVE  AtomicInv'
<1> SUFFICES ASSUME NEW a \in Admins
             PROVE  /\ apc'[a] \in Removing => todo'[a] # {} /\ data'[a] = Partial
                    /\ apc'[a] \in {"each", "commit"} => saved' # NoTx
                    /\ saved' # NoTx => \A v \in Versions \ Passed(a)' :
                                            SameUpload(rows'[v], saved'.rows[v])
  BY FoundStep DEF AtomicInv
<1>1. TypeInv /\ StoreTypeOK /\ \A b \in Admins : a = b
  BY DEF StoreInv, TypeInv, TypeOK, Solo
<1>2. apc'[a] \in Removing => todo'[a] # {} /\ data'[a] = Partial
  BY <1>1, RemovingStep DEF AtomicInv
<1>3. ASSUME apc'[a] \in {"each", "commit"}, saved' = NoTx PROVE FALSE
  <2>1. apc[a] \in {"each", "commit"} /\ saved # NoTx
    BY <1>1, <1>3, RemovingStep DEF AtomicInv, Removing, InBatch
  <2>2. Serve(a) \/ (\E c \in Clients : Download(c)) \/ ReadOnly \/ Crash \/ UNCHANGED vars
    BY <1>1, <2>1 DEF Next, Request, ReceiveUpload, ReceiveDelete, ReceiveUpdate, ReceiveBatch, Receive, Goto
  <2>3. CASE Serve(a)
    <3>1. DeleteEach(a) \/ CommitBatch(a)
      BY <2>1, <2>3 DEF Serve, Upload, CheckExists, OpenFile, OpenFileFails, WriteFile, WriteFileFails,
         Insert, AnswerUpload, ReadError, UndoUpload, SingleVersion, Delete, ReadChanges, Update,
         AnswerUpdate, UnlinkOne, Batch, BeginBatch, RollbackBatch, Goto, Answer, AnswerWithId
    <3> QED BY <1>1, <1>3, <2>1, <3>1 DEF DeleteEach, CommitBatch, DeleteVersion, Commit,
         StatementFails, Goto, StoreTypeOK
  <2>4. CASE \E c \in Clients : Download(c)
    BY <1>3, <2>1, <2>4 DEF Download, Lookup, OpenPackage, PackageMissing, StreamDone, StreamCut, Count,
       Log, Select, dbVars, IncrementCount, LogDownload, StatementFails
  <2> QED BY <1>3, <2>1, <2>2, <2>3, <2>4 DEF ReadOnly, Select, Crash, vars, dbVars
<1>4. ASSUME saved' # NoTx, NEW v \in Versions \ Passed(a)' PROVE SameUpload(rows'[v], saved'.rows[v])
  <2>1. CASE saved'.rows = rows /\ rows' = rows
    BY <2>1 DEF SameUpload
  <2>2. CASE saved # NoTx /\ saved' = saved
    <3>1. apc[a] \in InBatch
      BY <1>1, <2>2 DEF StoreInv, Undoable
    <3>2. apc'[a] \in InBatch
      <4>1. CASE Request(a) \/ Serve(a)
        BY <1>1, <1>4, <3>1, <4>1, BatchEndsTransaction
      <4>2. ASSUME UNCHANGED apc PROVE apc'[a] \in InBatch
        BY <3>1, <4>2
      <4>3. ASSUME NEW c \in Clients, Download(c) PROVE UNCHANGED apc
        BY <4>3 DEF Download, Lookup, OpenPackage, PackageMissing, StreamDone, StreamCut, Count, Log, adminVars
      <4>4. ~Crash
        BY <1>4 DEF Crash, Reopen, RestoreSaved
      <4> QED BY <1>1, <4>1, <4>2, <4>3, <4>4 DEF Next, ReadOnly, vars, adminVars
    <3>3. ASSUME v \notin Passed(a), rows'[v] = rows[v] \/ SameUpload(rows'[v], rows[v])
          PROVE  SameUpload(rows'[v], saved'.rows[v])
      BY <1>4, <2>2, <3>3 DEF AtomicInv, SameUpload
    <3>4. ~ReceiveBatch(a) /\ ~BeginBatch(a)
      BY <1>1, <3>1, <3>2 DEF ReceiveBatch, Receive, BeginBatch, Answer, AnswerWithId, Goto, InBatch
    <3>5. CASE DeleteEach(a) /\ apc'[a] # "rollback"
      <4>1. PICK w \in left[a] :
                /\ DeleteVersion(w) /\ w \in todo[a] /\ w \in Versions
                /\ todo'[a] = todo[a] /\ left'[a] = left[a] \ {w}
        BY <3>5, Turn
      <4>2. v \notin Passed(a) /\ v # w
        BY <1>4, <4>1 DEF Passed
      <4> QED BY <1>1, <1>4, <3>3, <4>1, <4>2, DeleteTakes
    <3>6. CASE DeleteEach(a) /\ apc'[a] = "rollback"
      <4>1. StatementFails /\ UNCHANGED <<todo, left>>
        BY <1>1, <3>6 DEF DeleteEach, Goto, StoreTypeOK
      <4> QED BY <1>4, <3>3, <4>1 DEF Passed, StatementFails
    <3>7. CASE CommitBatch(a)
      <4>1. UNCHANGED <<todo, left, rows>>
        BY <1>4, <3>7 DEF CommitBatch, KeepRequest, Commit, StatementFails
      <4> QED BY <1>4, <3>3, <4>1 DEF Passed
    <3>8. CASE UNCHANGED adminVars /\ rows' = rows
      BY <1>4, <3>3, <3>8 DEF Passed, adminVars
    <3>9. ASSUME UNCHANGED adminVars, NEW c \in Clients, IncrementCount(rid[c]) \/ LogDownload(rid[c])
          PROVE  SameUpload(rows'[v], saved'.rows[v])
      <4>1. SameUpload(rows'[v], rows[v])
        BY <1>1, <1>4, <3>9, StatisticsKeepRows DEF SameUpload
      <4> QED BY <1>4, <3>3, <3>9, <4>1 DEF Passed, adminVars
    <3> QED BY <1>1, <3>2, <3>4, <3>5, <3>6, <3>7, <3>8, <3>9, BatchProgress
  <2> QED BY <1>1, <1>4, <2>1, <2>2, SavedPersists
<1> QED BY <1>2, <1>3, <1>4
-----------------------------------------------------------------------------
(* The steps of Catalog that steps of a handler are.                       *)

LEMMA StaysPut ==
    ASSUME Solo, NEW a \in Admins, Published' = Published, reply'[a] = reply[a],
           apc[a] \in Settling => effect'[a] = effect[a],
           \/ apc[a] \in Settling /\ apc'[a] \in Settling
           \/ /\ apc'[a] = apc[a] \/ {apc[a], apc'[a]} \cap (Settling \cup {"idle", "update"}) = {}
              /\ todo'[a] = todo[a] /\ data'[a] = data[a]
    PROVE  UNCHANGED Promise!catalogVars
<1>1. \A b \in Admins : b = a
  BY DEF Solo
<1>2. Pending' = Pending
  BY <1>1 DEF Pending, Settling
<1>3. Effected' = Effected /\ Voided' = Voided
  BY <1>1 DEF Effected, Voided, Settling
<1>4. Outcome' = Outcome
  BY <1>1 DEF Outcome
<1> QED BY <1>2, <1>3, <1>4 DEF Promise!catalogVars

LEMMA IsSubmitted ==
    ASSUME Solo, NEW a \in Admins, Published' = Published, apc[a] = "idle",
           apc'[a] \notin Settling \cup {"idle"}, reply'[a] = NoReply,
           todo'[a] \in SUBSET Versions, todo'[a] # {}, data'[a] \in Contents \cup {Partial}
    PROVE  Promise!Submit(a)
<1>1. \A b \in Admins : b = a
  BY DEF Solo
<1> DEFINE r == [versions |-> todo'[a],
                 content |-> IF apc'[a] = "update" THEN NoVersion ELSE data'[a]]
<1>2. r \in Promise!Requests /\ r.versions # {}
  BY DEF Promise!Requests
<1>3. Pending[a] = Promise!Nothing /\ a \notin Effected \cup Voided
  BY DEF Pending, Promise!Nothing, Effected, Voided, Settling
<1>4. Pending' = [Pending EXCEPT ![a] = r]
  BY <1>1 DEF Pending, Settling
<1>5. Effected' = Effected /\ Voided' = Voided
  BY <1>1 DEF Effected, Voided, Settling
<1>6. Outcome' = [Outcome EXCEPT ![a] = "none"]
  BY <1>1 DEF Outcome, NoReply
<1> QED BY <1>2, <1>3, <1>4, <1>5, <1>6 DEF Promise!Submit

\* What an answer leaves of a request.
LEMMA IsAnswered ==
    ASSUME Solo, NEW a \in Admins, apc'[a] = "idle"
    PROVE  /\ Pending' = [Pending EXCEPT ![a] = Promise!Nothing]
           /\ Effected' = Effected \ {a} /\ Voided' = Voided \ {a}
<1>1. \A b \in Admins : b = a
  BY DEF Solo
<1>2. Pending' = [Pending EXCEPT ![a] = Promise!Nothing]
  BY <1>1 DEF Pending, Promise!Nothing, Settling
<1>3. Effected' = Effected \ {a} /\ Voided' = Voided \ {a}
  BY <1>1 DEF Effected, Voided, Settling
<1> QED BY <1>2, <1>3

LEMMA IsRefused ==
    ASSUME Solo, NEW a \in Admins, Published' = Published, apc'[a] = "idle",
           reply'[a].status \in {404, 409, 500}
    PROVE  Promise!Fail(a)
<1>1. \A b \in Admins : b = a
  BY DEF Solo
<1>2. Outcome' = [Outcome EXCEPT ![a] = "failure"]
  BY <1>1 DEF Outcome
<1> QED BY <1>2, IsAnswered DEF Promise!Fail

LEMMA IsGranted ==
    ASSUME Solo, NEW a \in Admins, Published' = Published, apc[a] \in Settling,
           effect[a] \in Nat, apc'[a] = "idle", reply'[a].status \in {200, 201}
    PROVE  Promise!Succeed(a)
<1>1. \A b \in Admins : b = a
  BY DEF Solo
<1>2. Outcome' = [Outcome EXCEPT ![a] = "success"]
  BY <1>1 DEF Outcome
<1>3. a \in Effected \cup Voided
  BY DEF Effected, Voided
<1>4. Pending' = Pending
  BY <1>1 DEF Pending, Settling
<1> QED BY <1>2, <1>3, <1>4, IsAnswered DEF Promise!Succeed

LEMMA IsEffective ==
    ASSUME Solo, NEW a \in Admins, apc[a] \notin Settling \cup {"idle"}, apc'[a] \in Settling,
           effect'[a] \in Nat, reply'[a] = reply[a]
    PROVE  /\ effect'[a] > 0 => Promise!TakesEffect(a)
           /\ effect'[a] = 0 => /\ Pending' = [Pending EXCEPT ![a] = Promise!Nothing]
                                /\ Voided' = Voided \cup {a}
                                /\ Effected' = Effected /\ Outcome' = Outcome
           /\ Pending[a] = [versions |-> todo[a],
                            content |-> IF apc[a] = "update" THEN NoVersion ELSE data[a]]
<1>1. \A b \in Admins : b = a
  BY DEF Solo
<1>2. Pending' = [Pending EXCEPT ![a] = Promise!Nothing]
  BY <1>1 DEF Pending, Promise!Nothing, Settling
<1>3. /\ effect'[a] > 0 => Effected' = Effected \cup {a} /\ Voided' = Voided
      /\ effect'[a] = 0 => Effected' = Effected /\ Voided' = Voided \cup {a}
  BY <1>1 DEF Effected, Voided, Settling
<1>4. Outcome' = Outcome
  BY <1>1 DEF Outcome
<1>5. Pending[a] = [versions |-> todo[a], content |-> IF apc[a] = "update" THEN NoVersion ELSE data[a]]
  BY DEF Pending
<1> QED BY <1>2, <1>3, <1>4, <1>5 DEF Promise!TakesEffect

\* A request that takes rows away, or describes one, and matched none.
LEMMA IsVoid ==
    ASSUME Solo, NEW a \in Admins, apc[a] \notin Settling \cup {"idle"}, apc'[a] \in Settling,
           effect'[a] = 0, reply'[a] = reply[a], Published' = Published, todo[a] # {},
           apc[a] = "update" \/ data[a] = Partial,
           \A v \in todo[a] : ~ Promise!IsPublished(v)
    PROVE  Promise!FindNothing(a)
<1>1. /\ Pending' = [Pending EXCEPT ![a] = Promise!Nothing]
      /\ Voided' = Voided \cup {a} /\ Effected' = Effected /\ Outcome' = Outcome
      /\ Pending[a] = [versions |-> todo[a],
                       content |-> IF apc[a] = "update" THEN NoVersion ELSE data[a]]
  BY IsEffective
<1>2. Pending[a].versions = todo[a] /\ Pending[a].content \in {NoVersion, Partial}
      /\ Pending[a] # Promise!Nothing
  BY <1>1 DEF Promise!Nothing
<1>3. NoVersion \notin Contents /\ Partial \notin Contents
  BY StoreAssumption
<1> QED BY <1>1, <1>2, <1>3 DEF Promise!FindNothing

\* What is published stays while the rows do, and across a rollback.
LEMMA PublishedStays ==
    ASSUME Solo, StoreInv, StoreInv',
           \/ UNCHANGED <<rows, saved>>
           \/ RestoreSaved
           \/ saved = NoTx /\ saved'.rows = rows /\ rows' = rows
           \/ saved # NoTx /\ saved' = saved
           \/ saved = NoTx /\ saved' = NoTx
                  /\ \A v \in Versions : SameUpload(rows'[v], rows[v])
    PROVE  Published' = Published
<1>1. Published = PublishedBy(Committed)
  BY PublishedIs
<1>2. Published' = PublishedBy(Committed')
  <2>1. BackedBy(rows)' /\ (saved' # NoTx => BackedBy(saved.rows)')
    BY DEF StoreInv, Undoable
  <2>2. \A v \in Versions : Committed'[v] # NoRow => Backed(v, Committed[v])'
    BY <2>1 DEF Committed, BackedBy
  <2> QED BY <2>2 DEF Backed, Published, PublishedBy
<1>3. CASE saved = NoTx /\ saved' = NoTx /\ \A v \in Versions : SameUpload(rows'[v], rows[v])
  BY <1>1, <1>2, <1>3, SamePublished DEF Committed
<1>4. CASE Committed' = Committed
  BY <1>1, <1>2, <1>4
<1> QED BY <1>3, <1>4 DEF Committed, RestoreSaved
-----------------------------------------------------------------------------
(* Every step is a step of Catalog.                                        *)

LEMMA UploadRefines ==
    ASSUME Solo, "rollback" \notin Faults, StoreInv, StoreInv', nextId > 0, NEW a \in Admins,
           Upload(a)
    PROVE  [Promise!Next]_Promise!catalogVars
<1>1. StoreTypeOK /\ TypeInv /\ OneVersion(a)
  BY DEF StoreInv, TypeInv, TypeOK, Handler
<1>2. ASSUME UNCHANGED <<rows, saved>> PROVE Published' = Published
  BY <1>2, PublishedStays
<1>3. ASSUME NEW from, NEW status, Answer(a, from, status), UNCHANGED <<rows, saved>>,
             status \in {404, 409, 500}
      PROVE  Promise!Next
  <2>1. apc'[a] = "idle" /\ reply'[a].status = status
    BY <1>1, <1>3 DEF Answer, AnswerWithId, Goto, StoreTypeOK
  <2>2. Promise!Fail(a)
    BY <1>2, <1>3, <2>1, IsRefused
  <2> QED BY <2>2 DEF Promise!Next
<1>4. ASSUME NEW from, NEW to, Goto(a, from, to), UNCHANGED <<rows, saved, todo, data, reply>>,
             {from, to} \cap (Settling \cup {"idle", "update"}) = {}
      PROVE  UNCHANGED Promise!catalogVars
  <2>1. apc[a] = from /\ apc'[a] = to
    BY <1>1, <1>4 DEF Goto, StoreTypeOK
  <2> QED BY <1>2, <1>4, <2>1, StaysPut
<1> USE DEF Settling
<1>5. CASE CheckExists(a)
  <2>1. UNCHANGED <<rows, saved>>
    BY <1>5 DEF CheckExists, Select
  <2>2. Answer(a, "exists", 409) \/ (Goto(a, "exists", "fopen") /\ UNCHANGED <<todo, data, reply>>)
    BY <1>5 DEF CheckExists, KeepRequest
  <2>3. CASE Answer(a, "exists", 409)
    BY <1>3, <2>1, <2>3
  <2>4. CASE Goto(a, "exists", "fopen") /\ UNCHANGED <<todo, data, reply>>
    <3>1. UNCHANGED Promise!catalogVars
      BY <1>4, <2>1, <2>4
    <3> QED BY <3>1
  <2> QED BY <2>2, <2>3, <2>4
<1>6. CASE OpenFile(a) \/ WriteFile(a)
  <2>1. UNCHANGED <<rows, saved, todo, data, reply>>
    BY <1>6 DEF OpenFile, WriteFile, dbVars
  <2>2. Goto(a, "fopen", "fwrite") \/ Goto(a, "fwrite", "insert")
    BY <1>6 DEF OpenFile, WriteFile
  <2>3. UNCHANGED Promise!catalogVars
    BY <1>4, <2>1, <2>2
  <2> QED BY <2>3
<1>7. CASE OpenFileFails(a) \/ WriteFileFails(a) \/ UndoUpload(a)
  <2>1. UNCHANGED <<rows, saved>>
    BY <1>7 DEF OpenFileFails, WriteFileFails, UndoUpload, dbVars
  <2>2. PICK from \in AdminPc, status \in {404, 409, 500} : Answer(a, from, status)
    BY <1>7 DEF OpenFileFails, WriteFileFails, UndoUpload, AdminPc
  <2> QED BY <1>3, <2>1, <2>2
<1>8. CASE ReadError(a)
  <2>1. UNCHANGED <<rows, saved, todo, data, reply>>
    BY <1>8 DEF ReadError, KeepRequest, dbVars
  <2>2. Goto(a, "errmsg", "undo_dup") \/ Goto(a, "errmsg", "undo_other")
    BY <1>8 DEF ReadError
  <2>3. UNCHANGED Promise!catalogVars
    BY <1>4, <2>1, <2>2
  <2> QED BY <2>3
<1>9. CASE AnswerUpload(a)
  <2>1. apc[a] = "rowid" /\ apc'[a] = "idle" /\ reply'[a].status = 201 /\ UNCHANGED <<rows, saved>>
    BY <1>1, <1>9 DEF AnswerUpload, AnswerWithId, Goto, StoreTypeOK, dbVars
  <2>2. Promise!Succeed(a)
    <3>1. effect[a] \in Nat
      BY <1>1 DEF StoreTypeOK
    <3> QED BY <1>2, <2>1, <3>1, IsGranted
  <2> QED BY <2>2 DEF Promise!Next
<1>10. CASE Insert(a)
  <2>1. PICK v \in todo[a] :
            \/ InsertVersion(v, data[a]) /\ Goto(a, "insert", "rowid")
            \/ (InsertConflicts(v) \/ StatementFails) /\ Goto(a, "insert", "errmsg")
    BY <1>10 DEF Insert
  <2>2. UNCHANGED <<todo, data, reply>> /\ v \in Versions
    BY <1>1, <1>10 DEF Insert, KeepRequest, StoreTypeOK
  <2>3. CASE (InsertConflicts(v) \/ StatementFails) /\ Goto(a, "insert", "errmsg")
    <3>1. UNCHANGED <<rows, saved>>
      BY <2>3 DEF InsertConflicts, StatementFails
    <3>2. UNCHANGED Promise!catalogVars
      BY <1>4, <2>2, <2>3, <3>1
    <3> QED BY <3>2
  <2>4. CASE InsertVersion(v, data[a]) /\ Goto(a, "insert", "rowid")
    <3>1. apc[a] = "insert" /\ apc'[a] = "rowid" /\ data[a] \in Contents /\ todo[a] = {v}
      BY <1>1, <2>1, <2>4 DEF Goto, StoreTypeOK, TypeInv, Carrying, OneVersion
    <3>2. saved = NoTx
      BY <3>1 DEF StoreInv, Undoable, InBatch
    <3>3. /\ rows[v] = NoRow /\ rows'[v] = NewRow(nextId, data[a]) /\ saved' = saved
          /\ \A w \in Versions \ {v} : rows'[w] = rows[w]
      BY <1>1, <2>2, <2>4, InsertAdds
    <3>4. rows'[v] # NoRow /\ rows'[v].sha = data[a]
      <4>1. nextId \in Nat
        BY <1>1 DEF TypeInv, TypeOK, DbTypeOK
      <4>2. NewRow(nextId, data[a]) \in Row /\ NewRow(nextId, data[a]).sha = data[a]
        BY <3>1, <4>1 DEF NewRow, Row
      <4> QED BY <3>3, <4>2, SentinelAssumption
    <3>5. Published = PublishedBy(rows)
      BY <3>2, PublishedIs DEF Committed
    <3>6. Published' = PublishedBy(rows')
      <4>1. BackedBy(rows)'
        BY DEF StoreInv
      <4> QED BY <3>2, <3>3, <4>1 DEF BackedBy, Backed, Published, PublishedBy, Committed
    <3>7. Published[v] = Partial /\ Published' = [Published EXCEPT ![v] = data[a]]
      BY <2>2, <3>3, <3>4, <3>5, <3>6 DEF PublishedBy
    <3>8. Promise!TakesEffect(a) /\ Pending[a] = [versions |-> {v}, content |-> data[a]]
      <4>1. effect'[a] = nextId /\ nextId \in Nat
        BY <1>1, <1>10, <2>4, <3>3 DEF Insert, InsertConflicts, StatementFails, Goto, Did, StoreTypeOK, TypeInv, TypeOK, DbTypeOK
      <4> QED BY <2>2, <3>1, <4>1, IsEffective
    <3>9. Promise!Publish(a)
      <4>1. Pending[a].versions = {v} /\ Pending[a].content = data[a]
        BY <3>8
      <4> QED BY <2>2, <3>1, <3>7, <3>8, <4>1 DEF Promise!Publish
    <3> QED BY <3>9 DEF Promise!Next
  <2> QED BY <2>1, <2>3, <2>4
<1> QED BY <1>5, <1>6, <1>7, <1>8, <1>9, <1>10 DEF Upload
LEMMA SingleVersionRefines ==
    ASSUME Solo, "rollback" \notin Faults, StoreInv, StoreInv', AtomicInv, NEW a \in Admins,
           SingleVersion(a) \/ UnlinkOne(a)
    PROVE  [Promise!Next]_Promise!catalogVars
<1>1. StoreTypeOK /\ TypeInv /\ OneVersion(a)
  BY DEF StoreInv, TypeInv, TypeOK, Handler
<1>2. ASSUME UNCHANGED <<rows, saved>> PROVE Published' = Published
  BY <1>2, PublishedStays
<1>3. ASSUME NEW from, NEW status, Answer(a, from, status), UNCHANGED <<rows, saved>>
      PROVE  /\ status \in {404, 409, 500} => Promise!Next
             /\ status = 200 /\ from \in Settling => Promise!Next
  <2>1. apc[a] = from /\ apc'[a] = "idle" /\ reply'[a].status = status
    BY <1>1, <1>3 DEF Answer, AnswerWithId, Goto, StoreTypeOK
  <2>2. status \in {404, 409, 500} => Promise!Fail(a)
    BY <1>2, <1>3, <2>1, IsRefused
  <2>3. status = 200 /\ from \in Settling => Promise!Succeed(a)
    <3>1. effect[a] \in Nat
      BY <1>1 DEF StoreTypeOK
    <3> QED BY <1>2, <1>3, <2>1, <3>1, IsGranted
  <2> QED BY <2>2, <2>3 DEF Promise!Next
<1>4. ASSUME StatementFails PROVE UNCHANGED <<rows, saved>>
  BY <1>4 DEF StatementFails
<1> USE DEF Settling
<1>5. CASE Delete(a)
  <2>1. PICK v \in todo[a] :
            \/ /\ DeleteVersion(v) /\ Did(a, Matched(v))
               /\ Goto(a, "delete", "changed") /\ KeepRequest
            \/ StatementFails /\ Answer(a, "delete", 500)
    BY <1>5 DEF Delete
  <2>2. CASE StatementFails /\ Answer(a, "delete", 500)
    BY <1>3, <1>4, <2>2
  <2>3. CASE /\ DeleteVersion(v) /\ Did(a, Matched(v))
             /\ Goto(a, "delete", "changed") /\ KeepRequest
    <3>1. /\ apc[a] = "delete" /\ apc'[a] = "changed" /\ reply'[a] = reply[a]
          /\ v \in Versions /\ todo[a] = {v} /\ data[a] = Partial
      BY <1>1, <2>1, <2>3 DEF Goto, KeepRequest, StoreTypeOK, OneVersion, AtomicInv, Removing
    <3>2. saved = NoTx
      BY <3>1 DEF StoreInv, Undoable, InBatch
    <3>3. rows'[v] = NoRow /\ saved' = saved /\ \A w \in Versions \ {v} : rows'[w] = rows[w]
      BY <1>1, <2>3, <3>1, DeleteTakes
    <3>4. Published = PublishedBy(rows)
      BY <3>2, PublishedIs DEF Committed
    <3>5. Published' = PublishedBy(rows')
      <4>1. BackedBy(rows)'
        BY DEF StoreInv
      <4> QED BY <3>2, <3>3, <4>1 DEF BackedBy, Backed, Published, PublishedBy, Committed
    <3>6. Published' = [w \in Versions |-> IF w \in {v} THEN Partial ELSE Published[w]]
      BY <3>3, <3>4, <3>5 DEF PublishedBy
    <3>7. effect'[a] = Matched(v) /\ effect'[a] \in {0, 1}
      BY <1>1, <2>3 DEF Did, Matched, StoreTypeOK
    <3>8. Promise!IsPublished(v) <=> rows[v] # NoRow
      BY <3>1, <3>2, PublishedHasRow DEF Committed
    <3>9. CASE rows[v] # NoRow
      <4>1. Promise!TakesEffect(a) /\ Pending[a] = [versions |-> {v}, content |-> Partial]
        BY <3>1, <3>7, <3>9, IsEffective DEF Matched
      <4>2. Pending[a].versions = {v} /\ Pending[a].content = Partial
        BY <4>1
      <4>3. Promise!Withdraw(a)
        BY <3>6, <3>8, <3>9, <4>1, <4>2 DEF Promise!Withdraw
      <4> QED BY <4>3 DEF Promise!Next
    <3>10. CASE rows[v] = NoRow
      <4>1. Published' = Published
        BY <3>4, <3>6, <3>10 DEF PublishedBy
      <4>2. Promise!FindNothing(a)
        BY <3>1, <3>7, <3>8, <3>10, <4>1, IsVoid DEF Matched
      <4> QED BY <4>2 DEF Promise!Next
    <3> QED BY <3>9, <3>10
  <2> QED BY <2>1, <2>2, <2>3
<1>6. CASE ReadChanges(a)
  <2>1. UNCHANGED <<rows, saved>>
    BY <1>6 DEF ReadChanges, dbVars
  <2>2. CASE Answer(a, "changed", 404)
    BY <1>3, <2>1, <2>2
  <2>3. CASE Goto(a, "changed", "unlink") /\ KeepRequest
    <3>1. /\ apc[a] \in Settling /\ apc'[a] \in Settling /\ reply'[a] = reply[a]
          /\ effect'[a] = effect[a]
      BY <1>1, <1>6, <2>3 DEF ReadChanges, Goto, KeepRequest, StoreTypeOK
    <3>2. UNCHANGED Promise!catalogVars
      BY <1>2, <2>1, <3>1, StaysPut
    <3> QED BY <3>2
  <2> QED BY <1>6, <2>2, <2>3 DEF ReadChanges
<1>7. CASE Update(a)
  <2>1. PICK v \in todo[a] :
            \/ /\ UpdateDescription(v) /\ Did(a, Matched(v))
               /\ Goto(a, "update", "matched") /\ KeepRequest
            \/ StatementFails /\ Answer(a, "update", 500)
    BY <1>7 DEF Update
  <2>2. CASE StatementFails /\ Answer(a, "update", 500)
    BY <1>3, <1>4, <2>2
  <2>3. CASE /\ UpdateDescription(v) /\ Did(a, Matched(v))
             /\ Goto(a, "update", "matched") /\ KeepRequest
    <3>1. /\ apc[a] = "update" /\ apc'[a] = "matched" /\ reply'[a] = reply[a]
          /\ UNCHANGED <<rows, saved>> /\ v \in Versions /\ todo[a] = {v}
      BY <1>1, <2>1, <2>3 DEF Goto, KeepRequest, StoreTypeOK, UpdateDescription, OneVersion
    <3>2. saved = NoTx
      BY <3>1 DEF StoreInv, Undoable, InBatch
    <3>3. effect'[a] = Matched(v) /\ effect'[a] \in {0, 1}
      BY <1>1, <2>3 DEF Did, Matched, StoreTypeOK
    <3>4. Promise!IsPublished(v) <=> rows[v] # NoRow
      BY <3>1, <3>2, PublishedHasRow DEF Committed
    <3>5. CASE rows[v] # NoRow
      <4>1. /\ Promise!TakesEffect(a)
            /\ Pending[a] = [versions |-> {v}, content |-> NoVersion]
        BY <3>1, <3>3, <3>5, IsEffective DEF Matched
      <4>2. Promise!Describe(a)
        BY <1>2, <3>1, <3>4, <3>5, <4>1 DEF Promise!Describe
      <4> QED BY <4>2 DEF Promise!Next
    <3>6. CASE rows[v] = NoRow
      <4>1. Promise!FindNothing(a)
        BY <1>2, <3>1, <3>3, <3>4, <3>6, IsVoid DEF Matched
      <4> QED BY <4>1 DEF Promise!Next
    <3> QED BY <3>5, <3>6
  <2> QED BY <2>1, <2>2, <2>3
<1>8. CASE AnswerUpdate(a)
  <2>1. UNCHANGED <<rows, saved>>
    BY <1>8 DEF AnswerUpdate, dbVars
  <2>2. Answer(a, "matched", 404) \/ Answer(a, "matched", 200)
    BY <1>8 DEF AnswerUpdate
  <2> QED BY <1>3, <2>1, <2>2
<1>9. CASE UnlinkOne(a)
  <2>1. UNCHANGED <<rows, saved>>
    BY <1>9 DEF UnlinkOne, dbVars
  <2>2. CASE Answer(a, "unlink", 200)
    BY <1>3, <2>1, <2>2
  <2>3. CASE apc[a] = "unlink" /\ UNCHANGED <<apc, reply>>
    <3>1. UNCHANGED Promise!catalogVars
      BY <1>2, <1>9, <2>1, <2>3, StaysPut DEF UnlinkOne
    <3> QED BY <3>1
  <2> QED BY <1>9, <2>2, <2>3 DEF UnlinkOne
<1> QED BY <1>5, <1>6, <1>7, <1>8, <1>9 DEF SingleVersion

LEMMA BatchRefines ==
    ASSUME Solo, "rollback" \notin Faults, StoreInv, StoreInv', AtomicInv, NEW a \in Admins, Batch(a)
    PROVE  [Promise!Next]_Promise!catalogVars
<1>1. StoreTypeOK /\ TypeInv /\ Removed(a) /\ Remaining(a)
  BY DEF StoreInv, TypeInv, TypeOK, Handler
<1>2. ASSUME NEW from, Answer(a, from, 500), Published' = Published PROVE Promise!Next
  <2>1. apc'[a] = "idle" /\ reply'[a].status = 500
    BY <1>1, <1>2 DEF Answer, AnswerWithId, Goto, StoreTypeOK
  <2>2. Promise!Fail(a)
    BY <1>2, <2>1, IsRefused
  <2> QED BY <2>2 DEF Promise!Next
<1>3. ASSUME NEW from, NEW to, Goto(a, from, to), UNCHANGED <<todo, data, reply>>, Published' = Published,
             {from, to} \cap (Settling \cup {"idle", "update"}) = {}
      PROVE  UNCHANGED Promise!catalogVars
  <2>1. apc[a] = from /\ apc'[a] = to
    BY <1>1, <1>3 DEF Goto, StoreTypeOK
  <2> QED BY <1>3, <2>1, StaysPut
<1> USE DEF Settling
<1>4. CASE BeginBatch(a)
  <2>1. CASE BeginRefused /\ Answer(a, "begin", 500)
    <3>1. Published' = Published
      BY <2>1, PublishedStays DEF BeginRefused
    <3> QED BY <1>2, <2>1, <3>1
  <2>2. CASE Begin /\ Goto(a, "begin", "each") /\ UNCHANGED <<todo, data, reply>>
    <3>1. saved = NoTx /\ saved'.rows = rows /\ rows' = rows
      BY <2>2 DEF Begin
    <3>2. Published' = Published
      BY <3>1, PublishedStays
    <3>3. UNCHANGED Promise!catalogVars
      BY <1>3, <2>2, <3>2
    <3> QED BY <3>3
  <2> QED BY <1>4, <2>1, <2>2 DEF BeginBatch
<1>5. CASE DeleteEach(a)
  <2>1. apc[a] = "each" /\ saved # NoTx
    BY <1>5 DEF DeleteEach, Goto, AtomicInv
  <2>2. saved' = saved /\ UNCHANGED <<todo, data, reply>>
    BY <1>5 DEF DeleteEach, DeleteVersion, StatementFails
  <2>3. Published' = Published
    BY <2>1, <2>2, PublishedStays
  <2>4. Goto(a, "each", "each") \/ Goto(a, "each", "commit") \/ Goto(a, "each", "rollback")
    BY <1>5 DEF DeleteEach
  <2>5. UNCHANGED Promise!catalogVars
    BY <1>3, <2>2, <2>3, <2>4
  <2> QED BY <2>5
<1>6. CASE CommitBatch(a)
  <2>1. UNCHANGED <<todo, data, reply>>
    BY <1>6 DEF CommitBatch, KeepRequest
  <2>2. CASE UNCHANGED <<rows, saved>> /\ Goto(a, "commit", "rollback")
    <3>1. Published' = Published
      BY <2>2, PublishedStays
    <3>2. UNCHANGED Promise!catalogVars
      BY <1>3, <2>1, <2>2, <3>1
    <3> QED BY <3>2
  <2>3. CASE Commit /\ Goto(a, "commit", "unlink")
    <3>1. /\ apc[a] = "commit" /\ apc'[a] = "unlink" /\ reply'[a] = reply[a]
          /\ todo[a] # {} /\ data[a] = Partial /\ saved # NoTx /\ saved' = NoTx /\ rows' = rows
      BY <1>1, <2>1, <2>3 DEF Goto, StoreTypeOK, AtomicInv, Removing, InBatch, Commit
    <3>2. \A v \in Versions : IF v \in todo[a] THEN rows[v] = NoRow
                              ELSE SameUpload(rows[v], saved.rows[v])
      BY <1>1, <3>1 DEF Removed, AtomicInv, Passed
    <3>3. Published = PublishedBy(saved.rows)
      BY <3>1, PublishedIs DEF Committed
    <3>4. Published' = PublishedBy(rows)
      <4>1. BackedBy(rows)'
        BY DEF StoreInv
      <4> QED BY <3>1, <4>1 DEF BackedBy, Backed, Published, PublishedBy, Committed
    <3>5. Published' = [v \in Versions |-> IF v \in todo[a] THEN Partial ELSE Published[v]]
      BY <3>2, <3>3, <3>4 DEF PublishedBy, SameUpload
    <3>6. effect'[a] = effect[a] /\ effect[a] \in Nat /\ Passed(a) = todo[a]
      BY <1>1, <1>6, <3>1 DEF CommitBatch, StoreTypeOK, Remaining, Passed
    <3>7. \A v \in todo[a] : Promise!IsPublished(v) <=> saved.rows[v] # NoRow
      BY <1>1, <3>1, PublishedHasRow DEF Committed, StoreTypeOK
    <3>8. effect[a] > 0 <=> \E v \in todo[a] : saved.rows[v] # NoRow
      BY <3>1, <3>6 DEF AtomicInv, Found
    <3>9. CASE effect[a] > 0
      <4>1. Promise!TakesEffect(a) /\ Pending[a] = [versions |-> todo[a], content |-> Partial]
        BY <3>1, <3>6, <3>9, IsEffective
      <4>2. Pending[a].versions = todo[a] /\ Pending[a].content = Partial
        BY <4>1
      <4>3. Promise!Withdraw(a)
        BY <3>5, <3>7, <3>8, <3>9, <4>1, <4>2 DEF Promise!Withdraw
      <4> QED BY <4>3 DEF Promise!Next
    <3>10. CASE effect[a] = 0
      <4>1. \A v \in todo[a] : ~ Promise!IsPublished(v) /\ saved.rows[v] = NoRow
        BY <3>7, <3>8, <3>10
      <4>2. Published' = Published
        BY <3>3, <3>5, <4>1 DEF PublishedBy
      <4>3. Promise!FindNothing(a)
        BY <3>1, <3>6, <3>10, <4>1, <4>2, IsVoid
      <4> QED BY <4>3 DEF Promise!Next
    <3> QED BY <3>6, <3>9, <3>10
  <2> QED BY <1>6, <2>2, <2>3 DEF CommitBatch, StatementFails
<1>7. CASE RollbackBatch(a)
  <2>1. Published' = Published
    BY <1>7, PublishedStays DEF RollbackBatch, Rollback
  <2> QED BY <1>2, <1>7, <2>1 DEF RollbackBatch
<1> QED BY <1>4, <1>5, <1>6, <1>7 DEF Batch
LEMMA RequestRefines ==
    ASSUME Solo, StoreInv, StoreInv', NEW a \in Admins, Request(a)
    PROVE  Promise!Next
<1>1. StoreTypeOK
  BY DEF StoreInv, TypeInv, TypeOK
<1>2. PICK first \in AdminPc \ (Settling \cup {"idle"}), S \in SUBSET Versions,
           k \in Contents \cup {Partial} : S # {} /\ Receive(a, first, S, k)
  <2>1. CASE ReceiveUpload(a)
    <3>1. PICK v \in Versions, k \in Contents : Receive(a, "exists", {v}, k)
      BY <2>1 DEF ReceiveUpload
    <3> QED BY <3>1 DEF AdminPc, Settling
  <2>2. CASE ReceiveDelete(a) \/ ReceiveUpdate(a)
    <3>1. PICK v \in Versions, first \in {"delete", "update"} : Receive(a, first, {v}, Partial)
      BY <2>2 DEF ReceiveDelete, ReceiveUpdate
    <3> QED BY <3>1 DEF AdminPc, Settling
  <2>3. CASE ReceiveBatch(a)
    <3>1. PICK S \in SUBSET Versions : S # {} /\ Receive(a, "begin", S, Partial)
      BY <2>3 DEF ReceiveBatch
    <3> QED BY <3>1 DEF AdminPc, Settling
  <2> QED BY <2>1, <2>2, <2>3 DEF Request
<1>3. /\ apc[a] = "idle" /\ apc'[a] = first /\ reply'[a] = NoReply
      /\ todo'[a] = S /\ data'[a] = k /\ UNCHANGED <<rows, saved>>
  BY <1>1, <1>2 DEF Receive, Goto, StoreTypeOK, dbVars
<1>4. Published' = Published
  BY <1>3, PublishedStays
<1>5. Promise!Submit(a)
  BY <1>2, <1>3, <1>4, IsSubmitted
<1> QED BY <1>5 DEF Promise!Next

LEMMA DownloadRefines ==
    ASSUME Solo, "rollback" \notin Faults, StoreInv, StoreInv', NEW c \in Clients, Download(c)
    PROVE  Published' = Published /\ UNCHANGED adminVars
<1>1. TypeInv
  BY DEF StoreInv
<1>2. ASSUME UNCHANGED <<rows, saved>> PROVE Published' = Published
  BY <1>2, PublishedStays
<1>3. ASSUME IncrementCount(rid[c]) \/ LogDownload(rid[c]) PROVE Published' = Published
  <2>1. saved' = saved /\ \A v \in Versions : SameUpload(rows'[v], rows[v])
    BY <1>1, <1>3, StatisticsKeepRows DEF SameUpload
  <2> QED BY <2>1, PublishedStays
<1>4. CASE Count(c) \/ Log(c)
  <2>1. UNCHANGED adminVars
    BY <1>4 DEF Count, Log
  <2> QED BY <1>2, <1>3, <1>4, <2>1 DEF Count, Log, StatementFails
<1>5. CASE Lookup(c) \/ OpenPackage(c) \/ PackageMissing(c) \/ StreamDone(c) \/ StreamCut(c)
  <2>1. UNCHANGED <<rows, saved, adminVars>>
    BY <1>5 DEF Lookup, OpenPackage, PackageMissing, StreamDone, StreamCut, Select, dbVars
  <2> QED BY <1>2, <2>1
<1> QED BY <1>4, <1>5 DEF Download

LEMMA CatalogStep ==
    ASSUME Solo, "rollback" \notin Faults, StoreInv, StoreInv', nextId > 0, AtomicInv, [Next]_vars
    PROVE  [Promise!Next]_Promise!catalogVars
<1>1. ASSUME Published' = Published, UNCHANGED adminVars PROVE UNCHANGED Promise!catalogVars
  BY <1>1 DEF adminVars, Pending, Effected, Voided, Outcome, Promise!catalogVars
<1>2. ASSUME UNCHANGED <<rows, saved>> PROVE Published' = Published
  BY <1>2, PublishedStays
<1>3. CASE \E a \in Admins : Request(a) \/ Serve(a)
  BY <1>3, RequestRefines, UploadRefines, SingleVersionRefines, BatchRefines DEF Serve
<1>4. CASE \E c \in Clients : Download(c)
  BY <1>1, <1>4, DownloadRefines
<1>5. CASE ReadOnly \/ UNCHANGED vars
  BY <1>1, <1>2, <1>5 DEF ReadOnly, Select, vars, dbVars
<1>6. CASE Crash
  <2>1. Published' = Published
    BY <1>6, PublishedStays DEF Crash, Reopen
  <2>2. /\ Pending' = [a \in Admins |-> Promise!Nothing] /\ Effected' = {} /\ Voided' = {}
        /\ Outcome' = [a \in Admins |-> "none"]
    BY <1>6 DEF Crash, Pending, Promise!Nothing, Effected, Voided, Settling, Outcome, NoReply
  <2> QED BY <2>1, <2>2 DEF Promise!Restart, Promise!Next
<1> QED BY <1>3, <1>4, <1>5, <1>6 DEF Next

LEMMA CatalogInit == Init => AtomicInv /\ Promise!Init
<1> SUFFICES ASSUME Init PROVE AtomicInv /\ Promise!Init
  OBVIOUS
<1>1. AtomicInv
  BY DEF Init, DbInit, NoRequests, AtomicInv, Found, Removing, InBatch
<1>2. Published = [v \in Versions |-> Partial]
  BY DEF Init, DbInit, Published, Committed
<1>3. Pending = [a \in Admins |-> Promise!Nothing] /\ Effected = {} /\ Voided = {}
  BY DEF Init, NoRequests, Pending, Promise!Nothing, Effected, Voided, Settling
<1>4. Outcome = [a \in Admins |-> "none"]
  BY DEF Init, NoRequests, NoReply, Outcome
<1> QED BY <1>1, <1>2, <1>3, <1>4 DEF Promise!Init

\* The store implements Catalog for its only administrator: every upload,
\* delete, batch delete and update takes effect in one step or not at all, and
\* one that had something to change is answered with success only if it did
\* (admin_api.cpp:185-523), with any downloads, failing statements and file
\* operations, and crashes anywhere; not when a SELECT or a flush fails silently
\* or sqlite rolls back on its own.
THEOREM RequestsAreAtomic ==
    ASSUME FailuresShow, "rollback" \notin Faults, Solo
    PROVE  Spec => ImplementsCatalog
<1>1. [Next]_vars => [Next /\ Disjoint']_vars
  BY DEF Solo, Disjoint
<1>2. StoreInv /\ [Next]_vars => StoreInv'
  BY <1>1, InvStep
<1>3. TxInv /\ StoreInv /\ AtomicInv /\ [Next]_vars => AtomicInv'
  BY AtomicStep
<1>4. TxInv /\ TxInv' /\ IdInv /\ [Next]_vars => IdInv'
  BY IdStep
<1>5. StoreInv /\ StoreInv' /\ IdInv /\ AtomicInv /\ [Next]_vars
        => [Promise!Next]_Promise!catalogVars
  BY CatalogStep DEF IdInv
<1> QED BY <1>2, <1>3, <1>4, <1>5, InvInit, IdInit, CatalogInit, TxInit, TxStep, PTL
        DEF Spec, Promise!Spec, ImplementsCatalog
=============================================================================
