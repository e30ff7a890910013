--------------------------- MODULE Manager_proof ----------------------------
(***************************************************************************)
(* Proofs about the version manager, for any versions, lists, threads,     *)
(* updaters and numbers of checks and restarts.                            *)
(***************************************************************************)
EXTENDS Manager, SequenceTheorems, FiniteSetTheorems, TLAPS

LEMMA FrontOfBoxes ==
    ASSUME NEW S, NEW s \in Seq(S), s # <<>>
    PROVE  /\ Front(s) \in Seq(S)
           /\ Last(s) \in S
           /\ Len(Front(s)) = Len(s) - 1
           /\ \A i \in 1 .. Len(s) - 1 : Front(s)[i] = s[i]
<1>1. Len(s) \in Nat /\ Len(s) # 0
    BY EmptySeq, LenProperties
<1>2. \A i \in 1 .. Len(s) : s[i] \in S
    BY ElementOfSeq
<1>3. Last(s) \in S
    BY <1>1, <1>2 DEF Last
<1>4. PICK n \in Nat : n = Len(s) - 1
    BY <1>1
<1>5. \A i \in 1 .. n : s[i] \in S
    BY <1>1, <1>2, <1>4
<1>6. /\ SubSeq(s, 1, n) \in Seq(S)
      /\ Len(SubSeq(s, 1, n)) = IF 1 <= n THEN n - 1 + 1 ELSE 0
      /\ \A i \in 1 .. n - 1 + 1 : SubSeq(s, 1, n)[i] = s[1 + i - 1]
    BY <1>5, SubSeqProperties
<1>7. /\ Len(SubSeq(s, 1, n)) = n
      /\ \A i \in 1 .. n : SubSeq(s, 1, n)[i] = s[i]
    BY <1>6
<1>. QED BY <1>3, <1>4, <1>6, <1>7 DEF Front

\* A sorted list has the same kind of elements.
LEMMA SortedIsList ==
    ASSUME NEW s \in Seq(Versions), NEW sort, NEW t \in Sortings(s, sort)
    PROVE  t \in Seq(Versions)
<1>1. ToSet(s) \subseteq Versions
    BY DEF ToSet
<1>2. IsFiniteSet(ToSet(s))
  <2>1. s \in Seq(ToSet(s))
    BY DEF ToSet
  <2>2. \A v \in ToSet(s) : \E n \in 1 .. Len(s) : s[n] = v
    BY DEF ToSet
  <2>. QED BY <2>1, <2>2 DEF IsFiniteSet
<1>3. Cardinality(ToSet(s)) \in Nat
    BY <1>2, FS_CardinalityType
<1>4. t \in [1 .. Cardinality(ToSet(s)) -> ToSet(s)]
    BY DEF Sortings, SetToSeqs
<1>. QED BY <1>1, <1>3, <1>4

LEMMA Posted ==
    ASSUME queue \in Seq(Messages), NEW m \in Messages, Post(m)
    PROVE  queue' \in Seq(Messages)
    BY AppendProperties DEF Post

LEMMA Taken ==
    ASSUME queue \in Seq(Messages), NEW m, Take(m)
    PROVE  queue' \in Seq(Messages)
    BY HeadTailProperties DEF Take

\* Every reachable state is well typed; the row that the user has selected is
\* the one with the index that the window keeps.
THEOREM TypeCorrect == Spec => []TypeOK
<1>. USE ManagerAssumption DEF ManagerAssumption
<1>1. Init => TypeOK
  <2>. SUFFICES ASSUME Init PROVE TypeOK
    OBVIOUS
  <2>1. g_sort \in [col : Columns, desc : BOOLEAN]
    BY DEF Init
  <2>2. /\ list \in Seq(Versions) /\ g_versions \in Seq(Versions)
        /\ boxes \in Seq(Versions \cup {None}) /\ queue \in Seq(Messages)
    BY EmptySeq DEF Init
  <2>3. /\ dpc \in [Threads -> DownloadPc] /\ dver \in [Threads -> Versions \cup {None}]
        /\ \A d \in Threads : dpc[d] = "idle"
    BY DEF Init, DownloadPc
  <2>4. /\ upc \in [Updaters -> UpdaterPc] /\ uver \in [Updaters -> Versions \cup {None}]
        /\ \A u \in Updaters : upc[u] = "idle"
    BY DEF Init, UpdaterPc
  <2>5. tmp \in [Versions -> Contents] /\ got \in [Updaters -> Contents]
    BY DEF Init, Contents
  <2>6. /\ marked = None /\ g_selected \in Nat /\ g_dl_file_path = None
        /\ asking \in Nat /\ answering \in Nat /\ restarts \in 0 .. MaxRestarts
    BY DEF Init
  <2>7. /\ download_on \in BOOLEAN /\ refresh_on \in BOOLEAN /\ showsLog \in BOOLEAN
        /\ g_downloading \in BOOLEAN /\ g_updating \in BOOLEAN
    BY DEF Init
  <2>. QED BY <2>1, <2>2, <2>3, <2>4, <2>5, <2>6, <2>7 DEF TypeOK
<1>2. TypeOK /\ [Next]_vars => TypeOK'
  <2>. SUFFICES ASSUME TypeOK, [Next]_vars PROVE TypeOK'
    OBVIOUS
  <2>. USE DEF TypeOK
  <2>1. CASE CheckFails
    BY <2>1 DEF CheckFails, Post, Messages, windowVars, globalVars, downloadVars, updaterVars
  <2>2. CASE CheckAnswers
    BY <2>2 DEF CheckAnswers, windowVars, downloadVars, updaterVars
  <2>3. CASE PostCheckDone
    BY <2>3 DEF PostCheckDone, Post, Messages, windowVars, globalVars, downloadVars, updaterVars
  <2>4. CASE WM_CHECK_ERROR
    BY <2>4, Taken DEF WM_CHECK_ERROR, Take, globalVars, checkVars, downloadVars, updaterVars
  <2>5. CASE WM_CHECK_DONE
    BY <2>5, Taken, SortedIsList DEF WM_CHECK_DONE, Take, checkVars, downloadVars, updaterVars
  <2>6. CASE WM_DOWNLOAD_ERROR
    BY <2>6, Taken DEF WM_DOWNLOAD_ERROR, Take, Buttons, globalVars, checkVars, downloadVars, updaterVars
  <2>7. CASE WM_DOWNLOAD_DONE
    BY <2>7, Taken DEF WM_DOWNLOAD_DONE, Take, globalVars, checkVars, downloadVars, updaterVars
  <2>8. CASE WM_UPDATE_DONE
    BY <2>8, Taken DEF WM_UPDATE_DONE, Take, Buttons, checkVars, downloadVars, updaterVars
  <2>9. CASE CloseError
    BY <2>9, FrontOfBoxes DEF CloseError, CloseBox, checkVars, downloadVars, updaterVars
  <2>10. CASE DoNotInstall
    BY <2>10, FrontOfBoxes DEF DoNotInstall, CloseBox, Buttons, checkVars, downloadVars, updaterVars
  <2>11. CASE Install
    <3>1. boxes' \in Seq(Versions \cup {None}) /\ Last(boxes) \in Versions
      <4>1. boxes \in Seq(Versions \cup {None}) /\ boxes # <<>>
        BY <2>11 DEF Install, CloseBox
      <4>2. Front(boxes) \in Seq(Versions \cup {None}) /\ Last(boxes) \in Versions \cup {None}
        BY <4>1, FrontOfBoxes
      <4>. QED BY <2>11, <4>2 DEF Install, CloseBox
    <3>2. PICK u \in Updaters : /\ upc' = [upc EXCEPT ![u] = "spawned"]
                                /\ uver' = [uver EXCEPT ![u] = Last(boxes)]
      BY <2>11 DEF Install
    <3>3. /\ upc' \in [Updaters -> UpdaterPc] /\ uver' \in [Updaters -> Versions \cup {None}]
          /\ \A w \in Updaters : upc'[w] # "idle" => uver'[w] \in Versions
      BY <3>1, <3>2 DEF UpdaterPc
    <3>. QED BY <2>11, <3>1, <3>3 DEF Install, CloseBox, Buttons, checkVars, downloadVars
  <2>12. CASE InstallFails
    BY <2>12, FrontOfBoxes DEF InstallFails, CloseBox, Buttons, checkVars, downloadVars, updaterVars
  <2>13. ASSUME NEW i \in DOMAIN list, Select(i) PROVE TypeOK'
    BY <2>13 DEF Select, SelectRow, checkVars, downloadVars, updaterVars
  <2>14. ASSUME NEW c \in Columns, Sort(c) PROVE TypeOK'
    BY <2>14, SortedIsList DEF Sort, SortRows, checkVars, downloadVars, updaterVars
  <2>15. CASE do_refresh
    <3>1. list' \in Seq(Versions)
      BY <2>15, EmptySeq DEF do_refresh
    <3>2. asking' \in Nat
      BY <2>15 DEF do_refresh
    <3>3. marked' = None /\ g_selected' \in Nat
      BY <2>15 DEF do_refresh
    <3>. QED BY <2>15, <3>1, <3>2, <3>3 DEF do_refresh, downloadVars, updaterVars
  <2>16. CASE do_download
    <3>1. g_versions[g_selected] \in Versions
      BY <2>16, ElementOfSeq, LenProperties DEF do_download, DownloadFrom
    <3>2. PICK d \in Threads : /\ dpc' = [dpc EXCEPT ![d] = "fopen"]
                               /\ dver' = [dver EXCEPT ![d] = g_versions[g_selected]]
      BY <2>16 DEF do_download, DownloadFrom, DownloadGoto
    <3>3. /\ dpc' \in [Threads -> DownloadPc] /\ dver' \in [Threads -> Versions \cup {None}]
          /\ \A e \in Threads : dpc'[e] # "idle" => dver'[e] \in Versions
      BY <3>1, <3>2 DEF DownloadPc
    <3>. QED BY <2>16, <3>3 DEF do_download, DownloadFrom, checkVars, updaterVars
  <2>17. CASE Restart
    <3>1. /\ list' \in Seq(Versions) /\ g_versions' \in Seq(Versions)
          /\ boxes' \in Seq(Versions \cup {None}) /\ queue' \in Seq(Messages)
      BY <2>17, EmptySeq DEF Restart
    <3>2. g_sort' \in [col : Columns, desc : BOOLEAN]
      BY <2>17 DEF Restart
    <3>3. tmp' \in [Versions -> Contents]
      BY <2>17 DEF Restart, Removed, Contents
    <3>4. /\ upc' \in [Updaters -> UpdaterPc]
          /\ \A u \in Updaters : upc'[u] # "idle" => uver'[u] \in Versions
      BY <2>17 DEF Restart, UpdaterPc
    <3>5. /\ dpc' \in [Threads -> DownloadPc] /\ dver' \in [Threads -> Versions \cup {None}]
          /\ \A d \in Threads : dpc'[d] # "idle" => dver'[d] \in Versions
      BY <2>17 DEF Restart, DownloadPc
    <3>6. restarts' \in 0 .. MaxRestarts
      BY <2>17 DEF Restart
    <3>. QED BY <2>17, <3>1, <3>2, <3>3, <3>4, <3>5, <3>6 DEF Restart
  <2>18. ASSUME NEW d \in Threads, ag_download_update(d) PROVE TypeOK'
    <3>. USE DEF DownloadFrame, DownloadGoto, DownloadPc, Contents, windowVars, checkVars
    <3>1. CASE CreateFile(d)
      BY <3>1 DEF CreateFile, globalVars
    <3>2. CASE CreateFileFails(d)
      BY <3>2 DEF CreateFileFails, Failed
    <3>3. CASE Receive(d)
      BY <3>3 DEF Receive, ReceiveAll, globalVars
    <3>4. CASE ReceiveFails(d)
      BY <3>4 DEF ReceiveFails, Failed, Removed
    <3>5. CASE Verify(d)
      BY <3>5 DEF Verify
    <3>6. CASE VerifyFails(d)
      BY <3>6 DEF VerifyFails, Failed, Removed
    <3>7. CASE PostDownload(d)
      <4>1. queue' \in Seq(Messages)
        BY <3>7, Posted DEF PostDownload, Messages
      <4>. QED BY <3>7, <4>1 DEF PostDownload, globalVars
    <3>. QED BY <2>18, <3>1, <3>2, <3>3, <3>4, <3>5, <3>6, <3>7 DEF ag_download_update
  <2>19. ASSUME NEW u \in Updaters, updater(u) PROVE TypeOK'
    <3>. USE DEF UpdaterFrame, UpdaterPc, Contents, Running, Spawned, windowVars, globalVars, checkVars
    <3>1. CASE OpenZip(u)
      BY <3>1 DEF OpenZip
    <3>2. CASE ZipNotFound(u)
      <4>1. queue' \in Seq(Messages)
        BY <3>2, Posted DEF ZipNotFound, Ends, Messages
      <4>. QED BY <3>2, <4>1 DEF ZipNotFound, Ends
    <3>3. CASE UpdaterEnds(u)
      <4>1. queue' \in Seq(Messages)
        BY <3>3, Posted DEF UpdaterEnds, Ends, Messages
      <4>2. tmp' \in [Versions -> Contents]
        BY <3>3 DEF UpdaterEnds
      <4>. QED BY <3>3, <4>1, <4>2 DEF UpdaterEnds, Ends
    <3>. QED BY <2>19, <3>1, <3>2, <3>3 DEF updater
  <2>20. CASE UNCHANGED vars
    BY <2>20 DEF vars, windowVars, globalVars, checkVars, downloadVars, updaterVars
  <2>. QED BY <2>1, <2>2, <2>3, <2>4, <2>5, <2>6, <2>7, <2>8, <2>9, <2>10, <2>11, <2>12, <2>13,
              <2>14, <2>15, <2>16, <2>17, <2>18, <2>19, <2>20
           DEF Next, check, HandleMessage, Answer, User
<1>. QED BY <1>1, <1>2, PTL DEF Spec

\* Two downloads never run at the same time, for any user: g_downloading is set
\* while one runs, and do_download looks at it.
THEOREM NeverTwoDownloads == Spec => []OneDownload
<1>. DEFINE Runs(d) == dpc[d] \in {"fopen", "receive", "verify"}
            Single == OneDownload /\ \A d \in Threads : Runs(d) => g_downloading
<1>1. Init => Single
    BY DEF Init, OneDownload
<1>2. TypeOK /\ Single /\ [Next]_vars => Single'
  <2>. SUFFICES ASSUME TypeOK, Single, [Next]_vars PROVE Single'
    OBVIOUS
  <2>1. dpc \in [Threads -> DownloadPc]
    BY DEF TypeOK
  <2>2. ASSUME NEW d \in Threads, ag_download_update(d) PROVE Single'
    <3>1. CASE CreateFile(d)
      BY <2>1, <3>1 DEF CreateFile, DownloadGoto, globalVars, OneDownload
    <3>2. CASE CreateFileFails(d)
      BY <2>1, <3>2 DEF CreateFileFails, Failed, DownloadGoto, OneDownload
    <3>3. CASE Receive(d)
      BY <2>1, <3>3 DEF Receive, ReceiveAll, DownloadGoto, globalVars, OneDownload
    <3>4. CASE ReceiveFails(d)
      BY <2>1, <3>4 DEF ReceiveFails, Failed, DownloadGoto, OneDownload
    <3>5. CASE Verify(d)
      BY <2>1, <3>5 DEF Verify, DownloadGoto, OneDownload
    <3>6. CASE VerifyFails(d)
      BY <2>1, <3>6 DEF VerifyFails, Failed, DownloadGoto, OneDownload
    <3>7. CASE PostDownload(d)
      BY <2>1, <3>7 DEF PostDownload, DownloadGoto, globalVars, OneDownload
    <3>. QED BY <2>2, <3>1, <3>2, <3>3, <3>4, <3>5, <3>6, <3>7 DEF ag_download_update
  <2>3. CASE do_download
    BY <2>1, <2>3 DEF do_download, DownloadFrom, DownloadGoto, OneDownload
  <2>4. CASE Restart
    BY <2>4 DEF Restart, OneDownload
  <2>5. ASSUME UNCHANGED <<dpc, g_downloading>> PROVE Single'
    BY <2>5 DEF OneDownload
  <2>6. CASE check
    BY <2>5, <2>6 DEF check, CheckFails, CheckAnswers, PostCheckDone, globalVars, downloadVars
  <2>7. CASE HandleMessage
    BY <2>5, <2>7 DEF HandleMessage, WM_CHECK_ERROR, WM_CHECK_DONE, WM_DOWNLOAD_ERROR,
         WM_DOWNLOAD_DONE, WM_UPDATE_DONE, Take, globalVars, downloadVars
  <2>8. CASE Answer
    BY <2>5, <2>8 DEF Answer, CloseError, DoNotInstall, Install, InstallFails,
         CloseBox, downloadVars
  <2>9. CASE User
    BY <2>3, <2>5, <2>9 DEF User, Select, SelectRow, Sort, SortRows, do_refresh, downloadVars
  <2>10. ASSUME NEW u \in Updaters, updater(u) PROVE Single'
    BY <2>5, <2>10 DEF updater, OpenZip, ZipNotFound, UpdaterEnds, Ends, UpdaterFrame, globalVars
  <2>11. CASE UNCHANGED vars
    BY <2>5, <2>11 DEF vars, globalVars, downloadVars
  <2>. QED BY <2>2, <2>4, <2>6, <2>7, <2>8, <2>9, <2>10, <2>11 DEF Next
<1>3. Single => OneDownload
    OBVIOUS
<1>. QED BY <1>1, <1>2, <1>3, TypeCorrect, PTL DEF Spec

-----------------------------------------------------------------------------
(* A user who waits does one thing at a time: a check, a download or an     *)
(* update, its message, or its box.                                         *)

Downloading == \E d \in Threads : dpc[d] # "idle"
InFlight == asking + answering > 0

OneJob ==
    /\ InFlight => /\ asking + answering = 1
                   /\ ~Downloading /\ ~Updating /\ queue = <<>> /\ boxes = <<>>
    /\ \A d \in Threads : dpc[d] # "idle" =>
           /\ \A e \in Threads \ {d} : dpc[e] = "idle"
           /\ ~Updating /\ queue = <<>> /\ boxes = <<>>
    /\ \A u \in Updaters : upc[u] # "idle" =>
           /\ upc[u] \in {"spawned", "running"}
           /\ \A w \in Updaters \ {u} : upc[w] = "idle"
           /\ queue = <<>> /\ boxes = <<>>
    /\ queue # <<>> => Len(queue) = 1 /\ boxes = <<>>
    /\ boxes # <<>> => Len(boxes) = 1

\* The buttons that could start a second job are off, but for Download, which
\* a selection enables.
ButtonsOff ==
    /\ InFlight \/ Told({"CHECK_ERROR", "CHECK_DONE"})
           => list = <<>> /\ ~download_on /\ g_selected = 0
    /\ Downloading \/ Updating \/ AsksToInstall
           \/ Told({"DOWNLOAD_ERROR", "DOWNLOAD_DONE", "UPDATE_DONE"})
           => ~refresh_on

FlagsTell ==
    /\ \A d \in Threads : dpc[d] \in {"fopen", "receive", "verify"} => g_downloading
    /\ g_updating <=> Updating \/ Told({"UPDATE_DONE"})
    /\ g_updating => showsLog

\* From the comparison of the sha256 to the end of the updater the zip is good.
ZipIsGood ==
    /\ (\E d \in Threads : dpc[d] = "post_done") \/ Told({"DOWNLOAD_DONE"})
           => g_dl_file_path \in Versions /\ tmp[g_dl_file_path] = "good"
    /\ AsksToInstall => tmp[Last(boxes)] = "good"
    /\ \A u \in Updaters : /\ upc[u] = "spawned" => tmp[uver[u]] = "good"
                           /\ upc[u] = "running" => got[u] = "good"

\* The rows are those of g_versions, and the index is that of the selected one.
IndexIsSelected ==
    /\ list # <<>> => list = g_versions
    /\ g_selected # 0 => list # <<>> /\ g_selected \in DOMAIN list /\ marked = list[g_selected]

Inv == OneJob /\ ButtonsOff /\ FlagsTell /\ ZipIsGood /\ IndexIsSelected

\* The queue and the boxes hold at most one element.
LEMMA PostFirst ==
    ASSUME queue = <<>>, NEW m, Post(m)
    PROVE  queue' # <<>> /\ Len(queue') = 1 /\ Head(queue') = m
    BY DEF Post

LEMMA TakeOnly ==
    ASSUME TypeOK, OneJob, NEW m, Take(m)
    PROVE  queue # <<>> /\ Head(queue) = m /\ queue' = <<>> /\ boxes = <<>>
<1>1. queue \in Seq(Messages) /\ Len(queue) = 1 /\ queue # <<>>
    BY DEF TypeOK, OneJob, Take
<1>2. Tail(queue) \in Seq(Messages) /\ Len(Tail(queue)) = 0
    BY <1>1, HeadTailProperties
<1>3. Tail(queue) = <<>>
    BY <1>2, EmptySeq
<1>. QED BY <1>1, <1>3 DEF Take, OneJob

LEMMA OpenFirst ==
    ASSUME boxes = <<>>, NEW b, boxes' = Append(boxes, b)
    PROVE  boxes' # <<>> /\ Len(boxes') = 1 /\ Last(boxes') = b
    BY DEF Last

LEMMA CloseOnly ==
    ASSUME TypeOK, OneJob, CloseBox
    PROVE  boxes # <<>> /\ boxes' = <<>> /\ queue = <<>> /\ queue' = <<>>
<1>1. boxes \in Seq(Versions \cup {None}) /\ Len(boxes) = 1 /\ boxes # <<>>
    BY DEF TypeOK, OneJob, CloseBox
<1>2. Front(boxes) \in Seq(Versions \cup {None}) /\ Len(Front(boxes)) = 0
    BY <1>1, FrontOfBoxes
<1>3. Front(boxes) = <<>>
    BY <1>2, EmptySeq
<1>. QED BY <1>1, <1>3 DEF CloseBox

LEMMA InitInv == Init => Inv
    BY EmptySeq DEF Init, Inv, OneJob, ButtonsOff, FlagsTell, ZipIsGood, IndexIsSelected,
       Downloading, Updating, InFlight, Told, AsksToInstall

\* The checks.
LEMMA CheckKeepsInv ==
    ASSUME ManagerAssumption, TypeOK, Inv, check
    PROVE  Inv'
<1>. USE DEF Inv, OneJob, ButtonsOff, FlagsTell, ZipIsGood, IndexIsSelected,
             Downloading, Updating, InFlight, Told, AsksToInstall
<1>1. asking \in Nat /\ answering \in Nat
    BY DEF TypeOK
<1>2. CASE CheckFails
    BY <1>1, <1>2, PostFirst
    DEF CheckFails, windowVars, globalVars, downloadVars, updaterVars
<1>3. CASE CheckAnswers
    BY <1>1, <1>3 DEF CheckAnswers, windowVars, downloadVars, updaterVars
<1>4. CASE PostCheckDone
    BY <1>1, <1>4, PostFirst
    DEF PostCheckDone, windowVars, globalVars, downloadVars, updaterVars
<1>. QED BY <1>2, <1>3, <1>4 DEF check

\* The window's messages.
LEMMA MessagesKeepInv ==
    ASSUME ManagerAssumption, TypeOK, Inv, HandleMessage
    PROVE  Inv'
<1>. USE DEF Inv, OneJob, ButtonsOff, FlagsTell, ZipIsGood, IndexIsSelected,
             Downloading, Updating, InFlight, Told, AsksToInstall
<1>1. CASE WM_CHECK_ERROR
    BY <1>1, TakeOnly DEF WM_CHECK_ERROR, Take, globalVars, checkVars, downloadVars, updaterVars
<1>2. CASE WM_CHECK_DONE
    BY <1>2, TakeOnly DEF WM_CHECK_DONE, Take, checkVars, downloadVars, updaterVars
<1>3. CASE WM_DOWNLOAD_ERROR
    BY <1>3, TakeOnly, OpenFirst
    DEF WM_DOWNLOAD_ERROR, Take, Buttons, globalVars, checkVars, downloadVars, updaterVars
<1>4. CASE WM_DOWNLOAD_DONE
    BY <1>4, TakeOnly, OpenFirst
    DEF WM_DOWNLOAD_DONE, Take, globalVars, checkVars, downloadVars, updaterVars
<1>5. CASE WM_UPDATE_DONE
    BY <1>5, TakeOnly DEF WM_UPDATE_DONE, Take, Buttons, checkVars, downloadVars, updaterVars
<1>. QED BY <1>1, <1>2, <1>3, <1>4, <1>5 DEF HandleMessage

\* The answers to the message boxes.
LEMMA AnswersKeepInv ==
    ASSUME ManagerAssumption, TypeOK, Inv, Answer
    PROVE  Inv'
<1>. USE DEF Inv, OneJob, ButtonsOff, FlagsTell, ZipIsGood, IndexIsSelected,
             Downloading, Updating, InFlight, Told, AsksToInstall
<1>1. CASE CloseError
    BY <1>1, CloseOnly DEF CloseError, CloseBox, checkVars, downloadVars, updaterVars
<1>2. CASE DoNotInstall
    BY <1>2, CloseOnly DEF DoNotInstall, CloseBox, Buttons, checkVars, downloadVars, updaterVars
<1>3. CASE Install
  <2>1. /\ boxes # <<>> /\ boxes' = <<>> /\ queue = <<>> /\ queue' = <<>>
        /\ ~InFlight /\ ~Downloading /\ ~Updating /\ Last(boxes) # None
    BY <1>3, CloseOnly DEF Install, CloseBox
  <2>2. PICK u \in Updaters : /\ upc' = [upc EXCEPT ![u] = "spawned"]
                              /\ uver' = [uver EXCEPT ![u] = Last(boxes)]
    BY <1>3 DEF Install
  <2>3. /\ upc'[u] = "spawned" /\ uver'[u] = Last(boxes)
        /\ \A w \in Updaters \ {u} : upc'[w] = "idle"
    BY <2>1, <2>2 DEF TypeOK
  <2>4. UNCHANGED <<list, marked, g_versions, g_selected, g_dl_file_path, dpc, dver, tmp,
                    asking, answering>>
    BY <1>3 DEF Install, CloseBox, checkVars, downloadVars
  <2>5. OneJob'
    BY <2>1, <2>3, <2>4
  <2>6. ButtonsOff'
    BY <1>3, <2>1, <2>4 DEF Install, Buttons
  <2>7. FlagsTell'
    BY <1>3, <2>1, <2>3, <2>4 DEF Install
  <2>8. ZipIsGood'
    BY <2>1, <2>3, <2>4
  <2>9. IndexIsSelected'
    BY <2>4
  <2>. QED BY <2>5, <2>6, <2>7, <2>8, <2>9
<1>4. CASE InstallFails
    BY <1>4, CloseOnly DEF InstallFails, CloseBox, Buttons, checkVars, downloadVars, updaterVars
<1>. QED BY <1>1, <1>2, <1>3, <1>4 DEF Answer

\* A user who waits starts a download only when none is under way and no updater.
LEMMA NothingRuns ==
    ASSUME Haste = {}, TypeOK, Inv, do_download
    PROVE  ~Downloading /\ ~Updating
<1>1. ~g_downloading /\ ~g_updating /\ Announced
    BY DEF do_download, DownloadFrom, Hurry
<1>2. ~Updating
    BY <1>1 DEF Inv, FlagsTell
<1>3. \A d \in Threads : dpc[d] \notin {"fopen", "receive", "verify"}
    BY <1>1 DEF Inv, FlagsTell
<1>. QED BY <1>1, <1>2, <1>3 DEF Announced, TypeOK, DownloadPc, Downloading

\* What a user who waits does with the window.
LEMMA UserKeepsInv ==
    ASSUME ManagerAssumption, Haste = {}, TypeOK, Inv, User
    PROVE  Inv'
<1>. USE DEF Inv, OneJob, ButtonsOff, FlagsTell, ZipIsGood, IndexIsSelected,
             Downloading, Updating, InFlight, Told, AsksToInstall, Input, Hurry
<1>1. ASSUME NEW i \in DOMAIN list, Select(i) PROVE Inv'
  <2>1. queue = <<>> /\ boxes = <<>> /\ list # <<>> /\ ~InFlight
    BY <1>1 DEF Select, SelectRow
  <2>2. g_updating' => showsLog'
    BY <1>1 DEF Select, SelectRow
  <2>3. g_selected' # 0 => list' # <<>> /\ g_selected' \in DOMAIN list' /\ marked' = list'[g_selected']
    BY <1>1, <2>1 DEF Select, SelectRow
  <2>4. OneJob' /\ ButtonsOff' /\ ZipIsGood'
    BY <1>1, <2>1 DEF Select, SelectRow, checkVars, downloadVars, updaterVars
  <2>5. FlagsTell'
    BY <1>1, <2>2 DEF Select, SelectRow, checkVars, downloadVars, updaterVars
  <2>6. IndexIsSelected'
    BY <1>1, <2>3 DEF Select, SelectRow
  <2>. QED BY <2>4, <2>5, <2>6
<1>2. ASSUME NEW c \in Columns, Sort(c) PROVE Inv'
    BY <1>2 DEF Sort, SortRows, checkVars, downloadVars, updaterVars
<1>3. CASE do_refresh
  <2>1. queue = <<>> /\ boxes = <<>> /\ ~InFlight /\ ~Downloading /\ ~Updating
    BY <1>3 DEF do_refresh
  <2>2. asking' + answering' = 1
    BY <1>3, <2>1 DEF do_refresh, TypeOK
  <2>. QED BY <1>3, <2>1, <2>2 DEF do_refresh, downloadVars, updaterVars
<1>4. CASE do_download
  <2>1. queue = <<>> /\ boxes = <<>> /\ ~InFlight /\ ~Downloading /\ ~Updating
    BY <1>4, NothingRuns DEF do_download, DownloadFrom
  <2>2. PICK d \in Threads : dpc' = [dpc EXCEPT ![d] = "fopen"]
    BY <1>4 DEF do_download, DownloadFrom, DownloadGoto
  <2>3. dpc'[d] = "fopen" /\ \A e \in Threads \ {d} : dpc'[e] = "idle"
    BY <2>1, <2>2 DEF TypeOK
  <2>4. g_downloading' /\ ~refresh_on'
    BY <1>4 DEF do_download, DownloadFrom
  <2>5. UNCHANGED <<list, marked, showsLog, boxes, queue, g_versions, g_selected, g_updating,
                    g_dl_file_path, asking, answering, tmp, upc, uver, got>>
    BY <1>4 DEF do_download, DownloadFrom, checkVars, updaterVars
  <2>6. OneJob'
    BY <2>1, <2>3, <2>5
  <2>7. ButtonsOff' /\ ZipIsGood' /\ IndexIsSelected'
    BY <2>1, <2>3, <2>4, <2>5
  <2>8. FlagsTell'
    BY <2>1, <2>4, <2>5
  <2>. QED BY <2>6, <2>7, <2>8
<1>. QED BY <1>1, <1>2, <1>3, <1>4 DEF User

LEMMA RestartKeepsInv ==
    ASSUME ManagerAssumption, Haste = {}, TypeOK, Inv, Restart
    PROVE  Inv'
<1>1. \A u \in Updaters : upc[u] = "idle"
    BY DEF Restart, Hurry
<1>2. \A u \in Updaters : upc'[u] = "idle"
    BY <1>1 DEF Restart
<1>3. \A d \in Threads : dpc'[d] = "idle"
    BY DEF Restart
<1>4. asking' + answering' = 1
    BY DEF Restart
<1>. QED BY <1>2, <1>3, <1>4
         DEF Restart, Inv, OneJob, ButtonsOff, FlagsTell, ZipIsGood, IndexIsSelected,
             Downloading, Updating, InFlight, Told, AsksToInstall

\* The downloads.
LEMMA DownloadKeepsInv ==
    ASSUME ManagerAssumption, TypeOK, Inv, NEW d \in Threads, ag_download_update(d)
    PROVE  Inv'
<1>. USE DEF Inv, OneJob, ButtonsOff, FlagsTell, ZipIsGood, IndexIsSelected,
             Downloading, Updating, InFlight, Told, AsksToInstall,
             DownloadFrame, DownloadGoto, windowVars, checkVars
<1>1. dpc \in [Threads -> DownloadPc] /\ (dpc[d] # "idle" => dver[d] \in Versions)
      /\ tmp \in [Versions -> Contents]
    BY DEF TypeOK
<1>2. /\ dpc[d] # "idle" /\ dver[d] \in Versions
      /\ \A e \in Threads \ {d} : dpc[e] = "idle"
    BY <1>1 DEF ag_download_update, CreateFile, CreateFileFails, Receive, ReceiveAll, ReceiveFails, Verify,
                VerifyFails, PostDownload
<1>3. queue = <<>> /\ boxes = <<>> /\ ~InFlight /\ ~Updating /\ ~g_updating
      /\ ~refresh_on
    BY <1>2
<1>4. ASSUME NEW l, dpc' = [dpc EXCEPT ![d] = l]
      PROVE  dpc'[d] = l /\ \A e \in Threads \ {d} : dpc'[e] = "idle"
    BY <1>1, <1>2, <1>4
<1>5. CASE CreateFile(d)
    BY <1>2, <1>3, <1>4, <1>5 DEF CreateFile, globalVars
<1>6. CASE Receive(d)
    BY <1>2, <1>3, <1>4, <1>6 DEF Receive, ReceiveAll, globalVars
<1>7. ASSUME Failed(d), UNCHANGED queue, DownloadFrame
      PROVE  Inv'
  <2>1. dpc'[d] = "post_error" /\ \A e \in Threads \ {d} : dpc'[e] = "idle"
    BY <1>7, <1>4 DEF Failed
  <2>2. queue' = <<>> /\ boxes' = <<>> /\ ~InFlight' /\ ~Updating'
    BY <1>3, <1>7
  <2>3. OneJob'
    BY <2>1, <2>2
  <2>4. ButtonsOff'
    BY <1>3, <1>7, <2>2
  <2>5. FlagsTell'
    BY <1>3, <1>7, <2>1, <2>2 DEF Failed
  <2>6. ZipIsGood'
    BY <2>1, <2>2
  <2>7. IndexIsSelected'
    BY <1>7 DEF Failed
  <2>. QED BY <2>3, <2>4, <2>5, <2>6, <2>7
<1>8. CASE Verify(d)
  <2>1. dpc'[d] = "post_done" /\ \A e \in Threads \ {d} : dpc'[e] = "idle"
    BY <1>8, <1>4 DEF Verify
  <2>2. queue' = <<>> /\ boxes' = <<>> /\ ~InFlight' /\ ~Updating'
    BY <1>3, <1>8 DEF Verify
  <2>3. OneJob'
    BY <2>1, <2>2
  <2>4. ButtonsOff'
    BY <1>3, <1>8, <2>2 DEF Verify
  <2>5. FlagsTell'
    BY <1>3, <1>8, <2>1, <2>2 DEF Verify
  <2>6. ZipIsGood'
    BY <1>2, <1>8, <2>2 DEF Verify
  <2>7. IndexIsSelected'
    BY <1>8 DEF Verify
  <2>. QED BY <2>3, <2>4, <2>5, <2>6, <2>7
<1>9. CASE PostDownload(d)
  <2>1. \A e \in Threads : dpc'[e] = "idle"
    BY <1>9, <1>1, <1>2 DEF PostDownload
  <2>2. PICK m \in {"DOWNLOAD_DONE", "DOWNLOAD_ERROR"} :
            Post(m) /\ (m = "DOWNLOAD_DONE" => dpc[d] = "post_done")
    BY <1>9 DEF PostDownload
  <2>3. queue' # <<>> /\ Len(queue') = 1 /\ Head(queue') = m
    BY <1>3, <2>2, PostFirst
  <2>4. boxes' = <<>> /\ ~InFlight' /\ ~Updating'
    BY <1>3, <1>9 DEF PostDownload
  <2>5. OneJob'
    BY <2>1, <2>3, <2>4
  <2>6. ButtonsOff'
    BY <1>3, <1>9, <2>2, <2>3, <2>4 DEF PostDownload
  <2>7. FlagsTell'
    BY <1>3, <1>9, <2>1, <2>2, <2>3, <2>4 DEF PostDownload, globalVars
  <2>8. ZipIsGood'
    BY <1>9, <2>1, <2>2, <2>3, <2>4 DEF PostDownload, globalVars
  <2>9. IndexIsSelected'
    BY <1>9 DEF PostDownload, globalVars
  <2>. QED BY <2>5, <2>6, <2>7, <2>8, <2>9
<1>. QED BY <1>5, <1>6, <1>7, <1>8, <1>9
         DEF ag_download_update, CreateFileFails, ReceiveFails, VerifyFails

\* The updaters.
LEMMA UpdaterKeepsInv ==
    ASSUME ManagerAssumption, TypeOK, Inv, NEW u \in Updaters, updater(u)
    PROVE  Inv'
<1>. USE DEF Inv, OneJob, ButtonsOff, FlagsTell, ZipIsGood, IndexIsSelected,
             Downloading, Updating, InFlight, Told, AsksToInstall,
             UpdaterFrame, Running, Spawned, windowVars, globalVars, checkVars
<1>1. /\ upc \in [Updaters -> UpdaterPc] /\ uver[u] \in Versions \cup {None}
      /\ got \in [Updaters -> Contents]
    BY DEF TypeOK
<1>2. CASE OpenZip(u)
    BY <1>1, <1>2 DEF OpenZip
<1>3. CASE ZipNotFound(u)
    BY <1>1, <1>3, PostFirst DEF ZipNotFound, Ends
<1>4. CASE UpdaterEnds(u)
    BY <1>1, <1>4, PostFirst DEF UpdaterEnds, Ends
<1>. QED BY <1>2, <1>3, <1>4 DEF updater

THEOREM InvHolds == ASSUME Haste = {} PROVE Spec => []Inv
<1>1. TypeOK /\ Inv /\ [Next]_vars => Inv'
  <2>. SUFFICES ASSUME TypeOK, Inv, [Next]_vars PROVE Inv'
    OBVIOUS
  <2>1. CASE UNCHANGED vars
    BY <2>1 DEF vars, windowVars, globalVars, checkVars, downloadVars, updaterVars, Inv, OneJob,
        ButtonsOff, FlagsTell, ZipIsGood, IndexIsSelected, Downloading, Updating, InFlight, Told,
        AsksToInstall
  <2>. QED BY <2>1, ManagerAssumption, CheckKeepsInv, MessagesKeepInv, AnswersKeepInv, UserKeepsInv,
              RestartKeepsInv, DownloadKeepsInv, UpdaterKeepsInv DEF Next
<1>. QED BY <1>1, InitInv, TypeCorrect, PTL DEF Spec

\* For a user who waits, an updater reads only a package whose sha256 the library
\* has compared: nothing writes into the zip between the comparison and the end.
THEOREM VerifiedIsInstalled == ASSUME Haste = {} PROVE Spec => []InstalledIsVerified
<1>1. TypeOK /\ Inv => InstalledIsVerified
    BY DEF TypeOK, UpdaterPc, Inv, OneJob, ZipIsGood, InstalledIsVerified, Running
<1>. QED BY <1>1, InvHolds, TypeCorrect, PTL

\* For a user who waits, the log of an update stays on the screen until it ends,
\* whichever rows are selected meanwhile: update_detail looks at g_updating.
THEOREM LogIsKept == ASSUME Haste = {} PROVE Spec => []LogStays
<1>1. Inv => LogStays
    BY DEF Inv, FlagsTell, LogStays
<1>. QED BY <1>1, InvHolds, PTL

\* For a user who waits, g_updating is what its comment says: true while an
\* updater runs.
THEOREM FlagIsRight == ASSUME Haste = {} PROVE Spec => []UpdatingWhileItRuns
<1>1. Inv => UpdatingWhileItRuns
    BY DEF Inv, FlagsTell, Updating, UpdatingWhileItRuns
<1>. QED BY <1>1, InvHolds, PTL

\* For a user who waits, the version that is downloaded is the one selected.
THEOREM SelectedIsDownloaded == ASSUME Haste = {} PROVE Spec => DownloadsTheSelected
<1>1. TypeOK /\ Inv /\ [Next]_vars
        => [\A d \in Threads : dpc[d] = "idle" /\ dpc'[d] = "fopen" => dver'[d] = marked]_vars
  <2>. SUFFICES ASSUME TypeOK, Inv, Next,
                       NEW d \in Threads, dpc[d] = "idle", dpc'[d] = "fopen"
                PROVE  dver'[d] = marked
    OBVIOUS
  <2>1. do_download
    BY DEF TypeOK, Next, check, CheckFails, CheckAnswers, PostCheckDone, HandleMessage,
       WM_CHECK_ERROR, WM_CHECK_DONE, WM_DOWNLOAD_ERROR, WM_DOWNLOAD_DONE, WM_UPDATE_DONE, Take,
       Answer, CloseError, DoNotInstall, Install, InstallFails, CloseBox, User,
       Select, SelectRow, Sort, SortRows, do_refresh, Restart, ag_download_update, CreateFile,
       CreateFileFails, Receive, ReceiveAll, ReceiveFails, Verify, VerifyFails, PostDownload, DownloadGoto,
       Failed, updater, OpenZip, ZipNotFound, UpdaterEnds, Ends, UpdaterFrame, downloadVars
  <2>2. marked = g_versions[g_selected]
    <3>1. g_selected # 0
      BY <2>1, LenProperties DEF do_download, DownloadFrom, TypeOK
    <3>. QED BY <3>1 DEF Inv, IndexIsSelected
  <2>3. dver'[d] = g_versions[g_selected]
    BY <2>1 DEF TypeOK, do_download, DownloadFrom, DownloadGoto
  <2>. QED BY <2>2, <2>3
<1>. QED BY <1>1, InvHolds, TypeCorrect, PTL DEF Spec, DownloadsTheSelected

-----------------------------------------------------------------------------
(* The manager implements UpdateCycle for a user who waits.                 *)

\* The Refresh button is off only while a job is going to turn it on.
ButtonsOn ==
    ~refresh_on => Downloading \/ Updating \/ AsksToInstall
                   \/ Told({"DOWNLOAD_ERROR", "DOWNLOAD_DONE", "UPDATE_DONE"})

LEMMA ButtonsOnStep ==
    ASSUME Haste = {}, TypeOK, Inv, ButtonsOn, [Next]_vars
    PROVE  ButtonsOn'
<1>. USE DEF ButtonsOn, Downloading, Updating, Told, AsksToInstall
<1>1. OneJob /\ ButtonsOff
    BY DEF Inv
<1>2. ASSUME UNCHANGED <<refresh_on, dpc, upc, boxes, queue>> PROVE ButtonsOn'
    BY <1>2
<1>3. ASSUME refresh_on' PROVE ButtonsOn'
    BY <1>3
<1>4. ASSUME check PROVE ButtonsOn'
  <2>1. InFlight
    BY <1>4 DEF check, CheckFails, CheckAnswers, PostCheckDone, InFlight, TypeOK
  <2>2. refresh_on
    BY <1>1, <2>1 DEF OneJob
  <2>. QED BY <1>3, <1>4, <2>2 DEF check, CheckFails, CheckAnswers, PostCheckDone, windowVars
<1>5. ASSUME HandleMessage PROVE ButtonsOn'
  <2>1. ASSUME Take("CHECK_ERROR") \/ Take("CHECK_DONE") PROVE refresh_on
    BY <1>1, <2>1 DEF OneJob, Take
  <2>2. CASE WM_CHECK_ERROR \/ WM_CHECK_DONE
    BY <1>3, <2>1, <2>2 DEF WM_CHECK_ERROR, WM_CHECK_DONE
  <2>3. CASE WM_DOWNLOAD_ERROR \/ WM_UPDATE_DONE
    BY <1>3, <2>3 DEF WM_DOWNLOAD_ERROR, WM_UPDATE_DONE, Buttons
  <2>4. CASE WM_DOWNLOAD_DONE
    <3>1. boxes = <<>> /\ queue # <<>> /\ Head(queue) = "DOWNLOAD_DONE"
      BY <1>1, <2>4, TakeOnly DEF WM_DOWNLOAD_DONE
    <3>2. g_dl_file_path # None
      BY <3>1, ManagerAssumption DEF Inv, ZipIsGood, ManagerAssumption
    <3>3. AsksToInstall'
      BY <2>4, <3>1, <3>2, OpenFirst DEF WM_DOWNLOAD_DONE
    <3>. QED BY <3>3
  <2>. QED BY <1>5, <2>2, <2>3, <2>4 DEF HandleMessage
<1>6. ASSUME Answer PROVE ButtonsOn'
  <2>1. CASE CloseError
    <3>1. boxes # <<>> /\ Last(boxes) = None
      BY <2>1 DEF CloseError, CloseBox
    <3>2. refresh_on
      BY <1>1, <3>1 DEF OneJob, CloseError, CloseBox
    <3>. QED BY <1>3, <2>1, <3>2 DEF CloseError
  <2>2. CASE DoNotInstall \/ InstallFails
    BY <1>3, <2>2 DEF DoNotInstall, InstallFails, Buttons
  <2>3. CASE Install
    <3>1. PICK u \in Updaters : upc' = [upc EXCEPT ![u] = "spawned"]
      BY <2>3 DEF Install
    <3>2. upc'[u] = "spawned"
      BY <3>1 DEF TypeOK
    <3>. QED BY <3>2
  <2>. QED BY <1>6, <2>1, <2>2, <2>3 DEF Answer
<1>7. ASSUME User PROVE ButtonsOn'
  <2>1. CASE do_download
    <3>1. PICK d \in Threads : dpc' = [dpc EXCEPT ![d] = "fopen"]
      BY <2>1 DEF do_download, DownloadFrom, DownloadGoto
    <3>2. dpc'[d] = "fopen"
      BY <3>1 DEF TypeOK
    <3>. QED BY <3>2
  <2>. QED BY <1>2, <1>7, <2>1 DEF User, Select, SelectRow, Sort, SortRows, do_refresh,
              downloadVars, updaterVars
<1>8. ASSUME NEW d \in Threads, ag_download_update(d) PROVE ButtonsOn'
  <2>1. dpc \in [Threads -> DownloadPc]
    BY DEF TypeOK
  <2>2. CASE PostDownload(d)
    <3>1. queue = <<>>
      BY <1>1, <2>2 DEF OneJob, PostDownload
    <3>2. Told({"DOWNLOAD_ERROR", "DOWNLOAD_DONE", "UPDATE_DONE"})'
      BY <2>2, <3>1, PostFirst DEF PostDownload
    <3>. QED BY <3>2
  <2>. QED BY <1>8, <2>1, <2>2 DEF ag_download_update, CreateFile, CreateFileFails, Receive,
              ReceiveAll, ReceiveFails, Verify, VerifyFails, Failed, DownloadGoto
<1>9. ASSUME NEW u \in Updaters, updater(u) PROVE ButtonsOn'
  <2>1. upc \in [Updaters -> UpdaterPc]
    BY DEF TypeOK
  <2>2. CASE OpenZip(u)
    BY <2>1, <2>2 DEF OpenZip
  <2>3. ASSUME Ends(u), upc[u] # "idle" PROVE ButtonsOn'
    <3>1. queue = <<>> /\ upc[u] \in {"spawned", "running"}
      BY <1>1, <2>3 DEF OneJob
    <3>2. Told({"DOWNLOAD_ERROR", "DOWNLOAD_DONE", "UPDATE_DONE"})'
      BY <2>3, <3>1, PostFirst DEF Ends
    <3>. QED BY <3>2
  <2>. QED BY <1>9, <2>2, <2>3 DEF updater, ZipNotFound, UpdaterEnds, Running, Spawned
<1>10. ASSUME Restart PROVE refresh_on'
    BY <1>10 DEF Restart
<1>. QED BY <1>2, <1>3, <1>4, <1>5, <1>6, <1>7, <1>8, <1>9, <1>10
         DEF Next, vars, windowVars, downloadVars, updaterVars

\* For a user who waits, the Refresh button is on unless a download or an update
\* is under way, or its message or its box still waits for the window
\* (manager_main.cpp:439-480, 495-503, 660-661): no path forgets to enable it.
THEOREM ButtonsAreBack == ASSUME Haste = {} PROVE Spec => []ButtonsOn
<1>1. Init => ButtonsOn
    BY DEF Init, ButtonsOn
<1>2. TypeOK /\ Inv /\ ButtonsOn /\ [Next]_vars => ButtonsOn'
    BY ButtonsOnStep
<1>. QED BY <1>1, <1>2, InvHolds, TypeCorrect, PTL DEF Spec


\* What UpdateCycle sees of the manager.
View ==
    /\ \A d \in Threads : dpc[d] \in {"fopen", "receive", "verify"} =>
            Stage = "fetching" /\ Target = dver[d] /\ Package = tmp[dver[d]]
    /\ Offered => /\ Stage = "offered" /\ Target \in Versions /\ Package = tmp[Target]
                  /\ Target = IF AsksToInstall THEN Last(boxes) ELSE g_dl_file_path
    /\ \A u \in Updaters : upc[u] # "idle" =>
            /\ Stage = "applying" /\ Target = uver[u]
            /\ Package = IF Running(u) THEN got[u] ELSE tmp[uver[u]]
    /\ ~Fetching /\ ~Offered /\ ~Updating =>
            /\ Stage = IF refresh_on THEN "idle" ELSE "over"
            /\ Target = None /\ Package = None

\* Under OneJob there is nothing to choose from.
LEMMA ViewHolds == TypeOK /\ Inv => View
<1>. SUFFICES ASSUME TypeOK, Inv PROVE View
    OBVIOUS
<1>. USE ManagerAssumption DEF ManagerAssumption
<1>1. OneJob
    BY DEF Inv
<1>2. /\ \A d \in Threads : dpc[d] # "idle" => dver[d] \in Versions
      /\ \A u \in Updaters : upc[u] # "idle" => uver[u] \in Versions
    BY DEF TypeOK
<1>3. ASSUME NEW d \in Threads, dpc[d] \in {"fopen", "receive", "verify"}
      PROVE  Stage = "fetching" /\ Target = dver[d] /\ Package = tmp[dver[d]]
  <2>0. Fetching
    BY <1>3 DEF Fetching
  <2>1. Stage = "fetching"
    BY <2>0 DEF Stage
  <2>2. (CHOOSE e \in Threads : dpc[e] # "idle") = d
    BY <1>1, <1>3 DEF OneJob
  <2>3. Target = dver[d]
    BY <2>1, <2>2 DEF Target
  <2>4. ~\E u \in Updaters : Running(u)
    BY <1>1, <1>3 DEF OneJob, Updating, Running
  <2>5. Target # None
    BY <1>2, <1>3, <2>3
  <2>6. Package = tmp[dver[d]]
    BY <2>3, <2>4, <2>5 DEF Package
  <2>. QED BY <2>1, <2>3, <2>6
<1>4. ASSUME Offered
      PROVE  /\ Stage = "offered" /\ Target \in Versions /\ Package = tmp[Target]
             /\ Target = IF AsksToInstall THEN Last(boxes) ELSE g_dl_file_path
  <2>1. ~Fetching /\ ~Updating
    BY <1>1, <1>4 DEF OneJob, Offered, Fetching, Updating, Told, AsksToInstall
  <2>2. Stage = "offered"
    BY <1>4, <2>1 DEF Stage
  <2>3. Target = IF AsksToInstall THEN Last(boxes) ELSE g_dl_file_path
    BY <2>2 DEF Target
  <2>4. Target \in Versions
    <3>1. CASE AsksToInstall
      <4>1. boxes \in Seq(Versions \cup {None}) /\ boxes # <<>>
        BY <3>1 DEF TypeOK, AsksToInstall
      <4>2. Last(boxes) \in Versions \cup {None}
        BY <4>1, FrontOfBoxes
      <4>. QED BY <2>3, <3>1, <4>2 DEF AsksToInstall
    <3>2. CASE ~AsksToInstall
      BY <1>4, <2>3, <3>2 DEF Offered, Inv, ZipIsGood
    <3>. QED BY <3>1, <3>2
  <2>5. ~\E u \in Updaters : Running(u)
    BY <2>1 DEF Updating, Running
  <2>6. Package = tmp[Target]
    BY <2>4, <2>5 DEF Package
  <2>. QED BY <2>2, <2>3, <2>4, <2>6
<1>5. ASSUME NEW u \in Updaters, upc[u] # "idle"
      PROVE  /\ Stage = "applying" /\ Target = uver[u]
             /\ Package = IF Running(u) THEN got[u] ELSE tmp[uver[u]]
  <2>1. ~Fetching /\ ~Offered
    BY <1>1, <1>5 DEF OneJob, Offered, Fetching, Updating, Told, AsksToInstall
  <2>2. Stage = "applying"
    BY <1>5, <2>1 DEF Stage, Updating
  <2>3. /\ (CHOOSE w \in Updaters : upc[w] # "idle") = u
        /\ \A w \in Updaters : Running(w) => w = u
    BY <1>1, <1>5 DEF OneJob, Running
  <2>4. Target = uver[u]
    BY <2>2, <2>3 DEF Target
  <2>0. Target # None
    BY <1>2, <1>5, <2>4
  <2>5. CASE Running(u)
    <3>1. (CHOOSE w \in Updaters : Running(w)) = u /\ \E w \in Updaters : Running(w)
      BY <2>3, <2>5
    <3>2. Package = got[u]
      BY <2>0, <3>1 DEF Package
    <3>. QED BY <2>2, <2>4, <2>5, <3>2
  <2>6. CASE ~Running(u)
    <3>1. ~\E w \in Updaters : Running(w)
      BY <2>3, <2>6
    <3>2. Package = tmp[uver[u]]
      BY <2>0, <2>4, <3>1 DEF Package
    <3>. QED BY <2>2, <2>4, <2>6, <3>2
  <2>. QED BY <2>5, <2>6
<1>6. ASSUME ~Fetching, ~Offered, ~Updating
      PROVE  /\ Stage = IF refresh_on THEN "idle" ELSE "over"
             /\ Target = None /\ Package = None
  <2>1. Stage = IF refresh_on THEN "idle" ELSE "over"
    BY <1>6 DEF Stage
  <2>2. Target = None
    BY <2>1 DEF Target
  <2>. QED BY <2>1, <2>2 DEF Package
<1>. QED BY <1>3, <1>4, <1>5, <1>6 DEF View

-----------------------------------------------------------------------------
(* The steps of UpdateCycle that the steps of the manager are.              *)

Quiet == ~Fetching /\ ~Offered /\ ~Updating

\* Nothing of an update is under way while a check is, or its message.
LEMMA CheckIsQuiet ==
    ASSUME TypeOK, Inv, check
    PROVE  Quiet /\ Quiet' /\ UNCHANGED <<refresh_on, marked>>
<1>1. InFlight
    BY DEF check, CheckFails, CheckAnswers, PostCheckDone, InFlight, TypeOK
<1>2. ~Downloading /\ ~Updating /\ queue = <<>> /\ boxes = <<>>
    BY <1>1 DEF Inv, OneJob
<1>3. UNCHANGED <<dpc, upc, boxes, refresh_on, marked>>
    BY DEF check, CheckFails, CheckAnswers, PostCheckDone, windowVars, downloadVars, updaterVars
<1>4. ~Told({"DOWNLOAD_DONE"})'
    BY <1>2, PostFirst DEF check, CheckFails, CheckAnswers, PostCheckDone, Told
<1>. QED BY <1>2, <1>3, <1>4 DEF Quiet, Fetching, Offered, Updating, Downloading, Told, AsksToInstall

LEMMA Stays ==
    ASSUME View, View', Quiet, Quiet', UNCHANGED <<refresh_on, marked>>
    PROVE  UNCHANGED Cycle!cycleVars
    BY DEF View, Quiet, Cycle!cycleVars

LEMMA Settles ==
    ASSUME View', Quiet', refresh_on', marked' = marked, Stage \in {"offered", "over"}
    PROVE  Cycle!Settle
    BY DEF View, Quiet, Cycle!Settle, Cycle!Nothing

LEMMA Ended ==
    ASSUME View', Quiet', ~refresh_on', marked' = marked, Stage \in {"fetching", "applying"}
    PROVE  Cycle!End
    BY DEF View, Quiet, Cycle!End, Cycle!Nothing

LEMMA MessagesRefine ==
    ASSUME TypeOK, Inv, TypeOK', View, View', HandleMessage
    PROVE  Cycle!Next \/ UNCHANGED Cycle!cycleVars
<1>. USE DEF Cycle!Next
<1>1. OneJob /\ ButtonsOff
    BY DEF Inv
<1>2. queue # <<>> /\ queue' = <<>> /\ boxes = <<>> /\ ~Downloading /\ ~Updating
      /\ UNCHANGED <<dpc, dver, tmp, upc, uver, got>>
    BY <1>1, TakeOnly
    DEF HandleMessage, WM_CHECK_ERROR, WM_CHECK_DONE, WM_DOWNLOAD_ERROR, WM_DOWNLOAD_DONE,
        WM_UPDATE_DONE, Take, OneJob, Downloading, Updating, downloadVars, updaterVars
<1>3. ASSUME boxes' = <<>> \/ (boxes' # <<>> /\ Last(boxes') = None) PROVE Quiet'
    BY <1>2, <1>3 DEF Quiet, Fetching, Offered, Updating, Downloading, Told, AsksToInstall
<1>4. ASSUME Head(queue) # "DOWNLOAD_DONE" PROVE Quiet
    BY <1>2, <1>4 DEF Quiet, Fetching, Offered, Updating, Downloading, Told, AsksToInstall
<1>5. CASE WM_CHECK_ERROR
  <2>1. Quiet /\ Quiet'
    BY <1>2, <1>3, <1>4, <1>5 DEF WM_CHECK_ERROR, Take
  <2>. QED BY <1>5, <2>1, Stays DEF WM_CHECK_ERROR
<1>6. CASE WM_CHECK_DONE
  <2>1. Quiet /\ Quiet'
    BY <1>2, <1>3, <1>4, <1>6 DEF WM_CHECK_DONE, Take
  <2>2. marked' = None /\ refresh_on' = refresh_on
    BY <1>6 DEF WM_CHECK_DONE
  <2>3. Cycle!Choose
    BY <2>1, <2>2 DEF View, Quiet, Cycle!Choose
  <2>. QED BY <2>3
<1>7. CASE WM_DOWNLOAD_ERROR
  <2>1. boxes' # <<>> /\ Last(boxes') = None
    BY <1>2, <1>7, OpenFirst DEF WM_DOWNLOAD_ERROR
  <2>2. Quiet /\ Quiet'
    BY <1>2, <1>3, <1>4, <1>7, <2>1 DEF WM_DOWNLOAD_ERROR, Take
  <2>3. ~refresh_on /\ refresh_on' /\ marked' = marked
    BY <1>1, <1>2, <1>7 DEF WM_DOWNLOAD_ERROR, Take, Buttons, ButtonsOff, Told
  <2>4. Stage = "over"
    BY <2>2, <2>3 DEF View, Quiet
  <2>. QED BY <2>2, <2>3, <2>4, Settles
<1>8. CASE WM_DOWNLOAD_DONE
  <2>1. Offered /\ ~AsksToInstall
    BY <1>2, <1>8 DEF WM_DOWNLOAD_DONE, Take, Offered, Told, AsksToInstall
  <2>2. Stage = "offered" /\ Target = g_dl_file_path /\ Target \in Versions /\ Package = tmp[Target]
    BY <2>1 DEF View
  <2>3. boxes' # <<>> /\ Last(boxes') = g_dl_file_path
    BY <1>2, <1>8, OpenFirst DEF WM_DOWNLOAD_DONE
  <2>4. AsksToInstall'
    BY <2>2, <2>3, ManagerAssumption DEF AsksToInstall, ManagerAssumption
  <2>5. Offered'
    BY <2>4 DEF Offered
  <2>6. Stage' = "offered" /\ Target' = g_dl_file_path /\ Package' = tmp'[Target']
    BY <2>3, <2>4, <2>5 DEF View
  <2>7. marked' = marked
    BY <1>8 DEF WM_DOWNLOAD_DONE
  <2>. QED BY <1>2, <2>2, <2>6, <2>7 DEF Cycle!cycleVars
<1>9. CASE WM_UPDATE_DONE
  <2>1. Quiet /\ Quiet'
    BY <1>2, <1>3, <1>4, <1>9 DEF WM_UPDATE_DONE, Take
  <2>2. ~refresh_on /\ refresh_on' /\ marked' = marked
    BY <1>1, <1>2, <1>9 DEF WM_UPDATE_DONE, Take, Buttons, ButtonsOff, Told
  <2>3. Stage = "over"
    BY <2>1, <2>2 DEF View, Quiet
  <2>. QED BY <2>1, <2>2, <2>3, Settles
<1>. QED BY <1>5, <1>6, <1>7, <1>8, <1>9 DEF HandleMessage

LEMMA AnswersRefine ==
    ASSUME TypeOK, Inv, View, View', Answer
    PROVE  Cycle!Next \/ UNCHANGED Cycle!cycleVars
<1>. USE DEF Cycle!Next
<1>1. CloseBox /\ UNCHANGED <<dpc, dver, tmp, marked>>
    BY DEF Answer, CloseError, DoNotInstall, Install, InstallFails, CloseBox, downloadVars
<1>2. boxes # <<>> /\ boxes' = <<>> /\ queue = <<>> /\ queue' = <<>> /\ ~Downloading /\ ~Updating
    BY <1>1, CloseOnly DEF Inv, OneJob, Downloading, Updating
<1>3. ASSUME upc' = upc PROVE Quiet'
    BY <1>1, <1>2, <1>3 DEF Quiet, Fetching, Offered, Updating, Downloading, Told, AsksToInstall
<1>4. ASSUME Last(boxes) # None
      PROVE  Stage = "offered" /\ Target = Last(boxes) /\ Package = tmp[Target] /\ Target \in Versions
  <2>1. AsksToInstall /\ Offered
    BY <1>2, <1>4 DEF AsksToInstall, Offered
  <2>. QED BY <2>1 DEF View
<1>5. CASE CloseError
  <2>1. Quiet
    BY <1>2, <1>5 DEF CloseError, Quiet, Fetching, Offered, Updating, Downloading, Told, AsksToInstall
  <2>2. Quiet' /\ UNCHANGED <<refresh_on, marked>>
    BY <1>1, <1>3, <1>5 DEF CloseError, updaterVars
  <2>. QED BY <2>1, <2>2, Stays
<1>6. CASE DoNotInstall \/ InstallFails
  <2>1. Last(boxes) # None /\ refresh_on' /\ upc' = upc
    BY <1>6 DEF DoNotInstall, InstallFails, Buttons, updaterVars
  <2>. QED BY <1>1, <1>3, <1>4, <2>1, Settles
<1>7. CASE Install
  <2>1. PICK u \in Updaters : /\ upc' = [upc EXCEPT ![u] = "spawned"]
                              /\ uver' = [uver EXCEPT ![u] = Last(boxes)]
    BY <1>7 DEF Install
  <2>2. upc'[u] = "spawned" /\ uver'[u] = Last(boxes)
    BY <2>1 DEF TypeOK
  <2>3. Stage' = "applying" /\ Target' = Last(boxes) /\ Package' = tmp'[Last(boxes)]
    BY <2>2 DEF View, Running
  <2>4. Last(boxes) # None
    BY <1>7 DEF Install
  <2>5. Cycle!Apply
    BY <1>1, <1>4, <2>3, <2>4 DEF Cycle!Apply
  <2>. QED BY <2>5
<1>. QED BY <1>5, <1>6, <1>7 DEF Answer

LEMMA UserRefines ==
    ASSUME Haste = {}, TypeOK, Inv, TypeOK', Inv', ButtonsOn, View, View', User
    PROVE  Cycle!Next \/ UNCHANGED Cycle!cycleVars
<1>. USE DEF Cycle!Next
<1>1. ASSUME UNCHANGED <<refresh_on, dpc, dver, tmp, upc, uver, got, boxes, queue, g_dl_file_path>>
      PROVE  UNCHANGED <<Stage, Target, Package>>
    BY <1>1 DEF Stage, Target, Package, Fetching, Offered, Updating, Told, AsksToInstall, Running
<1>2. CASE (\E i \in DOMAIN list : Select(i)) \/ (\E c \in Columns : Sort(c)) \/ do_refresh
  <2>1. UNCHANGED <<refresh_on, dpc, dver, tmp, upc, uver, got, boxes, queue, g_dl_file_path>>
    BY <1>2 DEF Select, SelectRow, Sort, SortRows, do_refresh, downloadVars, updaterVars
  <2>2. marked' \in Versions \cup {None}
    BY DEF TypeOK
  <2>3. Cycle!Choose
    BY <1>1, <2>1, <2>2 DEF Cycle!Choose
  <2>. QED BY <2>3
<1>3. CASE do_download
  <2>1. /\ queue = <<>> /\ boxes = <<>> /\ download_on /\ g_selected \in DOMAIN g_versions
        /\ marked' = marked
    BY <1>3 DEF do_download, DownloadFrom, Input
  <2>2. ~Downloading /\ ~Updating
    BY <1>3, NothingRuns
  <2>3. refresh_on
    BY <2>1, <2>2 DEF ButtonsOn, Told, AsksToInstall
  <2>4. Stage = "idle"
    BY <2>1, <2>2, <2>3 DEF View, Fetching, Offered, Updating, Downloading, Told, AsksToInstall
  <2>5. g_selected # 0
    BY <2>1, LenProperties DEF TypeOK
  <2>6. marked = g_versions[g_selected] /\ marked \in Versions
    <3>1. list # <<>> /\ list = g_versions /\ marked = list[g_selected]
      BY <2>5 DEF Inv, IndexIsSelected
    <3>2. g_versions[g_selected] \in Versions
      BY <2>1, ElementOfSeq, LenProperties DEF TypeOK
    <3>. QED BY <3>1, <3>2
  <2>7. PICK d \in Threads : /\ dpc' = [dpc EXCEPT ![d] = "fopen"]
                             /\ dver' = [dver EXCEPT ![d] = g_versions[g_selected]]
    BY <1>3 DEF do_download, DownloadFrom, DownloadGoto
  <2>8. dpc'[d] = "fopen" /\ dver'[d] = marked
    BY <2>6, <2>7 DEF TypeOK
  <2>9. Stage' = "fetching" /\ Target' = marked /\ Package' = tmp'[marked]
    BY <2>8 DEF View
  <2>10. Package' \in Contents
    BY <2>6, <2>9 DEF TypeOK
  <2>11. marked # None
    BY <2>6, ManagerAssumption DEF ManagerAssumption
  <2>12. Cycle!Start
    BY <2>1, <2>4, <2>9, <2>10, <2>11 DEF Cycle!Start
  <2>. QED BY <2>12
<1>. QED BY <1>2, <1>3 DEF User

LEMMA RestartRefines ==
    ASSUME Haste = {}, View, View', Restart
    PROVE  Cycle!Restart
<1>1. ~Updating /\ ~Updating'
    BY DEF Restart, Hurry, Updating
<1>2. Stage # "applying"
    BY <1>1 DEF Stage
<1>3. Quiet' /\ refresh_on' /\ marked' = None
    BY <1>1 DEF Restart, Quiet, Fetching, Offered, Told, AsksToInstall
<1>. QED BY <1>2, <1>3 DEF View, Quiet, Cycle!Restart, Cycle!Nothing

LEMMA DownloadRefines ==
    ASSUME TypeOK, Inv, TypeOK', Inv', View, View', NEW d \in Threads, ag_download_update(d)
    PROVE  Cycle!Next \/ UNCHANGED Cycle!cycleVars
<1>. USE DEF Cycle!Next
<1>1. dpc \in [Threads -> DownloadPc] /\ (dpc[d] # "idle" => dver[d] \in Versions)
      /\ tmp \in [Versions -> Contents] /\ tmp' \in [Versions -> Contents]
    BY DEF TypeOK
<1>2. dpc[d] # "idle" /\ UNCHANGED <<marked, refresh_on, boxes, upc, uver>>
    BY <1>1 DEF ag_download_update, CreateFile, CreateFileFails, Receive, ReceiveAll, ReceiveFails, Verify,
                VerifyFails, PostDownload, DownloadFrame, windowVars
<1>3. /\ \A e \in Threads \ {d} : dpc[e] = "idle" /\ dpc'[e] = "idle"
      /\ queue = <<>> /\ boxes = <<>> /\ ~Updating /\ ~Updating' /\ ~refresh_on /\ dver[d] \in Versions
  <2>1. \A e \in Threads \ {d} : dpc'[e] = dpc[e]
    BY <1>1 DEF ag_download_update, CreateFile, CreateFileFails, Receive, ReceiveAll, ReceiveFails, Verify,
                VerifyFails, PostDownload, Failed, DownloadGoto
  <2>2. /\ \A e \in Threads \ {d} : dpc[e] = "idle"
        /\ queue = <<>> /\ boxes = <<>> /\ ~Updating
    BY <1>2 DEF Inv, OneJob
  <2>3. ~refresh_on
    BY <1>2 DEF Inv, ButtonsOff, Downloading
  <2>. QED BY <1>1, <1>2, <2>1, <2>2, <2>3 DEF Updating
<1>4. ASSUME dpc'[d] = "post_error" \/ (dpc'[d] = "idle" /\ ~Told({"DOWNLOAD_DONE"})'),
             queue' = queue \/ dpc'[d] = "idle"
      PROVE  Quiet'
    BY <1>2, <1>3, <1>4 DEF Quiet, Fetching, Offered, Told, AsksToInstall
<1>5. ASSUME dpc[d] \in {"fopen", "receive", "verify"}
      PROVE  Stage = "fetching" /\ Target = dver[d] /\ Package = tmp[dver[d]]
    BY <1>5 DEF View
<1>6. ASSUME dpc[d] \in {"fopen", "receive"}, dpc'[d] \in {"receive", "verify"}, dver' = dver
      PROVE  Cycle!Fetch
  <2>1. Stage' = "fetching" /\ Target' = dver[d] /\ Package' = tmp'[dver[d]]
    BY <1>6 DEF View
  <2>. QED BY <1>1, <1>2, <1>3, <1>5, <1>6, <2>1 DEF Cycle!Fetch
<1>7. CASE CreateFile(d) \/ Receive(d)
    BY <1>1, <1>6, <1>7 DEF CreateFile, Receive, ReceiveAll, DownloadGoto
<1>8. CASE CreateFileFails(d) \/ ReceiveFails(d) \/ VerifyFails(d)
  <2>1. dpc[d] \in {"fopen", "receive", "verify"} /\ dpc'[d] = "post_error" /\ queue' = queue
    BY <1>1, <1>8 DEF CreateFileFails, ReceiveFails, VerifyFails, Failed, DownloadGoto
  <2>2. Quiet'
    BY <1>4, <2>1
  <2>3. Cycle!End
    BY <1>2, <1>3, <1>5, <2>1, <2>2, Ended
  <2>. QED BY <2>3
<1>9. CASE Verify(d)
  <2>1. dpc[d] = "verify" /\ tmp[dver[d]] = "good" /\ dpc'[d] = "post_done"
        /\ g_dl_file_path' = dver[d] /\ tmp' = tmp
    BY <1>1, <1>9 DEF Verify, DownloadGoto
  <2>2. Offered' /\ ~AsksToInstall'
    BY <1>2, <1>3, <2>1 DEF Offered, AsksToInstall
  <2>3. Stage' = "offered" /\ Target' = dver[d] /\ Package' = tmp'[Target']
    BY <2>1, <2>2 DEF View
  <2>4. Cycle!Offer
    BY <1>2, <1>5, <2>1, <2>3 DEF Cycle!Offer
  <2>. QED BY <2>4
<1>10. CASE PostDownload(d)
  <2>1. dpc'[d] = "idle" /\ UNCHANGED <<g_dl_file_path, tmp>>
    BY <1>1, <1>10 DEF PostDownload, DownloadGoto, globalVars
  <2>2. CASE dpc[d] = "post_done"
    <3>1. Offered /\ ~AsksToInstall
      BY <1>3, <2>2 DEF Offered, AsksToInstall
    <3>2. Told({"DOWNLOAD_DONE"})'
      BY <1>3, <1>10, <2>2, PostFirst DEF PostDownload, Told
    <3>3. Offered' /\ ~AsksToInstall'
      BY <1>2, <1>3, <3>2 DEF Offered, AsksToInstall
    <3>4. /\ Stage = "offered" /\ Target = g_dl_file_path /\ Package = tmp[Target]
          /\ Stage' = "offered" /\ Target' = g_dl_file_path' /\ Package' = tmp'[Target']
      BY <3>1, <3>3 DEF View
    <3>. QED BY <1>2, <2>1, <3>4 DEF Cycle!cycleVars
  <2>3. CASE dpc[d] = "post_error"
    <3>1. Quiet
      BY <1>3, <2>3 DEF Quiet, Fetching, Offered, Told, AsksToInstall
    <3>2. ~Told({"DOWNLOAD_DONE"})'
      BY <1>3, <1>10, <2>3, PostFirst DEF PostDownload, Told
    <3>3. Quiet'
      BY <1>4, <2>1, <3>2
    <3>. QED BY <1>2, <3>1, <3>3, Stays
  <2>. QED BY <1>10, <2>2, <2>3 DEF PostDownload
<1>. QED BY <1>7, <1>8, <1>9, <1>10 DEF ag_download_update

LEMMA UpdaterRefines ==
    ASSUME TypeOK, Inv, View, View', NEW u \in Updaters, updater(u)
    PROVE  Cycle!Next \/ UNCHANGED Cycle!cycleVars
<1>. USE DEF Cycle!Next
<1>1. upc \in [Updaters -> UpdaterPc] /\ got \in [Updaters -> Contents]
      /\ UNCHANGED <<marked, refresh_on, boxes, dpc, g_dl_file_path>>
    BY DEF TypeOK, updater, OpenZip, ZipNotFound, UpdaterEnds, Ends, UpdaterFrame, windowVars, globalVars
<1>2. upc[u] # "idle"
    BY DEF updater, OpenZip, ZipNotFound, UpdaterEnds, Running, Spawned
<1>3. /\ upc[u] \in {"spawned", "running"} /\ \A w \in Updaters \ {u} : upc[w] = "idle"
      /\ queue = <<>> /\ boxes = <<>> /\ ~Downloading /\ ~refresh_on
    BY <1>2 DEF Inv, OneJob, ButtonsOff, Updating, Downloading
<1>4. Stage = "applying" /\ Target = uver[u] /\ Package = IF Running(u) THEN got[u] ELSE tmp[uver[u]]
    BY <1>2 DEF View
<1>5. CASE OpenZip(u)
  <2>1. upc[u] = "spawned" /\ upc'[u] = "running" /\ got'[u] = tmp[uver[u]] /\ uver' = uver
    BY <1>1, <1>3, <1>5 DEF OpenZip, Spawned
  <2>2. Stage' = "applying" /\ Target' = uver[u] /\ Package' = tmp[uver[u]]
    BY <2>1 DEF View, Running
  <2>3. Package = tmp[uver[u]]
    BY <1>4, <2>1 DEF Running
  <2>. QED BY <1>1, <1>4, <2>2, <2>3 DEF Cycle!cycleVars
<1>6. CASE ZipNotFound(u) \/ UpdaterEnds(u)
  <2>1. upc' = [upc EXCEPT ![u] = "idle"] /\ Post("UPDATE_DONE")
    BY <1>3, <1>6 DEF ZipNotFound, UpdaterEnds, Ends
  <2>2. \A w \in Updaters : upc'[w] = "idle"
    BY <1>1, <1>3, <2>1
  <2>3. ~Told({"DOWNLOAD_DONE"})'
    BY <1>3, <2>1, PostFirst DEF Told
  <2>4. Quiet'
    BY <1>1, <1>3, <2>2, <2>3 DEF Quiet, Fetching, Offered, Updating, Downloading, AsksToInstall
  <2>5. Cycle!End
    BY <1>1, <1>3, <1>4, <2>4, Ended
  <2>. QED BY <2>5
<1>. QED BY <1>5, <1>6 DEF updater

LEMMA CycleStep ==
    ASSUME Haste = {}, TypeOK, Inv, ButtonsOn, View, TypeOK', Inv', View', [Next]_vars
    PROVE  [Cycle!Next]_Cycle!cycleVars
<1>1. CASE check
    BY <1>1, CheckIsQuiet, Stays
<1>2. CASE Restart
    BY <1>2, RestartRefines DEF Cycle!Next
<1>3. CASE UNCHANGED vars
  <2>1. UNCHANGED <<marked, refresh_on, dpc, dver, tmp, upc, uver, got, boxes, queue, g_dl_file_path>>
    BY <1>3 DEF vars, windowVars, globalVars, downloadVars, updaterVars
  <2>2. UNCHANGED <<Stage, Target, Package>>
    BY <2>1 DEF Stage, Target, Package, Fetching, Offered, Updating, Told, AsksToInstall, Running
  <2>. QED BY <2>1, <2>2 DEF Cycle!cycleVars
<1>. QED BY <1>1, <1>2, <1>3, MessagesRefine, AnswersRefine, UserRefines, DownloadRefines,
            UpdaterRefines DEF Next

\* For a user who waits, the manager implements UpdateCycle: the version that is
\* installed is the one that was selected, its package is untouched since it was
\* compared, and one update ends before another begins.
THEOREM KeepsTheCycle == ASSUME Haste = {} PROVE Spec => ImplementsUpdateCycle
<1>1. Init => Cycle!Init
    BY DEF Init, Cycle!Init, Stage, Target, Package, Fetching, Offered, Updating, Told, AsksToInstall
<1>2. /\ TypeOK /\ Inv /\ ButtonsOn /\ View /\ TypeOK' /\ Inv' /\ View' /\ [Next]_vars
      => [Cycle!Next]_Cycle!cycleVars
    BY CycleStep
<1>. QED BY <1>1, <1>2, ViewHolds, TypeCorrect, InvHolds, ButtonsAreBack, PTL
         DEF Spec, ImplementsUpdateCycle, Cycle!Spec

=============================================================================
