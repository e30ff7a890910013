---------------------------- MODULE Updater_proof ---------------------------
(***************************************************************************)
(* Proofs about the updater, for every set of files and packages, all      *)
(* faults but "flush", and any number of runs.                             *)
(***************************************************************************)
EXTENDS Updater, TLAPS

USE DEF Goto

\* What a step of the loop over the entries leaves alone.
LoopFrame == UNCHANGED <<runs, inPlace, unz, exit, before>>

\* A step that ends the handling of an entry stays in the loop or leaves it.
LEMMA NextEntryStays ==
    ASSUME UpdaterAssumption, TypeOK, pc \in InLoop, NextEntry, unz' = unz
    PROVE  /\ unz # NoZip /\ unz \in Packages
           /\ pc' \in {"entry", "remove"}
           /\ index' \in DOMAIN unz.entries
           /\ index' \in Nat
<1>1. /\ unz # NoZip /\ unz \in Packages
      /\ index \in DOMAIN unz.entries /\ index \in Nat
    BY DEF TypeOK
<1>2. unz.entries \in Seq(Entries)
    BY <1>1 DEF UpdaterAssumption
<1>3. DOMAIN unz.entries = 1 .. Len(unz.entries) /\ Len(unz.entries) \in Nat
    BY <1>2
<1>. QED BY <1>1, <1>3 DEF NextEntry

\* A package that opens has a first entry.
LEMMA OpensAtTheFirst ==
    ASSUME UpdaterAssumption, NEW z \in Packages, find_first_dir(z.entries) # NoDir
    PROVE  1 \in DOMAIN z.entries
<1>1. z.entries \in Seq(Entries)
    BY DEF UpdaterAssumption
<1>2. DOMAIN z.entries # {}
    BY DEF find_first_dir
<1>. QED BY <1>1, <1>2

\* In the loop there is an entry, of a package of some version.
LEMMA EntryThere ==
    ASSUME UpdaterAssumption, TypeOK, pc \in InLoop
    PROVE  /\ Entry \in Entries /\ Entry.path \in Paths
           /\ unz.version \in Nat \ {0}
<1>1. unz \in Packages /\ index \in DOMAIN unz.entries
    BY DEF TypeOK
<1>2. unz.entries \in Seq(Entries) /\ unz.version \in Nat \ {0}
    BY <1>1 DEF UpdaterAssumption
<1>3. Entry \in Entries
    BY <1>1, <1>2 DEF Entry
<1>. QED BY <1>2, <1>3 DEF Entries

LEMMA UsableFiles == Usable \subseteq Paths
    BY DEF Usable

\* Every reachable state is well typed; the entry that the loop is at exists.
THEOREM TypeCorrect == Spec => []TypeOK
<1>. USE UpdaterAssumption DEF UpdaterAssumption
<1>1. Init => TypeOK
  <2>. SUFFICES ASSUME Init PROVE TypeOK
    OBVIOUS
  <2>1. file \in [Paths -> Contents]
    BY DEF Init, Contents
  <2>2. before \subseteq Paths
    BY UsableFiles DEF Init
  <2>3. inPlace \in BOOLEAN /\ errors \in BOOLEAN
    BY Zenon DEF Init
  <2>. QED BY <2>1, <2>2, <2>3 DEF Init, TypeOK, UpdaterPc, InLoop
<1>2. TypeOK /\ [Next]_vars => TypeOK'
  <2>. SUFFICES ASSUME TypeOK, [Next]_vars PROVE TypeOK'
    OBVIOUS
  <2>. USE DEF TypeOK, UpdaterPc, InLoop, Contents, Backups
  <2>1. CASE Start
    <3>1. inPlace' \in BOOLEAN /\ errors' \in BOOLEAN
      BY <2>1, Zenon DEF Start
    <3>2. before' \subseteq Paths
      BY <2>1, UsableFiles DEF Start
    <3>. QED BY <2>1, <3>1, <3>2 DEF Start, diskVars
  <2>2. CASE PreSweep
    BY <2>2 DEF PreSweep, runVars, cleanup_old_backups
  <2>3. CASE OpenZip
    BY <2>3, OpensAtTheFirst DEF OpenZip, diskVars
  <2>4. CASE OpenZipFails
    BY <2>4 DEF OpenZipFails, diskVars
  <2>5. CASE Skip
    BY <2>5, NextEntryStays DEF Skip, diskVars
  <2>6. CASE OpenEntry
    BY <2>6 DEF OpenEntry, diskVars
  <2>7. CASE OpenEntryFails
    BY <2>7, NextEntryStays DEF OpenEntryFails, NotExtracted, diskVars
  <2>8. CASE OpenFile \/ Reopen
    BY <2>8 DEF OpenFile, Reopen, Truncate
  <2>9. CASE OpenFileFails
    BY <2>9 DEF OpenFileFails, diskVars
  <2>10. CASE try_rename_locked
    <3>1. Entry.path \in Paths
      BY <2>10, EntryThere DEF try_rename_locked
    <3>2. [of |-> Entry.path, used |-> Entry.path \in used] \in Backups
      BY <3>1
    <3>3. backups' \subseteq Backups /\ used' \subseteq Paths
      BY <2>10, <3>2 DEF try_rename_locked
    <3>4. file' \in [Paths -> Contents]
      BY <2>10, <3>1 DEF try_rename_locked
    <3>. QED BY <2>10, <3>3, <3>4 DEF try_rename_locked, runVars
  <2>11. CASE RenameFails \/ ReopenFails
    BY <2>11, NextEntryStays DEF RenameFails, ReopenFails, NotExtracted, diskVars
  <2>12. CASE Write
    <3>1. unz.version \in Nat
      BY <2>12 DEF Write
    <3>. QED BY <2>12, <3>1, NextEntryStays DEF Write, Extracted
  <2>13. CASE WriteFails
    BY <2>13, NextEntryStays DEF WriteFails, NotExtracted, diskVars
  <2>14. CASE WriteFailsUnseen
    BY <2>14, NextEntryStays DEF WriteFailsUnseen, Extracted, diskVars
  <2>15. CASE RemoveZip
    BY <2>15 DEF RemoveZip, diskVars, runVars
  <2>16. CASE PostSweep
    BY <2>16 DEF PostSweep, runVars, cleanup_old_backups
  <2>17. CASE Exit \/ Die
    BY <2>17 DEF Exit, Die, diskVars
  <2>18. CASE Fetch
    BY <2>18 DEF Fetch, diskVars, runVars
  <2>19. CASE ag_cleanup_temp
    BY <2>19 DEF ag_cleanup_temp, runVars, cleanup_old_backups
  <2>20. CASE \E p \in Paths : Load(p) \/ Release(p)
    BY <2>20 DEF Load, Release, runVars
  <2>21. CASE \E b \in backups : ReleaseBackup(b)
    BY <2>21 DEF ReleaseBackup, runVars
  <2>22. CASE UNCHANGED vars
    BY <2>22 DEF vars, diskVars, runVars
  <2>. QED
    BY <2>1, <2>2, <2>3, <2>4, <2>5, <2>6, <2>7, <2>8, <2>9, <2>10, <2>11,
       <2>12, <2>13, <2>14, <2>15, <2>16, <2>17, <2>18, <2>19, <2>20, <2>21, <2>22
       DEF Next, main, extract_file, Others
<1>. QED BY <1>1, <1>2, PTL DEF Spec

-----------------------------------------------------------------------------
(* The invariant about the files of a sound package.                        *)

\* Entry i is settled: it is not to be installed, or it is installed, or its
\* failure is counted.
Settled(i) ==
    \/ Skipped(unz.entries[i])
    \/ errors
    \/ file[unz.entries[i].path] = unz.version

\* The file of the entry in work is not in order between rename or truncation
\* and the end of the writing; an earlier entry may have had the same file.
InWork(p) == pc \in {"reopen", "write"} /\ Entry.path = p

PassedSettled ==
    pc \in InLoop /\ Sound(unz.entries) =>
        \A i \in 1 .. index - 1 : Settled(i) \/ InWork(unz.entries[i].path)

AllSettled ==
    pc \in {"remove", "sweep2", "exit"} =>
        /\ unz # NoZip
        /\ Sound(unz.entries) => \A i \in DOMAIN unz.entries : Settled(i)

OnlyToInstall == pc \in InLoop \ {"entry"} => ~Skipped(Entry)

ExitAtTheEnd ==
    /\ pc # "idle" => exit = "none"
    /\ exit = "ok" => unz # NoZip

\* Until the zip is open the files are as they were found.
Untouched == pc \in {"sweep", "unzOpen"} => unz = NoZip /\ before = Usable

Inv ==
    /\ PassedSettled /\ AllSettled /\ OnlyToInstall /\ ExitAtTheEnd /\ Untouched
    /\ HarmIsCounted /\ SuccessMeansInstalled

LEMMA InitInv == Init => Inv
    BY DEF Init, Inv, PassedSettled, AllSettled, OnlyToInstall, ExitAtTheEnd,
       Untouched, HarmIsCounted, SuccessMeansInstalled, InLoop

\* Steps that end the handling of an entry, with its file written, with its
\* error counted, or because it is not to be installed.
LEMMA EntryEnds ==
    ASSUME UpdaterAssumption, TypeOK, Inv, pc \in InLoop, NextEntry,
           UNCHANGED <<inPlace, unz, exit, before>>,
           errors => errors',
           \A p \in Paths :
               file'[p] = file[p] \/ (p = Entry.path /\ file'[p] = unz.version),
           Sound(unz.entries) =>
               errors' \/ Skipped(Entry) \/ file'[Entry.path] = unz.version
    PROVE  Inv'
<1>. USE DEF InLoop
<1>1. /\ unz # NoZip /\ unz \in Packages
      /\ index \in Nat /\ index \in DOMAIN unz.entries
      /\ unz' = unz /\ inPlace' = inPlace
    BY DEF TypeOK
<1>2. /\ unz.entries \in Seq(Entries) /\ unz.version \in Nat
      /\ DOMAIN unz.entries = 1 .. Len(unz.entries) /\ Len(unz.entries) \in Nat
    BY <1>1 DEF UpdaterAssumption
<1>3. /\ pc' \in {"entry", "remove"}
      /\ pc' = "entry" => index' = index + 1
      /\ pc' = "remove" /\ Sound(unz.entries) => index = Len(unz.entries)
    BY <1>1, <1>2 DEF NextEntry, Sound
<1>4. \A i \in DOMAIN unz.entries :
        unz.entries[i] \in Entries /\ unz.entries[i].path \in Paths
  <2>1. \A i \in DOMAIN unz.entries : unz.entries[i] \in Entries
    BY <1>2
  <2>2. \A e \in Entries : e.path \in Paths
    BY DEF Entries
  <2>. QED BY <2>1, <2>2
<1>5. \A e \in Entries : Skipped(e) <=> Skipped(e)'
    BY <1>1 DEF Skipped
<1>6. exit = "none" /\ exit' = "none"
    BY DEF Inv, ExitAtTheEnd
<1>7. ASSUME Sound(unz.entries), NEW i \in 1 .. index
      PROVE  Settled(i)'
  <2>1. CASE i = index
    BY <1>1, <1>4, <1>5, <1>7, <2>1 DEF Settled, Entry
  <2>2. CASE i # index
    <3>1. i \in 1 .. index - 1 /\ i \in DOMAIN unz.entries
      BY <1>1, <1>2, <2>2
    <3>2. CASE Settled(i)
      BY <1>1, <1>4, <1>5, <3>1, <3>2 DEF Settled
    <3>3. CASE InWork(unz.entries[i].path)
      <4>1. ~Skipped(Entry)
        BY <3>3 DEF Inv, OnlyToInstall, InWork
      <4>. QED BY <1>1, <1>7, <3>3, <4>1 DEF Settled, InWork
    <3>. QED BY <1>7, <3>1, <3>2, <3>3 DEF Inv, PassedSettled
  <2>. QED BY <2>1, <2>2
<1>8. PassedSettled'
    BY <1>1, <1>3, <1>7 DEF PassedSettled
<1>9. AllSettled'
    BY <1>1, <1>2, <1>3, <1>7 DEF AllSettled
<1>10. OnlyToInstall' /\ ExitAtTheEnd' /\ Untouched' /\ SuccessMeansInstalled'
    BY <1>1, <1>3, <1>6
       DEF OnlyToInstall, ExitAtTheEnd, Untouched, SuccessMeansInstalled
<1>11. ASSUME Sound(unz.entries), NEW p \in Paths, p \in before \ Usable'
       PROVE  errors'
  <2>1. p \notin Usable
    <3>1. unz.version \notin {Partial, Missing}
      BY <1>2 DEF UpdaterAssumption
    <3>. QED BY <1>11, <3>1 DEF Usable
  <2>2. errors \/ InWork(p)
    BY <1>1, <1>6, <1>11, <2>1 DEF Inv, HarmIsCounted, InWork
  <2>3. CASE InWork(p)
    <3>1. ~Skipped(Entry)
      BY <2>3 DEF Inv, OnlyToInstall, InWork
    <3>2. file'[p] \in {Partial, Missing}
      BY <1>11 DEF Usable
    <3>. QED BY <1>2, <1>11, <2>3, <3>1, <3>2 DEF InWork, UpdaterAssumption
  <2>. QED BY <2>2, <2>3
<1>12. HarmIsCounted'
    BY <1>1, <1>11 DEF HarmIsCounted
<1>. QED BY <1>8, <1>9, <1>10, <1>12 DEF Inv

\* Steps that change neither the files nor what the updater knows of them.
LEMMA QuietStep ==
    ASSUME TypeOK, Inv,
           UNCHANGED <<file, inPlace, unz, index, errors, exit, before>>,
           \/ pc' = pc
           \/ pc = "sweep" /\ pc' = "unzOpen"
           \/ pc = "entry" /\ ~Skipped(Entry) /\ pc' = "fopen"
           \/ pc = "fopen" /\ pc' = "rename"
           \/ pc = "remove" /\ pc' = "sweep2"
           \/ pc = "sweep2" /\ pc' = "exit"
    PROVE  Inv'
<1>. USE DEF InLoop, Inv
<1>1. Entry' = Entry /\ Usable' = Usable
    BY DEF Entry, Usable
<1>2. \A e : Skipped(e) <=> Skipped(e)'
    BY DEF Skipped
<1>3. \A i : Settled(i) <=> Settled(i)'
    BY <1>2 DEF Settled
<1>4. PassedSettled'
    BY <1>1, <1>3 DEF PassedSettled, InWork
<1>5. AllSettled'
    BY <1>3 DEF AllSettled
<1>6. OnlyToInstall'
    BY <1>1, <1>2 DEF OnlyToInstall
<1>7. ExitAtTheEnd' /\ Untouched'
    BY <1>1 DEF ExitAtTheEnd, Untouched
<1>8. HarmIsCounted'
    BY <1>1 DEF HarmIsCounted
<1>9. SuccessMeansInstalled'
  <2>1. ToInstall' = ToInstall
    BY <1>2 DEF ToInstall
  <2>. QED BY <2>1 DEF SuccessMeansInstalled
<1>. QED BY <1>4, <1>5, <1>6, <1>7, <1>8, <1>9

\* Steps after which the file of the entry is not in order.
LEMMA WorkBegins ==
    ASSUME UpdaterAssumption, TypeOK, Inv, pc \in InLoop \ {"entry"},
           UNCHANGED <<inPlace, unz, index, errors, exit, before>>,
           \A p \in Paths : p = Entry.path \/ file'[p] = file[p],
           pc' \in {"reopen", "write"}
    PROVE  Inv'
<1>. USE DEF InLoop, Inv
<1>1. Entry' = Entry
    BY DEF Entry
<1>2. \A e : Skipped(e) <=> Skipped(e)'
    BY DEF Skipped
<1>3. /\ unz \in Packages /\ unz.entries \in Seq(Entries)
      /\ index \in 1 .. Len(unz.entries)
    BY DEF TypeOK, UpdaterAssumption
<1>4. PassedSettled'
  <2>. SUFFICES ASSUME Sound(unz.entries), NEW i \in 1 .. index - 1
                PROVE  Settled(i)' \/ InWork(unz.entries[i].path)'
    BY DEF PassedSettled
  <2>1. unz.entries[i].path \in Paths
    <3>1. i \in DOMAIN unz.entries
      BY <1>3
    <3>2. unz.entries[i] \in Entries
      BY <1>3, <3>1
    <3>. QED BY <3>2 DEF Entries
  <2>2. Settled(i) \/ InWork(unz.entries[i].path)
    BY DEF PassedSettled
  <2>. QED BY <1>1, <1>2, <2>1, <2>2 DEF Settled, InWork
<1>5. OnlyToInstall'
    BY <1>1, <1>2 DEF OnlyToInstall
<1>6. AllSettled' /\ ExitAtTheEnd' /\ Untouched' /\ SuccessMeansInstalled'
    BY DEF AllSettled, ExitAtTheEnd, Untouched, SuccessMeansInstalled
<1>7. HarmIsCounted'
    BY <1>1 DEF HarmIsCounted, Usable
<1>. QED BY <1>4, <1>5, <1>6, <1>7

LEMMA InvStep ==
    ASSUME UpdaterAssumption, "flush" \notin Faults, TypeOK, Inv, [Next]_vars
    PROVE  Inv'
<1>. USE DEF InLoop
<1>1. CASE Start
    BY <1>1 DEF Start, Inv, PassedSettled, AllSettled, OnlyToInstall, ExitAtTheEnd,
       Untouched, HarmIsCounted, SuccessMeansInstalled, Usable, diskVars
<1>2. CASE PreSweep
    BY <1>2, QuietStep DEF PreSweep, runVars
<1>3. CASE OpenZip
    BY <1>3 DEF OpenZip, Inv, PassedSettled, AllSettled, OnlyToInstall, ExitAtTheEnd,
       Untouched, HarmIsCounted, SuccessMeansInstalled, Usable, diskVars
<1>4. CASE OpenZipFails
    BY <1>4 DEF OpenZipFails, Inv, PassedSettled, AllSettled, OnlyToInstall, ExitAtTheEnd,
       Untouched, HarmIsCounted, SuccessMeansInstalled, Usable, diskVars
<1>5. CASE Skip
    BY <1>5, EntryEnds DEF Skip, diskVars
<1>6. CASE OpenEntry
    BY <1>6, QuietStep DEF OpenEntry, diskVars
<1>7. CASE OpenEntryFails \/ RenameFails \/ ReopenFails \/ WriteFails
    BY <1>7, EntryEnds
       DEF OpenEntryFails, RenameFails, ReopenFails, WriteFails, NotExtracted, diskVars
<1>8. CASE OpenFile \/ Reopen
    BY <1>8, WorkBegins, EntryThere DEF OpenFile, Reopen, Truncate, TypeOK
<1>9. CASE OpenFileFails
    BY <1>9, QuietStep DEF OpenFileFails, diskVars
<1>10. CASE try_rename_locked
    BY <1>10, WorkBegins, EntryThere DEF try_rename_locked, TypeOK, runVars
<1>11. CASE Write
    BY <1>11, EntryEnds, EntryThere DEF Write, Extracted, TypeOK
<1>12. CASE WriteFailsUnseen
  <2>1. unz.entries \in Seq(Entries) /\ index \in DOMAIN unz.entries
    BY <1>12 DEF WriteFailsUnseen, TypeOK, UpdaterAssumption
  <2>2. ~Sound(unz.entries)
    BY <1>12, <2>1 DEF WriteFailsUnseen, Sound, Entry
  <2>. QED BY <1>12, <2>2, EntryEnds DEF WriteFailsUnseen, Extracted, diskVars
<1>13. CASE RemoveZip
    BY <1>13, QuietStep DEF RemoveZip, diskVars, runVars
<1>14. CASE PostSweep
    BY <1>14, QuietStep DEF PostSweep, runVars
<1>15. CASE Exit
  <2>1. PassedSettled' /\ AllSettled' /\ OnlyToInstall' /\ ExitAtTheEnd' /\ Untouched'
    BY <1>15 DEF Exit, Inv, PassedSettled, AllSettled, OnlyToInstall, ExitAtTheEnd, Untouched
  <2>2. HarmIsCounted'
    BY <1>15 DEF Exit, Inv, ExitAtTheEnd, HarmIsCounted, Usable, diskVars
  <2>3. SuccessMeansInstalled'
    <3>. SUFFICES ASSUME Sound(unz.entries), ~errors, NEW p \in ToInstall
                  PROVE  file[p] = unz.version
      BY <1>15 DEF Exit, SuccessMeansInstalled, ToInstall, Skipped, diskVars
    <3>1. \A i \in DOMAIN unz.entries : Settled(i)
      BY <1>15 DEF Exit, Inv, AllSettled
    <3>. QED BY <3>1 DEF ToInstall, Settled
  <2>. QED BY <2>1, <2>2, <2>3 DEF Inv
<1>16. CASE Die
    BY <1>16 DEF Die, Inv, PassedSettled, AllSettled, OnlyToInstall, ExitAtTheEnd,
       Untouched, HarmIsCounted, SuccessMeansInstalled
<1>17. CASE Others
    BY <1>17, QuietStep
       DEF Others, Fetch, ag_cleanup_temp, Load, Release, ReleaseBackup, diskVars, runVars
<1>18. CASE UNCHANGED vars
    BY <1>18, QuietStep DEF vars, diskVars, runVars
<1>. QED
    BY <1>1, <1>2, <1>3, <1>4, <1>5, <1>6, <1>7, <1>8, <1>9, <1>10, <1>11,
       <1>12, <1>13, <1>14, <1>15, <1>16, <1>17, <1>18
       DEF Next, main, extract_file

THEOREM InvHolds ==
    ASSUME "flush" \notin Faults
    PROVE  Spec => []Inv
<1>1. TypeOK /\ Inv /\ [Next]_vars => Inv'
    BY InvStep, UpdaterAssumption
<1>. QED BY <1>1, InitInv, TypeCorrect, PTL DEF Spec

\* Exit code 0 means that all files of the package are installed, for every
\* package in order, whatever is in use and whatever was left by earlier runs.
THEOREM SuccessIsTrue ==
    ASSUME "flush" \notin Faults
    PROVE  Spec => []SuccessMeansInstalled
<1>1. Inv => SuccessMeansInstalled
    BY DEF Inv
<1>. QED BY <1>1, InvHolds, PTL

\* A file that the updater leaves worse than it found it is always counted as
\* an error.
THEOREM HarmIsKnown ==
    ASSUME "flush" \notin Faults
    PROVE  Spec => []HarmIsCounted
<1>1. Inv => HarmIsCounted
    BY DEF Inv
<1>. QED BY <1>1, InvHolds, PTL

-----------------------------------------------------------------------------
(* The updater implements Installation.                                     *)

LEMMA PackageFiles == ASSUME UpdaterAssumption, TypeOK PROVE ToInstall \subseteq Paths
<1>. SUFFICES ASSUME unz # NoZip PROVE ToInstall \subseteq Paths
    BY DEF ToInstall
<1>1. unz.entries \in Seq(Entries)
    BY DEF TypeOK, UpdaterAssumption
<1>2. \A i \in DOMAIN unz.entries : unz.entries[i] \in Entries
    BY <1>1
<1>3. \A e \in Entries : e.path \in Paths
    BY DEF Entries
<1>. QED BY <1>2, <1>3 DEF ToInstall

LEMMA SamePackage == ASSUME UNCHANGED <<inPlace, unz>> PROVE ToInstall' = ToInstall
<1>1. \A e : Skipped(e) <=> Skipped(e)'
    BY DEF Skipped
<1>. QED BY <1>1 DEF ToInstall

\* Steps that the user of the installation does not see.
LEMMA Unseen ==
    ASSUME UNCHANGED <<inPlace, unz, exit>>, Running' = Running,
           \A p \in Paths : file'[p] = file[p]
                            \/ (file[p] \in {Partial, Missing} /\ file'[p] \in {Partial, Missing})
    PROVE  UNCHANGED Promise!vars
<1>2. ToInstall' = ToInstall
    BY SamePackage
<1>3. \A p \in Paths : p \in Usable' <=> p \in Usable
    BY DEF Usable
<1>4. Installed' = Installed
    BY <1>3 DEF Installed, Usable
<1>. QED BY <1>2, <1>4 DEF Promise!vars, Target, InOrder, Report, Sound

\* Steps in the loop that disturb or finish the file of the entry.
LEMMA FileChanges ==
    ASSUME UpdaterAssumption, TypeOK, Inv,
           pc \in InLoop \ {"entry"}, Running',
           UNCHANGED <<inPlace, unz, exit>>,
           \E content \in {Partial, Missing, unz.version} :
               file' = [file EXCEPT ![Entry.path] = content]
    PROVE  \E p \in Paths : Promise!Write(p)
<1>1. Entry.path \in Paths /\ unz.version \in Nat /\ unz # NoZip
    BY EntryThere DEF TypeOK, InLoop
<1>2. Entry.path \in ToInstall
    BY <1>1 DEF Inv, OnlyToInstall, ToInstall, Entry, TypeOK, InLoop
<1>3. PICK content \in {Partial, Missing, unz.version} :
          file' = [file EXCEPT ![Entry.path] = content]
    OBVIOUS
<1>5. ToInstall' = ToInstall
    BY SamePackage
<1>6. Installed' = [Installed EXCEPT ![Entry.path] =
                       IF content = unz.version THEN unz.version ELSE Missing]
    BY <1>1, <1>3 DEF Installed, Usable, TypeOK, UpdaterAssumption
<1>7. Report = "installing" /\ Report' = "installing"
    BY DEF Report, Running
<1>8. Target' = Target /\ Target = unz.version /\ InOrder' = InOrder
    BY <1>1 DEF Target, InOrder, Sound
<1>. QED BY <1>1, <1>2, <1>5, <1>6, <1>7, <1>8 DEF Promise!Write

LEMMA PromiseStep ==
    ASSUME UpdaterAssumption, "flush" \notin Faults, TypeOK, TypeOK', Inv, [Next]_vars
    PROVE  [Promise!Next]_Promise!vars
<1>. USE DEF InLoop, Running
<1>1. CASE Start
  <2>1. ToInstall' = {} /\ Target' = 0 /\ InOrder' = TRUE
    BY <1>1 DEF Start, ToInstall, Target, InOrder
  <2>2. Installed' = Installed
    BY <1>1 DEF Start, Installed, Usable, diskVars
  <2>3. Report # "installing" /\ Report' = "none"
    BY <1>1 DEF Start, Report, TypeOK
  <2>. QED BY <2>1, <2>2, <2>3 DEF Promise!Next, Promise!Ask
<1>2. CASE PreSweep
    BY <1>2, Unseen DEF PreSweep, runVars
<1>3. CASE OpenZip
  <2>1. Installed' = Installed
    BY <1>3 DEF OpenZip, Installed, Usable, diskVars
  <2>2. Report = "none" /\ Report' = "installing"
    BY <1>3 DEF OpenZip, Report, Inv, ExitAtTheEnd
  <2>3. ToInstall' \in SUBSET Paths
    <3>1. unz' \in Packages /\ unz'.entries \in Seq(Entries)
      BY <1>3 DEF OpenZip, TypeOK, UpdaterAssumption
    <3>2. \A i \in DOMAIN unz'.entries : unz'.entries[i] \in Entries
      BY <3>1
    <3>3. \A e \in Entries : e.path \in Paths
      BY DEF Entries
    <3>. QED BY <3>1, <3>2, <3>3 DEF ToInstall
  <2>4. Target' \in Nat \ {0}
    BY <1>3 DEF OpenZip, Target, TypeOK, UpdaterAssumption
  <2>5. InOrder' \in BOOLEAN
    BY Zenon DEF InOrder, Sound
  <2>. QED BY <2>1, <2>2, <2>3, <2>4, <2>5 DEF Promise!Next, Promise!Begin
<1>4. CASE OpenZipFails
  <2>1. UNCHANGED <<Installed, ToInstall, Target, InOrder>>
    BY <1>4 DEF OpenZipFails, Installed, Usable, ToInstall, Skipped, Target, InOrder, Sound, diskVars
  <2>2. Report = "none" /\ Report' = "failed"
    BY <1>4 DEF OpenZipFails, Report, Inv, ExitAtTheEnd
  <2>. QED BY <2>1, <2>2 DEF Promise!Next, Promise!Fail
<1>5. CASE Skip \/ OpenEntry \/ OpenEntryFails \/ OpenFileFails \/ RenameFails
           \/ ReopenFails \/ WriteFails \/ WriteFailsUnseen \/ RemoveZip \/ PostSweep
    BY <1>5, Unseen, NextEntryStays
       DEF Skip, OpenEntry, OpenEntryFails, OpenFileFails, RenameFails, ReopenFails,
           WriteFails, WriteFailsUnseen, RemoveZip, PostSweep, Extracted, NotExtracted,
           diskVars, runVars
<1>6. CASE OpenFile \/ Reopen
    BY <1>6, FileChanges DEF OpenFile, Reopen, Truncate, Promise!Next
<1>7. CASE try_rename_locked
    BY <1>7, FileChanges DEF try_rename_locked, runVars, Promise!Next
<1>8. CASE Write
    BY <1>8, FileChanges, NextEntryStays DEF Write, Extracted, Promise!Next
<1>9. CASE Exit
  <2>1. UNCHANGED <<Installed, ToInstall, Target, InOrder>>
    BY <1>9 DEF Exit, Installed, Usable, ToInstall, Skipped, Target, InOrder, Sound, diskVars
  <2>2. Report = "installing"
    BY <1>9 DEF Exit, Report
  <2>3. CASE errors
    BY <1>9, <2>1, <2>2, <2>3 DEF Exit, Report, Promise!Next, Promise!Fail
  <2>4. CASE ~errors
    <3>1. InOrder => \A p \in ToInstall : Installed[p] = Target
      <4>. SUFFICES ASSUME InOrder, NEW p \in ToInstall PROVE Installed[p] = Target
        OBVIOUS
      <4>1. unz # NoZip /\ Sound(unz.entries) /\ p \in Paths
        BY PackageFiles DEF InOrder, ToInstall
      <4>2. file[p] = unz.version
        BY <1>9, <2>4, <4>1 DEF Exit, Inv, AllSettled, Settled, ToInstall
      <4>3. p \in Usable
        BY <4>1, <4>2 DEF Usable, TypeOK, UpdaterAssumption
      <4>. QED BY <4>1, <4>2, <4>3 DEF Installed, Target
    <3>. QED BY <1>9, <2>1, <2>2, <2>4, <3>1 DEF Exit, Report, Promise!Next, Promise!Succeed
  <2>. QED BY <2>3, <2>4
<1>10. CASE Die
  <2>1. UNCHANGED <<Installed, ToInstall, Target, InOrder>>
    BY <1>10 DEF Die, Installed, Usable, ToInstall, Skipped, Target, InOrder, Sound, diskVars
  <2>2. Report \in {"none", "installing"} /\ Report' = "died"
    BY <1>10 DEF Die, Report, Inv, ExitAtTheEnd
  <2>. QED BY <2>1, <2>2 DEF Promise!Next, Promise!Fail
<1>11. CASE Others
    BY <1>11, Unseen
       DEF Others, Fetch, ag_cleanup_temp, Load, Release, ReleaseBackup, diskVars, runVars
<1>12. CASE UNCHANGED vars
    BY <1>12, Unseen DEF vars, diskVars, runVars
<1>. QED
    BY <1>1, <1>2, <1>3, <1>4, <1>5, <1>6, <1>7, <1>8, <1>9, <1>10, <1>11, <1>12
       DEF Next, main, extract_file

\* The updater keeps the promise of Installation.
THEOREM KeepsThePromise ==
    ASSUME "flush" \notin Faults
    PROVE  Spec => ImplementsInstallation
<1>1. Init => Promise!Init
    BY UpdaterAssumption
       DEF Init, Promise!Init, Installed, Usable, ToInstall, Target, InOrder, Report,
           Running, InLoop, UpdaterAssumption
<1>2. TypeOK /\ TypeOK' /\ Inv /\ [Next]_vars => [Promise!Next]_Promise!vars
    BY PromiseStep, UpdaterAssumption
<1>. QED
    BY <1>1, <1>2, TypeCorrect, InvHolds, PTL DEF Spec, Promise!Spec, ImplementsInstallation
=============================================================================
