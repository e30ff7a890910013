------------------------------ MODULE Updater -------------------------------
(***************************************************************************)
(* The updater program (client/updater_main.cpp): it unpacks a zip over    *)
(* the directory of an installation whose files other programs may have    *)
(* in use, first of all the program that is being updated.  A file that    *)
(* is in use cannot be opened for writing; after some attempts the updater *)
(* renames it to <file>.old-<tick>, a backup, and writes a new one.        *)
(*                                                                         *)
(* The content of a file is the version of the package it came from.       *)
(* Updates follow one another, each with a package of its own; any of them *)
(* may fail or be killed.  One updater runs at a time.                     *)
(***************************************************************************)
EXTENDS Integers, Sequences, FiniteSetsExt

CONSTANTS
    Paths,      \* files of the installation, relative to its directory
    Nested,     \* those in subdirectories
    SelfNamed,  \* those with the file name of the updater itself
    Dirs,       \* top-level directories inside a zip
    NoDir,      \* "not in a directory"
    Packages,   \* the zips that may be downloaded: their entries and version,
                \* the version first installed is 0
    NoZip,      \* "no file"
    Partial,    \* file content that is not all of what it should be
    Missing,    \* "no file of that name"
    Windows,    \* TRUE in the Windows build, the only one that renames
    RetryCount, \* attempts to open a file for writing
    Faults,     \* what may fail besides a file in use, see Fault
    MaxRuns     \* bound: updaters started

\* An entry of a zip.  kind: a file; a directory; a path with ".."; a damaged
\* record of the zip's directory.  data: it can be read; it cannot be opened;
\* it breaks off; it can be read to its end although its checksum is wrong.
Entries == [dir : Dirs \cup {NoDir},
            kind : {"file", "folder", "dots", "damaged"},
            path : Paths,
            data : {"good", "closed", "breaks", "crc"}]

Fault == {"open",      \* fopen for another reason than use
          "rename",    \* MoveFile
          "write",     \* fwrite
          "flush",     \* fclose, with bytes not written yet
          "archive",   \* unzOpen, unzGoToFirstFile
          "remove",    \* removing the zip
          "die"}       \* the process ends in the middle

ASSUME UpdaterAssumption ==
    /\ \A z \in Packages : z.entries \in Seq(Entries) /\ z.version \in Nat \ {0}
    /\ NoDir \notin Dirs
    /\ Faults \subseteq Fault
    /\ Windows \in BOOLEAN
    /\ RetryCount \in Nat \ {0} /\ MaxRuns \in Nat
    /\ Partial \notin Nat /\ Missing \notin Nat /\ Partial # Missing
    /\ NoZip \notin Packages

VARIABLES
    file,       \* the content of each file
    used,       \* the files that a program has in use
    backups,    \* the files renamed away, and whether they are in use;
                \* backups of one file are not told apart
    zip,        \* the downloaded package at zip_path
    runs,       \* the number of updaters started
    pc,         \* where the updater is
    inPlace,    \* it was started without --target, from the installation
    unz,        \* the package it has open, or had open last
    index,      \* the entry it is at
    attempt,    \* which attempt to open the file it is at
    errors,     \* whether errors > 0
    exit,       \* how the last updater ended
    before      \* history: the files that were usable when it was started

diskVars == <<file, used, backups>>
runVars == <<runs, inPlace, unz, index, attempt, errors, exit, before>>
vars == <<diskVars, zip, pc, runVars>>

Contents == Nat \cup {Partial, Missing}
Backups == [of : Paths, used : BOOLEAN]
InLoop == {"entry", "fopen", "rename", "reopen", "write"}
UpdaterPc == {"idle", "sweep", "unzOpen", "remove", "sweep2", "exit"} \cup InLoop

-----------------------------------------------------------------------------
(* The package.                                                             *)

\* The directory of the first entry that is in one; NoDir if there is none, or
\* none before the zip's directory is damaged.
find_first_dir(entries) ==
    LET inDir == {i \in DOMAIN entries :
                      /\ entries[i].dir # NoDir
                      /\ \A j \in 1 .. i : entries[j].kind # "damaged"}
    IN  IF inDir = {} THEN NoDir ELSE entries[Min(inDir)].dir

\* Nothing is wrong with the zip; otherwise errors may go unnoticed.
Sound(entries) ==
    \A i \in DOMAIN entries :
        entries[i].kind # "damaged" /\ entries[i].data # "crc"

\* Entries that are passed over: not under the root directory, directories,
\* the updater itself (by file name only), paths with "..", be it in the name of
\* a file or of the target directory.
Skipped(e) ==
    \/ e.dir # find_first_dir(unz.entries)
    \/ e.kind # "file"
    \/ inPlace /\ e.path \in SelfNamed

Entry == unz.entries[index]

Usable == {p \in Paths : file[p] \notin {Partial, Missing}}

\* The files that the update is to bring.
ToInstall ==
    IF unz = NoZip THEN {}
    ELSE {unz.entries[i].path : i \in {j \in DOMAIN unz.entries : ~Skipped(unz.entries[j])}}

-----------------------------------------------------------------------------
Init ==
    /\ file \in [Paths -> {0, Missing}]
    /\ used = {} /\ backups = {}
    /\ zip = NoZip
    /\ pc = "idle" /\ runs = 0 /\ inPlace = FALSE /\ unz = NoZip
    /\ index = 1 /\ attempt = 1
    /\ errors = FALSE /\ exit = "none"
    /\ before = Usable

Goto(l) == pc' = l

-----------------------------------------------------------------------------
(* Other programs.                                                          *)

\* The library puts a package at zip_path, a newer or an older one.
Fetch ==
    /\ pc = "idle" /\ zip = NoZip
    /\ zip' \in Packages
    /\ UNCHANGED <<diskVars, pc, runVars>>

\* A program starts to use a file, as its image or otherwise; a file that is
\* being written cannot be loaded.
Load(p) ==
    /\ file[p] # Missing /\ p \notin used
    /\ ~(pc = "write" /\ Entry.path = p)
    /\ used' = used \cup {p}
    /\ UNCHANGED <<file, backups, zip, pc, runVars>>

Release(p) ==
    /\ p \in used
    /\ used' = used \ {p}
    /\ UNCHANGED <<file, backups, zip, pc, runVars>>

ReleaseBackup(b) ==
    /\ b.used
    /\ backups' = (backups \ {b}) \cup {[b EXCEPT !.used = FALSE]}
    /\ UNCHANGED <<file, used, zip, pc, runVars>>

\* The backups that a sweep of the directory leaves: it does not look into
\* subdirectories, and a file in use cannot be deleted.
cleanup_old_backups ==
    IF Windows THEN {b \in backups : b.used \/ b.of \in Nested} ELSE backups

\* An instance of the program starts and calls ag_cleanup_temp.  The zip
\* cannot be removed on Windows while the updater has it open.
ag_cleanup_temp ==
    /\ zip' = IF Windows /\ pc \in InLoop THEN zip ELSE NoZip
    /\ backups' = cleanup_old_backups
    /\ UNCHANGED <<file, used, pc, runVars>>

-----------------------------------------------------------------------------
(* The updater, main.                                                       *)

Start ==
    /\ pc = "idle"
    /\ runs < MaxRuns /\ runs' = runs + 1
    /\ inPlace' \in BOOLEAN
    /\ unz' = NoZip /\ errors' = FALSE /\ before' = Usable /\ exit' = "none"
    /\ Goto("sweep")
    /\ UNCHANGED <<diskVars, zip, index, attempt>>

PreSweep ==
    /\ pc = "sweep"
    /\ backups' = cleanup_old_backups
    /\ Goto("unzOpen")
    /\ UNCHANGED <<file, used, zip, runVars>>

OpenZip ==
    /\ pc = "unzOpen"
    /\ zip # NoZip /\ find_first_dir(zip.entries) # NoDir
    /\ unz' = zip /\ index' = 1
    /\ Goto("entry")
    /\ UNCHANGED <<diskVars, zip, runs, inPlace, attempt, errors, exit, before>>

\* No zip, not a zip, no directory in it.
OpenZipFails ==
    /\ pc = "unzOpen"
    /\ \/ "archive" \in Faults
       \/ IF zip = NoZip THEN TRUE ELSE find_first_dir(zip.entries) = NoDir
    /\ exit' = "failed"
    /\ Goto("idle")
    /\ UNCHANGED <<diskVars, zip, runs, inPlace, unz, index, attempt, errors, before>>

\* Mutant: the loop goes one entry too far.
NextEntryTooFar ==
    IF index <= Len(unz.entries)
    THEN index' = index + 1 /\ Goto("entry")
    ELSE UNCHANGED index /\ Goto("remove")

\* unzGoToNextFile at the end of the loop; any result but UNZ_OK ends it.
NextEntry ==
    IF index < Len(unz.entries) /\ unz.entries[index + 1].kind # "damaged"
    THEN index' = index + 1 /\ Goto("entry")
    ELSE UNCHANGED index /\ Goto("remove")

Skip ==
    /\ pc = "entry"
    /\ Skipped(Entry)
    /\ NextEntry
    /\ UNCHANGED <<diskVars, zip, runs, inPlace, unz, attempt, errors, exit, before>>

-----------------------------------------------------------------------------
(* extract_file.                                                            *)

\* Mutant: one result for all files, the last one's.
LastExtracted ==
    /\ NextEntry
    /\ errors' = FALSE

Extracted ==
    /\ NextEntry
    /\ UNCHANGED errors

NotExtracted ==
    /\ NextEntry
    /\ errors' = TRUE

OpenEntry ==
    /\ pc = "entry"
    /\ ~Skipped(Entry) /\ Entry.data # "closed"
    /\ Goto("fopen")
    /\ UNCHANGED <<diskVars, zip, runs, inPlace, unz, index, attempt, errors, exit, before>>

OpenEntryFails ==
    /\ pc = "entry"
    /\ ~Skipped(Entry) /\ Entry.data = "closed"
    /\ NotExtracted
    /\ UNCHANGED <<diskVars, zip, runs, inPlace, unz, attempt, exit, before>>

\* "wb" truncates the file or makes an empty one.
Truncate ==
    /\ Entry.path \notin used
    /\ file' = [file EXCEPT ![Entry.path] = Partial]
    /\ Goto("write")
    /\ attempt' = 1
    /\ UNCHANGED <<used, backups, zip, runs, inPlace, unz, index, errors, exit, before>>

OpenFile == pc = "fopen" /\ Truncate

\* Mutant: it tries until the file is free.
OpenFileRetriedForever ==
    /\ pc = "fopen"
    /\ Entry.path \in used
    /\ UNCHANGED vars

OpenFileFails ==
    /\ pc = "fopen"
    /\ Entry.path \in used \/ "open" \in Faults
    /\ IF attempt < RetryCount
       THEN attempt' = attempt + 1 /\ UNCHANGED pc
       ELSE Goto("rename") /\ attempt' = 1
    /\ UNCHANGED <<diskVars, zip, runs, inPlace, unz, index, errors, exit, before>>

\* MoveFile takes the file and whoever uses it to the new name.
try_rename_locked ==
    /\ pc = "rename"
    /\ Windows /\ file[Entry.path] # Missing
    /\ backups' = backups \cup {[of |-> Entry.path, used |-> Entry.path \in used]}
    /\ used' = used \ {Entry.path}
    /\ file' = [file EXCEPT ![Entry.path] = Missing]
    /\ Goto("reopen")
    /\ UNCHANGED <<zip, runVars>>

\* Mutant: a file that stays in use is passed over.
RenameFailureSkipped ==
    /\ pc = "rename"
    /\ ~Windows \/ file[Entry.path] = Missing \/ "rename" \in Faults
    /\ Extracted
    /\ UNCHANGED <<diskVars, zip, runs, inPlace, unz, attempt, exit, before>>

RenameFails ==
    /\ pc = "rename"
    /\ ~Windows \/ file[Entry.path] = Missing \/ "rename" \in Faults
    /\ NotExtracted
    /\ UNCHANGED <<diskVars, zip, runs, inPlace, unz, attempt, exit, before>>

Reopen == pc = "reopen" /\ Truncate

\* Mutant: only the first fopen is checked.
ReopenFailureIgnored ==
    /\ pc = "reopen"
    /\ "open" \in Faults
    /\ Extracted
    /\ UNCHANGED <<diskVars, zip, runs, inPlace, unz, attempt, exit, before>>

ReopenFails ==
    /\ pc = "reopen"
    /\ "open" \in Faults
    /\ NotExtracted
    /\ UNCHANGED <<diskVars, zip, runs, inPlace, unz, attempt, exit, before>>

\* All of the entry is read and written.
Write ==
    /\ pc = "write"
    /\ Entry.data = "good"
    /\ file' = [file EXCEPT ![Entry.path] = unz.version]
    /\ Extracted
    /\ UNCHANGED <<used, backups, zip, runs, inPlace, unz, attempt, exit, before>>

WriteFails ==
    /\ pc = "write"
    /\ Entry.data = "breaks" \/ "write" \in Faults
    /\ NotExtracted
    /\ UNCHANGED <<diskVars, zip, runs, inPlace, unz, attempt, exit, before>>

\* The results of fclose and of unzCloseCurrentFile, which compares the
\* checksum, are not looked at.
WriteFailsUnseen ==
    /\ pc = "write"
    /\ Entry.data = "crc" \/ "flush" \in Faults
    /\ Extracted
    /\ UNCHANGED <<diskVars, zip, runs, inPlace, unz, attempt, exit, before>>

-----------------------------------------------------------------------------
(* The end of main.                                                         *)

RemoveZip ==
    /\ pc = "remove"
    /\ \/ zip' = NoZip
       \/ "remove" \in Faults /\ UNCHANGED zip
    /\ Goto("sweep2")
    /\ UNCHANGED <<diskVars, runVars>>

PostSweep ==
    /\ pc = "sweep2"
    /\ backups' = cleanup_old_backups
    /\ Goto("exit")
    /\ UNCHANGED <<file, used, zip, runVars>>

\* With --launch and no errors the program is started first: a Load of its files.
Exit ==
    /\ pc = "exit"
    /\ exit' = IF errors THEN "failed" ELSE "ok"
    /\ Goto("idle")
    /\ UNCHANGED <<diskVars, zip, runs, inPlace, unz, index, attempt, errors, before>>

Die ==
    /\ "die" \in Faults
    /\ pc # "idle"
    /\ exit' = "died"
    /\ Goto("idle")
    /\ UNCHANGED <<diskVars, zip, runs, inPlace, unz, index, attempt, errors, before>>

extract_file ==
    \/ OpenEntry \/ OpenEntryFails \/ OpenFile \/ OpenFileFails
    \/ try_rename_locked \/ RenameFails \/ Reopen \/ ReopenFails
    \/ Write \/ WriteFails \/ WriteFailsUnseen

main ==
    \/ PreSweep \/ OpenZip \/ OpenZipFails \/ Skip \/ extract_file
    \/ RemoveZip \/ PostSweep \/ Exit

Others ==
    \/ Fetch \/ ag_cleanup_temp
    \/ \E p \in Paths : Load(p) \/ Release(p)
    \/ \E b \in backups : ReleaseBackup(b)

Next == Start \/ main \/ Die \/ Others

Spec == Init /\ [][Next]_vars

\* The updater waits for nothing but its own sleep between two attempts.
FairSpec == Spec /\ WF_vars(main)

-----------------------------------------------------------------------------
(* Properties.                                                              *)

TypeOK ==
    /\ file \in [Paths -> Contents]
    /\ used \subseteq Paths
    /\ backups \subseteq Backups
    /\ zip \in Packages \cup {NoZip}
    /\ pc \in UpdaterPc
    /\ runs \in 0 .. MaxRuns /\ inPlace \in BOOLEAN
    /\ unz \in Packages \cup {NoZip}
    /\ pc \in InLoop => unz # NoZip /\ index \in DOMAIN unz.entries
    /\ index \in Nat /\ attempt \in 1 .. RetryCount
    /\ errors \in BOOLEAN
    /\ exit \in {"none", "ok", "failed", "died"}
    /\ before \subseteq Paths

\* The files are never in a worse state than the updater knows: a file that it
\* found usable and that is not so now is the one it is at, or its error is
\* counted and will be the exit code, whatever else failed or was retried.
HarmIsCounted ==
    \A p \in Paths :
        /\ unz # NoZip /\ Sound(unz.entries) /\ exit # "died"
        /\ p \in before \ Usable
        => errors \/ (pc \in {"reopen", "write"} /\ Entry.path = p)

\* Exit code 0 says that every file of the package is installed (design.md
\* 5.3, steps 5 and 8), although files were in use, names were taken back
\* and backups swept on the way.
SuccessMeansInstalled ==
    exit = "ok" /\ Sound(unz.entries) =>
        \A p \in ToInstall : file[p] = unz.version

\* Every updater that is started ends, however long files stay in use.
UpdateEnds == pc # "idle" ~> pc = "idle"

-----------------------------------------------------------------------------
(* The updater implements Installation.                                     *)

Running == pc \in InLoop \cup {"remove", "sweep2", "exit"}
Installed == [p \in Paths |-> IF p \in Usable THEN file[p] ELSE Missing]
Target == IF unz = NoZip THEN 0 ELSE unz.version
InOrder == unz # NoZip => Sound(unz.entries)
Report == IF Running THEN "installing" ELSE exit

Promise == INSTANCE Installation WITH
    Unusable <- Missing, installed <- Installed, package <- ToInstall,
    target <- Target, sound <- InOrder, report <- Report

\* Only the files of the package are touched, and an update is reported as a
\* success only when all of them are the new ones.
ImplementsInstallation == Promise!Spec
=============================================================================
