# AGUpdater in TLA+

AGUpdater distributes versions of a program: a server keeps zip packages and a
table of versions, an administrator maintains them through a web page, client
programs ask for newer versions, download a package and hand it to an updater
that unpacks it over the installation. This directory holds TLA+ models of the
parts whose order of steps matters, TLC configurations that check them on small
instances, and proofs checked by TLAPS.

## 1. The system

| component | source | state | operations |
|---|---|---|---|
| version database | `server/src/database.cpp` | tables `versions` and `download_logs` behind one sqlite connection `db_`; the connection's transaction and its "last call" results | insert, look up, list, update, delete, batch delete in a transaction, count and log a download |
| package store | `server/src/admin_api.cpp`, `client_api.cpp` | `storage_dir/<version>.zip`, kept in step with the table by the handlers | upload, list, update, delete, batch delete, statistics; updates, versions, download |
| sign-in and request stamps | `server/src/auth.cpp`, `client/lib/src/auth.cpp` | maps of nonces and tokens, a window of recent client nonces | challenge, login, token check; stamp check |
| version numbers | `server/src/version_util.cpp`, `client/lib/src/version_util.cpp` | none | parse, compare, "newer than" filter |
| update library | `client/lib/src/ag_updater.cpp`, `http_client.cpp` | temporary files and directories, one thread per call | check, download, verify, stage, start the updater, clean up |
| version manager window | `client/manager_main.cpp` | list, selection, `g_updating`, message queue | refresh, select, sort, download, update, close |
| updater program | `client/updater_main.cpp` | the installation directory | sweep old backups, extract with backup renames and retries, start the program |
| admin web page | `server/web/index.html` | view state | issues the admin requests |
| glue | `http_server.cpp`, `main.cpp`, `config.cpp`, `src/log.cpp` | configuration, log file | start, route, log |

How they interact. httplib serves every request on a thread of its pool
(eight at least). All handlers share one `Database` object, so one sqlite
connection: sqlite serialises single calls, but there is no lock around the
calls of a handler. The web page can have several admin requests in flight
(several tabs, and its delete buttons stay enabled while a delete runs). The
client programs talk to the server over HTTPS only. In the client, the manager
window calls the library, whose threads call back and post messages to the
window, and the library starts the updater as a process of its own.

What is hard here:

* a handler changes the database and the file system in separate steps, and a
  crash or another handler may come between any two;
* "how many rows did I change", "which id did I insert" and "why did it fail"
  are questions to the shared connection, asked after the call they are about;
* the tables of challenges, sessions and stamps are shared by all pool threads
  without a lock, and every access to them is a step of its own;
* `BEGIN` ... `COMMIT` of one handler encloses whatever the others do meanwhile;
* a download looks up a row, opens a file, streams it and writes statistics,
  long apart, while the version may be deleted and uploaded again;
* in the client, callbacks of library threads meet a window whose list and
  selection have changed, and the updater overwrites a running program.

What makes each component correct:

* database: ids are never used twice, a transaction is always ended;
* store: a row always has its file, and the file the content of the row's
  sha256; a request is atomic to everybody else and to a restart; an answer
  tells the truth; statistics stay with the version that was downloaded;
* sign-in: a challenge opens one session, whoever else signs in meanwhile, a
  session lasts its 24 hours, a fresh stamp of a client is accepted and a used
  one is not;
* version numbers: the order is total and the same everywhere, "newer" is what
  the order says;
* library: a file handed to the updater has the announced sha256, every call
  ends with exactly one final callback;
* manager: one update at a time, of the version the user chose;
* updater: every file of the installation is the old one or the new one, never
  missing, and success is reported only when all are new.

`PROJECT.json` lists the hazards with their lines, and the properties for them.

## 2. Plan

Done:

1. `Database`, `PackageStore`, `Catalog` and the proofs about them: the core of
   the server.
2. `Updater`, `Installation` and their proofs: the installation directory during
   extraction, with locked files, failing renames and retries, death anywhere.
3. `Manager` and its proofs: the window, its message queue, the callbacks of the
   library's threads and the updaters they start. The calls of the library are
   modelled here, since all their interleavings come from the manager; and
   `UpdateCycle`, what the whole of it promises the user.
4. `SignIn` and its proofs: the tables of challenges, sessions and stamps, any
   number of pool threads, expiry, restarts.
5. `SemVer` and its proofs: what is accepted as a version, its order in three
   implementations, the offer to a client.
6. The proofs about the requests and downloads of the store: `StreamsTheRow`,
   the statistics, acknowledged uploads, the owner of a transaction, each for as
   many administrators and faults as it holds for, and the refinement of `Catalog`
   for one administrator.

Left, in this order:

7. `ag_apply_update` and the staging directory, for programs that use the library
   without the manager; two managers at once.
8. Directories in `Updater`, so that the failure to create one is a step.
9. Sorting in `Manager` by the texts of `SemVer` instead of a given key.

At most a dozen runs are planned, one for each question. The theorems worth
having are the ones whose invariant relates the steps of one actor to what others
may do in between: they are stated for any number of actors.

## 3. The modules

**`Database`** is the shared connection. `rows` is the table by version
(`UNIQUE`), with the count and the number of log entries of each row; `nextId`
the AUTOINCREMENT counter; `saved` what `ROLLBACK` would restore, or `NoTx`;
`nextLogId` the counter of `download_logs`; `changes`, `lastRowid` and `errmsg` the results that `sqlite3_changes`,
`sqlite3_last_insert_rowid` and `sqlite3_errmsg` would give. Each operator is
the effect of one call. `StatementFails` is a statement that reports an error:
it has no effect of its own, but sqlite may roll back the open transaction,
whoever began it, when the error is an I/O error, a full disk or a shortage of memory.
Texts (description, file name, device, address) are left out; a content stands
for the bytes of a package and for their sha256.

**`PackageStore`** adds the directory and the handlers. An element of `Admins`
is an admin session with at most one request in flight, `apc` is where its
handler is; an element of `Clients` is a download. Every call of a handler to
the connection or to the file system is one action, in the order of the code:

| request | actions |
|---|---|
| upload | `ReceiveUpload` `CheckExists` `OpenFile` `WriteFile` `Insert` `AnswerUpload`; on errors `OpenFileFails` `WriteFileFails` `ReadError` `UndoUpload` |
| delete | `ReceiveDelete` `Delete` `ReadChanges` `UnlinkOne` |
| update | `ReceiveUpdate` `Update` `AnswerUpdate` |
| batch delete | `ReceiveBatch` `BeginBatch` `DeleteEach` `CommitBatch` `RollbackBatch` `UnlinkOne` |
| download | `Lookup` `OpenPackage` `PackageMissing` `StreamDone` `StreamCut` `Count` `Log` |
| lists, statistics, requests refused after a look-up | `ReadOnly` |

`write_file` looks at the result of `fwrite` and not at that of `fclose`, which writes what
is still buffered; the fault "flush" is a disk on which that fails (`Short`).

Files are inodes: `dir` maps a version to the inode its name has, `disk` an
inode to its content, so a stream keeps reading a file whose name is removed.
`fopen "wb"` truncates, and two writers of one file may leave a mixture; both
are the content `Partial`. The batch is a set: the order of its versions is
arbitrary, and a version that is listed twice is left out. Requests refused for
their own fields (version format, JSON, zip magic, size) change nothing and are
left out. `effect` and `reply` are history: what the statement of a request
really did and what was answered.

`Faults` says what may fail: opening, writing or removing a file, flushing it ("flush",
which nobody notices), a statement, a `SELECT`, the automatic rollback, the process. `Crash` is the death of the
process and its start on what is on disk; sqlite's recovery drops the open
transaction.

**`Catalog`** is what the administrator is promised: a version is published with
a content or not; a request (publish one version, withdraw some, describe one)
takes effect in one step or not at all; an upload that is answered with success has taken
effect, and so has any other request so answered, unless it found nothing to change
(`FindNothing`). A failure answer promises nothing, since a process that dies
after the effect gives none. Whether there was something to change the answer does not tell
either: a delete of a version that is not there is answered with success when
another statement on the connection has changed a row. `PackageStore` implements it under the mapping at its
end: a version is published when its row is committed (`Published`), a request is
pending until the statement or COMMIT that makes the difference (`Pending`), after
which only its files or its answer are left to do (`Effected`, or `Voided` when no row
matched), and its
answer is a success for 200 and 201 (`Outcome`).

**`MCPackageStore`** has the symmetry sets and the view for TLC.
**`PackageStore_proof`**, **`RowHasFile_proof`**, **`Downloads_proof`** and
**`Requests_proof`** have the proofs; each extends the one before.

**`Updater`** is the updater program, one process at a time, and the files it
meets. `file` has the content of each file of the installation: the version of
the package it came from, `Partial` or `Missing`. `used` are the files that other
programs have open, `backups` those renamed to `<file>.old-<tick>`. `pc` follows
`main` and `extract_file`:

| code | actions |
|---|---|
| sweep before and after, `cleanup_old_backups` | `PreSweep` `PostSweep` |
| open the zip, find its root directory | `OpenZip` `OpenZipFails` `find_first_dir` |
| the loop over the entries and what it passes over | `Skip` `NextEntry` `Skipped` |
| `unzOpenCurrentFile` | `OpenEntry` `OpenEntryFails` |
| `fopen` with its attempts | `OpenFile` `OpenFileFails` |
| `try_rename_locked`, then `fopen` again | `try_rename_locked` `RenameFails` `Reopen` `ReopenFails` |
| reading and writing the data | `Write` `WriteFails` `WriteFailsUnseen` |
| remove the zip, exit code | `RemoveZip` `Exit` |
| killed | `Die` |

`Load`, `Release`, `ReleaseBackup` are other programs, `Fetch` a later download,
`ag_cleanup_temp` the start of another instance of the program in the middle.
`Entries` says what an entry of a zip can be: under the root directory or not, a
directory, a path with "..", a damaged record; data that is good, cannot be
opened, breaks off, or has a wrong checksum. `Faults` says what else may fail.

**`Installation`** is what the owner of the installation is promised: an update
touches only the files of its package, in any order, a file is then old, new or
unusable, and success is reported only when all of them are new. `Updater`
implements it under the mapping at its end. **`MCUpdater`** has the zips.

**`Manager`** is `manager_main.cpp` with the library calls behind it. The window
has one thread that takes messages from `queue`; `boxes` are the open message
boxes, whose own loop dispatches messages while the window behind them takes no
input. The variables `g_...` are the globals of that name.

| code | actions |
|---|---|
| `ag_check_update`, `on_check_callback` | `CheckFails` `CheckAnswers` `PostCheckDone` |
| `ag_download_update`, `http_download`, `on_download_callback` | `CreateFile` `CreateFileFails` `Receive` `ReceiveFails` `Verify` `VerifyFails` `PostDownload` |
| the updater process, `pipe_reader_thread` | `OpenZip` `ZipNotFound` `UpdaterEnds` |
| `WndProc`, posted messages | `WM_CHECK_ERROR` `WM_CHECK_DONE` `WM_DOWNLOAD_ERROR` `WM_DOWNLOAD_DONE` `WM_UPDATE_DONE` |
| the rest of `WM_DOWNLOAD_DONE` after its message box | `DoNotInstall` `Install` `InstallFails` `CloseError` |
| selecting a row, a column header, the buttons | `Select` `Sort` `do_refresh` `do_download` |
| closing the window or losing the process, and `WinMain` | `Restart` |

A final callback changes the globals under the lock and posts its message after
it: two actions, so that the window may act in between. The temporary file
`<version>.zip` is shared by everyone who names that version: `tmp` is its content, and
an updater that has it open while a download truncates it has `got` a mixture.
`std::sort` is not stable, so `Sortings` is the set of all results it may have. A version
stands for its whole row, the announced sha256 included.

The window trusts its user: some buttons are enabled too early. `Haste` is the
set of things that the user does all the same. `Haste = {}` is a user who waits for
what is under way: for the list of a check before sorting it or asking again, for
the message about a download and for the end of an updater before the next download. `"check"`
does not wait for the list, `"announce"` downloads between the end of a download
and the message about it, `"update"` downloads while an updater runs, `"restart"`
closes the manager then. Selecting a row is never held back: it enables the Download button
also while an updater runs, and `update_detail` has to leave the log alone.

**`UpdateCycle`** is what the user is promised: a version is chosen, fetched,
offered once its package is the one announced, applied if the user agrees, and the
cycle is over before another begins; from the offer on nothing touches the package.
`Manager` implements it, for a user who waits, under the mapping at its end. `Stage`
finds out where the one update under way is: in a download thread, in a message or
a box, in an updater, or in the message of its end, which is when the Refresh
button is still off. `Target` is its version, which the code hands on from the index
of a row through the argument of a thread, `g_dl_file_path`, the message
box and the command line of the updater, and `Package` what the zip of that version holds, or
what the updater has got of it.

**`MCManager`** has the lists. **`Updater_proof`** and **`Manager_proof`** have
the proofs.

**`SignIn`** is the server's `auth.cpp`. An element of `Threads` is a thread of
the pool with at most one request; `nonces`, `tokens` and `recent_nonces` are the
tables of that name, and every access to one of them is an action:

| code | actions |
|---|---|
| challenge, `generate_nonce` | `AskChallenge` `CleanupNonces` `InsertNonce` |
| login, `verify_login` | `PostLogin` `FindNonce` `CheckUsed` `CheckAge` `MarkUsed` `CleanupTokens` `InsertToken` |
| any other admin request, `verify_token` | `UseToken` `FindToken` `CheckExpiry` |
| client request, `verify_xauth` | `SendStamped` `CheckTime` `FindStamp` `PushStamp` |
| two threads in one table, an entry used after it was erased | `Meet` `UseErasedNonce` `UseErasedToken` `LoseEntry` |
| time, a new process | `Tick` `Restart` |

A login is right, has another name (refused before the table is looked at, so the
challenge stays unspent), or another password (refused after the challenge is marked).
A stamp is entered in the window before its signature is compared. Whether a
signature is right is an input, and `random_hex` draws values that were not drawn
before. A login and a stamped request may come any number of times, also several at once: the
server is there for any sender, and promises that a challenge and a stamp serve once
(`design.md:219`, `requirement.md:50`). Two copies of a login may both pass the check at
`auth.cpp:146` before either marks the challenge at line 161, and two copies of a stamp may
both be searched for at line 269 before either is entered at line 279. Two history variables
say when that has happened: `doubled` are the challenges of which two logins were past the
check at once, and `looked` is how many stamps had been entered when a thread searched
the window.

There is no lock. Two threads in one table while one of them changes its shape are
undefined behaviour, and so is an iterator whose entry another thread has
erased (both are reachable: `verify_token` erases an expired session that another
thread has just found). The module says what may come of it: `torn` has the tables
it happened to, entries of a torn table may vanish, and the decisions of the thread
concerned are arbitrary, until the process is started again. The properties are stated
for tables that are not torn.

**`SemVer`** is `version_util.cpp` with the two other implementations of the
order, the manager's and the page's. A text is a sequence of fields as `strtol`
sees them: what is in front of the digits, leading zeros, the number, whether
something follows. `strtol` stops at the width of a long, the result is cut to an int,
and comparing takes a difference of ints. So "+1.0.0", "1. 2.0" and "1.-0.0" are
accepted, several texts mean one version, and beyond an int the page orders
differently from the server. `design.md:834` gives an expression for version numbers that has
these three refused; the code has no such expression, and `Upload` and `CheckUpdates` accept
what `semver_validate` accepts. The state is the server's table, the version a client asks
with and the offer it is given: `Upload`, `Delete`, `CheckUpdates`. The manager asks with
"0.0.0" and lets its user install any row, so nothing is said of what a client installs. `std::sort`
leaves texts of equal numbers in any order, and everything in any order when the
comparison goes in circles, which it does beyond an int.

**`MCSignIn`** and **`MCSemVer`** have the instances, **`SignIn_proof`** and
**`SemVer_proof`** the proofs.

Definitions commented "Mutant:" are plausible mistakes. They are not part of
the model; each shows, in place of the definition after it, that a property
really depends on the code being as it is.

## 4. The runs

| run | actors | faults | shows |
|---|---|---|---|
| `store_one_admin` | 1 admin, 1 client, 2 versions, 2 contents, 3 ids | write, remove, statement, crash | `RowHasFile`, `StreamsTheRow`, `StatsStayWithTheRow`, and that every request is atomic (`ImplementsCatalog`) |
| `store_disjoint` | 2 admins on different versions, 1 client | write, remove | the shared connection does not carry damage from one version to another: `RowHasFile`, `StoredWhenAcknowledged`, `CountCoversLogs` |
| `store_shared` | 2 admins, 1 version | statement, rollback, select | a transaction always has a batch handler that ends it (`TransactionHasOwner`, `TransactionsEnd`) |
| `store_overlap` | 2 admins, 1 version | none | violation: after an acknowledged upload, with nothing in flight, the file is gone |
| `store_answers` | 1 admin, 1 client, 1 version | none | violation: a delete is answered with 404 although it has deleted the row, since a download's count comes in between |
| `updater` | 2 updates, 2 files (one nested, with the updater's own name), zips in order, mixed and damaged | open, rename, write, remove, die | `HarmIsCounted`, `SuccessMeansInstalled`, the refinement of `Installation`, and that every update ends (`UpdateEnds`) |
| `updater_success` | the same, one zip | flush | violation: exit code 0 with a file that is not complete |
| `manager` | a user who waits but selects rows at any time, 2 versions, 2 download threads, 2 updaters, 1 restart | any call of the library | `InstalledIsVerified`, `LogStays`, `DownloadsTheSelected`, the refinement of `UpdateCycle` |
| `manager_hasty` | a user who downloads early and restarts, 1 version, 2 download threads, 1 updater | any call of the library | `OneDownload`, and that the buttons come back (`ButtonsComeBack`) |
| `manager_updating` | a user who downloads while an updater runs | any call of the library | violation: `g_updating` is false while an updater runs |
| `signin` | 2 pool threads, 2 challenges, 2 tokens, 2 stamps, any number of copies | restart, undefined behaviour | `OneLoginPerChallenge`, `LoginAnswers`, `SessionAnswers`, `StampAnswers`, `StampOnce` |
| `semver` | 14 texts, 3 rows, 1 client | none | the orders agree (`OrdersAgree`), the offer has the newer versions in order (`OfferIsNewer`, `OfferAscends`) |

The two violations of the store are one cause seen twice: handlers that assume nobody
else is at work. In the shortest trace of `store_overlap` a delete of a version
that does not exist yet is answered as a success, because `sqlite3_changes`
tells it of the INSERT of the upload, and removes the file of that upload; two
overlapping uploads reach the same state through `UndoUpload`. In `store_answers`
one administrator and one download are enough: a version is uploaded, the download looks up its
row, a delete removes it, the download's UPDATE of the count matches nothing, and
`sqlite3_changes` then tells the delete that nothing was deleted. It answers 404 and leaves
the file. `insert_version` asks for the last id in the same way: after an upload, a delete
and the upload of the version again, whose row has id 2, a download that logs in between
(id 1) makes the answer say 1.

`updater_success`: `extract_file` looks at `fwrite` but not at `fclose`, which
writes what is still in the buffer, so a full disk at that moment leaves a short
file, no error counted, and exit code 0. The server's `write_file` has the same omission, see
below. `manager_updating`: selecting a row
enables the Download button by `g_downloading` alone, so a second update can be
started while the first runs, and the end of either, or its failure to start,
clears the flag of both.

What does not hold is kept out of the passing runs by their constants, and worth
knowing. In the manager, `DownloadsTheSelected` fails for a user who
refreshes or sorts while a check is in flight: `g_versions` is replaced by the check's thread
before the window shows it, and `WM_CHECK_DONE` leaves `g_selected` and the
button as they are, so Download takes another row than the one that was selected; and
`LogStays` fails when a check ends that was started before the update.
`InstalledIsVerified` fails for a user who downloads the same version again
while an updater reads its zip. 

In the store, `StoredWhenAcknowledged`, `RowHasFile`, `StreamsTheRow` and `ImplementsCatalog` fail
with the fault "flush", by one administrator alone: the version is free, the file is opened, `fwrite` takes
the content, `fclose` (`admin_api.cpp:37`) cannot write the rest of it and nobody looks, the row is
inserted and 201 answered; a download then promises the size of the row and
streams the short file. `RowHasFile` fails with the fault "select" (`get_version_by_name` says
"not found" for every error, so an upload overwrites a live file); it fails for
two administrators on different versions when a transaction is rolled back
(a delete inside another handler's transaction removes its file, and the
rollback brings the row back); `ImplementsCatalog` fails with the fault
"rollback" (a download's UPDATE can roll back the batch half way, which then
goes on in autocommit mode); `CountCoversLogs` fails when a statement may fail,
since nobody looks at the result of the count. `OrdersAgree` and `OfferAscends`
fail for numbers beyond an int.

In the sign-in, nothing beyond the types holds of a torn table. With the tables intact a
challenge still opens two sessions when two threads pass the check at `auth.cpp:146` before
either comes to line 161, and a stamp is entered twice when two threads search the window
before either enters it. `OneLoginPerChallenge` and `StampOnce` except exactly these cases
(`doubled`, `looked`), and without the exceptions TLC finds both violated; what they say is that
there is no other way: no cleaning, expiry, eviction or restart makes a challenge or a
stamp serve again.

**Bounds, store.** `MaxId` bounds the uploads (two or three: a version, another one, and
one that comes again after a delete), `MaxCount` the downloads counted per row,
`Inodes` the files that can exist at once: one per version, one per open
stream and one per open write are in use at most, so the bound never blocks a
step. Two versions are what a batch needs to be half done. Symmetry is used in
the runs without liveness: no definition tells administrators, clients, versions
or contents apart. The view `Relevant` leaves out the names of inodes, and
`changes`, `errmsg`, `lastRowid`, `effect` and `reply` where no later step and
no property of the run reads them before they are written again; the runs that
read them use no view.

**Bounds, updater.** Two files are enough for one to be settled while another is
at work, and one of them is both in a subdirectory, where the sweep does not
look, and passed over in place. Two runs let the second find what the first left:
half a file, backups, the zip of another version. Two attempts instead of the
three of the code (`RetryCount`) differ in nothing but the number of waits.
`MaxRuns` stops the system, so deadlock is not checked.

**Bounds, manager.** Two rows have the same description, so that sorting may
leave them in either order, and one list lacks the newer row. `MaxChecks` does
not bind in `manager`, where a user who waits has one check in flight at a time.
Two threads are the two downloads of `OneDownload`; a third click is not made
before one of them has posted its message. `manager` has more updaters than
a user who waits starts, `manager_hasty` has one, `manager_updating` the two that its
question is about. One restart is enough for an updater to be left behind.

**Bounds, sign-in.** Time counts in lives of a challenge, so `NonceLife = 0` is one
that is good in the unit it was drawn in; a session lasts one unit more, a stamp is tolerated
in its own unit (`TIMESTAMP_TOLERANCE = 0`), and `Skews` has a time that is right and one
that is too far ahead. Two units of time are enough to see challenges and sessions end, and
are more than twice the tolerance, so that a stamp could come again too late. The window holds one
stamp, so the second evicts the first. Four requests (`MaxRequests`) are what
a challenge, its login, the login again and a request with the token take; a later
login that cleans an open session takes one more, and is covered by the theorem
`SessionsLast` only. The bound
stops the system, so deadlock is not checked. Threads, challenges, tokens and stamps
are symmetric.

**Bounds, version numbers.** Ints have 4 bits and longs 6, so that texts of each
kind exist: within an int, beyond it, beyond a long. The texts cover every
way a field may be refused or be accepted in an unusual form. Three rows are
what an order that is not transitive needs.

**Fairness.** Store: `FairSpec` asks weak fairness of each admin's handler: a pool
thread that runs a handler keeps running it, and no step of a handler waits for
another. Nothing is asked of new requests, of clients or of faults. Deadlock is
not checked where a bound may stop the last request. Updater: weak fairness of
`main`, which waits only for its own sleeps between two attempts; nothing is asked of other
programs, so files may stay in use for ever. Manager: weak fairness of the
message loop, of each download thread (`http_client.cpp` sets timeouts), of
posting a check's result, of each updater (it ends: `UpdateEnds`), and of
the user answering an open message box, without which no window comes back.
Nothing is asked of the server's answers to a check or of other clicks.

## 5. The proofs

`PackageStore_proof` proves `TypeCorrect`: `Spec => []TypeOK`, for any number of
administrators, clients, versions and inodes, and all faults. `TypeOK` is not
inductive: a handler reads its content at `insert` and a download its version at
`open`, so `Carrying` says that they have one there.

`RowHasFile_proof` proves that a row always has its file:

* `RowsHaveFiles`: under `DisjointSpec` (the requests in flight concern
  different versions), with any number of administrators, when statements do not
  fail and nothing crashes;
* `OnlyAdministrator`: under `Spec` with one administrator, with failing
  statements, automatic rollbacks and crashes at any point.

Both assume that a failing `SELECT` does not pass for an empty one and that `fclose` writes what is
buffered (`FailuresShow`): neither failure shows in the code, and section 4
says what happens then. Both
allow failing file operations other than that and any number of downloads. The two come from one
inductive invariant, `StoreInv`. Its parts: no two versions share a file
(`OneName`); the rows have their files (`BackedBy`); each handler may rely on
what its earlier steps established (`Handler`: its version has no row while it
writes or removes the file, the file it has open is that of its version, and what
a batch passed is gone as long as its transaction is open); and the rows a
rollback would bring back still have their files because the only administrator
is inside the batch (`Undoable`), or no rollback can happen at all
(`NeverUndone`). `OtherHandlers` is the heart: a step that stays within the
versions of its own request (`Footprint`) leaves the facts of all other handlers
alone. The invariant was checked with TLC on the instances of `store_one_admin`
and `store_disjoint` before it was proved.

`Updater_proof` proves, for any files, packages, number of runs, attempts and
either build: `TypeCorrect`; and, when no failure goes unseen (`"flush"` is not a
fault), `SuccessIsTrue`, `HarmIsKnown` and `KeepsThePromise`, the refinement of
`Installation`. `SuccessMeansInstalled` speaks of the end and says nothing of the
loop, so the invariant `Inv` adds what holds on the way: entries already passed
are installed, skipped or counted as errors (`PassedSettled`), all are at the end
of the loop (`AllSettled`), what the loop works on is a file to install
(`OnlyToInstall`), exit codes are given only at the end (`ExitAtTheEnd`), and a run that
has not opened its zip has not changed a file (`Untouched`).

`Manager_proof` proves, for any versions, lists, columns and numbers of threads,
updaters, checks and restarts: `TypeCorrect` and `NeverTwoDownloads` for any user,
the latter because a thread that is not yet through has `g_downloading` set; and for a user
who waits (`Haste = {}`): `VerifiedIsInstalled`, `SelectedIsDownloaded`, `LogIsKept`,
`FlagIsRight`, `ButtonsAreBack` and `KeepsTheCycle`. They need one invariant together: only one job is under way, be
it a download, a message about it, a box, an updater or its last message (`OneJob`);
while it is, the Refresh button is off (`ButtonsOff`) and the two flags say which
it is (`FlagsTell`), so that a Download button enabled by a selection starts nothing
for a user who looks (`NothingRuns`); from verification to the end of the updater the zip is
the one verified (`ZipIsGood`); and an enabled Download button has a selected row
behind it (`IndexIsSelected`). Each was checked with TLC first.

`ButtonsAreBack` is the converse of `ButtonsOff`: the Refresh button is off only while
one of these jobs is there to turn it on again, so no path through the library,
the boxes and the updater forgets it. It is the safety part of `ButtonsComeBack`; that the
jobs end is liveness and left to TLC.

`KeepsTheCycle` is the refinement of `UpdateCycle`. Its mapping chooses among
threads and updaters, so the proof first shows what it amounts to when there is one
job at most (`View`: each kind of job decides stage, target and package), and then
goes through the actions: a check, a sorted list or a Refresh
is a stutter or changes the choice, `do_download` a `Start`, every call of the download thread a `Fetch`,
`Offer` or `End`, the answer to the box an `Apply` or a `Settle`, and so on. The hypothesis is
needed: a second download of a hasty user begins before the first update is over.

`Downloads_proof` starts with what a transaction is. `TransactionsOwned`: an open one
has a batch handler that ends it, for any number of administrators on any versions and
all faults. When no statement fails there is more (`Batches`): a batch past its
BEGIN is in its own transaction and alone in it, so only the death of the process ever
undoes anything. `RowSteps` says once what any step may then do to a row, and
what follows cites it.

The rest follows a download from the row it looked up to its statistics.
`StatisticsStay` (`StatsStayWithTheRow`) rests on ids: no two rows have one, what a
rollback would restore included, and no id beyond the counter is known to anybody (`IdInv`).
It holds for any administrators on any versions, with failing `SELECT`s and file
operations and crashes, when no statement fails or there is one administrator.
`RowIsStreamed` (`StreamsTheRow`) adds `StreamInv`: a row with the id that was looked up
is of the version looked up, and once the stream runs, its inode is the one of
that row's name and the size promised is that of the row's content. It holds for any number of downloads under the conditions of
`RowsHaveFiles`, and with one administrator under those of
`OnlyAdministrator` (`OnlyAdministratorDownloads`).

`Requests_proof` is about the requests:

* `UploadsAreStored`: an upload answered 201 has its row and its file, for
  administrators on different versions, whatever `SELECT`s and file operations other than `fclose` fail and
  wherever the process dies, and with one administrator also when statements fail. Here rows
  may lack their files, so `StoreInv` is of no use; `FileInv` is the part of it that needs no
  row: from the closing of its file to the answer nobody else touches the file of an
  upload. `RowInserted` says the same of its row from the INSERT on. Both are what the
  agreement of the administrators (`Disjoint`) is for;
* `LogsAreCounted`: the counts cover the logs, for any finite number of
  downloads and any administrators on any versions, as long as no statement fails, crashes included: the
  rows a crash goes back to are covered too (`SavedCovered`), since the downloads
  that had counted are gone with the process;
* `RequestsAreAtomic`: the handlers of one administrator implement `Catalog`, with
  failing statements and file operations and crashes anywhere, but
  without automatic rollback, of which section 4 says what it does. A
  request changes what is published in one step: the INSERT or DELETE outside of a transaction, the
  COMMIT of the batch. `AtomicInv` says what its other steps rely on: in the
  transaction of a batch only the batch's own versions differ from the rows of BEGIN.

`SignIn_proof` proves, for any number of threads, challenges, tokens and
stamps, any lifetimes and any size of the window: `TypeCorrect`, `OneLogin`,
`LoginsAnswered`, `SessionsLast`, `FreshStampsPass` and `StampsComeOnce`. The
logins need one invariant together (`LoginInv`): two threads are past the check with
one challenge only when it is in `doubled` (`Apart`); an entry is marked exactly when a
login has used it up, and a challenge that is not in the table was used up or is too old
(`NoncesSound`); and what each login has established at its earlier steps still holds,
whatever was cleaned since: unless the challenge is in `doubled`, no login has used it up
before (`LoginSound`). For the stamps (`StampInv`), the window is the end of all that was
entered (`EndOf`), what a thread is about to enter was not in the window when it searched
it, at the length `looked` of that time (`Unseen`), and the clock it has read is near the
stamp's time (`Clocked`).

`SemVer_proof` proves, for any widths of int and long: `OneOrder`, that the three
implementations order any two accepted texts within an int as semver orders what they mean, and
from it `AllOrdersAgree` and `NewerAreOffered` for any texts and tables.
`OfferIsSorted` (`OfferAscends`) needs that sorting has a result at all, since
`Sortings` lets `std::sort` answer anything when there is none. That every finite set can
be put in order is an induction over data; the proof goes around it (`Sortable`) by
numbering each text with how many are before it, for which the cardinalities
of the library's finite sets are enough.

Every safety property of the passing runs is a theorem, and so are the
three refinements. Only model-checked is liveness under fairness
(`TransactionsEnd`, `UpdateEnds`, `ButtonsComeBack`), which is out of the prover's
reach. Each theorem holds under the hypotheses it names, and the failures that section
4 reports are what they exclude.

## 6. Not modelled

TLS, routing, configuration and logging are not modelled because no property
depends on them. Of the web page only the order of its list and the moment it posts a
login are (`SemVer`, `SignIn`); its requests are those of any administrator.

Inside the sign-in: hashes and their comparison, the secrets, random values that
repeat, and a clock that goes back.

Inside the store: the text of descriptions and logs, paging (the
total and the page come from two SELECTs and may disagree), the creation of the
storage directory, and the termination of a stream whose file was truncated under it
(the provider then delivers nothing, again and again).

Inside the updater: the creation of directories, two updaters at once (the
manager's run shows how that comes about), starting the program, which is a
`Load` of its files, and records of the zip's directory that can be read at one
time and not at another.

Inside the manager and the library: parsing of the server's answers, progress and
log lines, the staging directory and the copy of the updater in it,
`ag_apply_update`, a second manager at the same time, cancelling (the code has none),
and two rows of one version with different packages.
