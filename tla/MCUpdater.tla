----------------------------- MODULE MCUpdater ------------------------------
(***************************************************************************)
(* Instances of Updater for TLC: packages with what the loop over the      *)
(* entries tells apart.  lib is in a subdirectory and named like the       *)
(* updater, so that it is passed over in an update in place.               *)
(***************************************************************************)
EXTENDS Updater

CONSTANTS exe, lib, app

In(d, k, p, x) == [dir |-> d, kind |-> k, path |-> p, data |-> x]
File(p, x) == In(app, "file", p, x)

\* A package in order: the root directory, then its files.
Plain == <<In(app, "folder", exe, "good"), File(exe, "good"), File(lib, "good")>>
\* Files outside of the root directory, a path with "..", and a file that comes
\* twice and cannot be read the second time.
Mixed == <<In(NoDir, "file", exe, "good"), File(lib, "good"),
           In(app, "dots", exe, "good"), File(lib, "breaks")>>
\* An entry that cannot be opened, and damage that nobody looks at.
Damaged == <<File(exe, "crc"), File(lib, "closed"), In(app, "damaged", exe, "good"),
             File(exe, "good")>>

Zip(v, entries) == [entries |-> entries, version |-> v]
OneZip == {Zip(1, Plain)}
AllZips == {Zip(1, Mixed), Zip(1, Damaged), Zip(2, Plain)}
=============================================================================
