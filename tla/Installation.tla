---------------------------- MODULE Installation ----------------------------
(***************************************************************************)
(* What the user of a program is promised of an update: it touches only    *)
(* the files the package brings, each ends up as the package has it or is  *)
(* known to be unusable, and success is reported only when all of them     *)
(* are as the package has them.  Of a package that is damaged itself only  *)
(* the first is promised.                                                  *)
(***************************************************************************)
EXTENDS Naturals

CONSTANTS
    Paths,      \* the files an installation may have
    Unusable    \* "no file, or not all of it"

VARIABLES
    installed,  \* the version each file is of, or Unusable
    package,    \* the files of the update in progress, or of the last one
    target,     \* the version it brings
    sound,      \* whether the package is in order
    report      \* "none", "installing", or how the last update ended

vars == <<installed, package, target, sound, report>>

TypeOK ==
    /\ installed \in [Paths -> Nat \cup {Unusable}]
    /\ package \subseteq Paths
    /\ target \in Nat
    /\ sound \in BOOLEAN
    /\ report \in {"none", "installing", "ok", "failed", "died"}

Init ==
    /\ installed \in [Paths -> {0, Unusable}]
    /\ package = {}
    /\ target = 0
    /\ sound = TRUE
    /\ report = "none"

Ask ==
    /\ report # "installing"
    /\ package' = {} /\ target' = 0 /\ sound' = TRUE
    /\ report' = "none"
    /\ UNCHANGED installed

Begin ==
    /\ report = "none"
    /\ package' \in SUBSET Paths
    /\ target' \in Nat \ {0}
    /\ sound' \in BOOLEAN
    /\ report' = "installing"
    /\ UNCHANGED installed

Write(p) ==
    /\ report = "installing"
    /\ p \in package
    /\ \E content \in {target, Unusable} :
           installed' = [installed EXCEPT ![p] = content]
    /\ UNCHANGED <<package, target, sound, report>>

Succeed ==
    /\ report = "installing"
    /\ sound => \A p \in package : installed[p] = target
    /\ report' = "ok"
    /\ UNCHANGED <<installed, package, target, sound>>

\* An update that failed to start, failed half way, or was killed.
Fail ==
    /\ report \in {"none", "installing"}
    /\ report' \in {"failed", "died"}
    /\ UNCHANGED <<installed, package, target, sound>>

Next == Ask \/ Begin \/ (\E p \in Paths : Write(p)) \/ Succeed \/ Fail

Spec == Init /\ [][Next]_vars
=============================================================================
