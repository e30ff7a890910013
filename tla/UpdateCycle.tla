----------------------------- MODULE UpdateCycle -----------------------------
(***************************************************************************)
(* What the version manager promises its user: the version the user has    *)
(* chosen is fetched and, once its package is the announced one, offered;  *)
(* what is applied is that version, if the user agrees, and that package,  *)
(* untouched since.  Nothing else begins before it is over and the window  *)
(* knows.                                                                  *)
(***************************************************************************)
CONSTANTS
    Versions,   \* versions the server may have
    Packages,   \* what a file may hold
    Announced,  \* the package the server has announced
    None        \* "no version", "no package"

VARIABLES
    chosen,     \* the version the user has selected, or None
    stage,      \* how far the update is
    target,     \* the version it is to bring
    package     \* what there is of its package

cycleVars == <<chosen, stage, target, package>>

TypeOK ==
    /\ chosen \in Versions \cup {None}
    /\ stage \in {"idle", "fetching", "offered", "applying", "over"}
    /\ target \in Versions \cup {None}
    /\ package \in Packages \cup {None}

Nothing == target' = None /\ package' = None

Init == chosen = None /\ stage = "idle" /\ target = None /\ package = None

Choose ==
    /\ chosen' \in Versions \cup {None}
    /\ UNCHANGED <<stage, target, package>>

\* A package of the same version may be left from before.
Start ==
    /\ stage = "idle" /\ chosen # None
    /\ stage' = "fetching" /\ target' = chosen /\ package' \in Packages \cup {None}
    /\ UNCHANGED chosen

Fetch ==
    /\ stage = "fetching"
    /\ package' \in Packages \cup {None}
    /\ UNCHANGED <<chosen, stage, target>>

Offer ==
    /\ stage = "fetching" /\ package = Announced
    /\ stage' = "offered"
    /\ UNCHANGED <<chosen, target, package>>

Apply ==
    /\ stage = "offered"
    /\ stage' = "applying"
    /\ UNCHANGED <<chosen, target, package>>

\* The download has failed, or the update has ended.
End ==
    /\ stage \in {"fetching", "applying"}
    /\ stage' = "over" /\ Nothing
    /\ UNCHANGED chosen

\* The window hears of it, or the user declines the offer.
Settle ==
    /\ stage \in {"offered", "over"}
    /\ stage' = "idle" /\ Nothing
    /\ UNCHANGED chosen

\* The manager starts again.
Restart ==
    /\ stage # "applying"
    /\ chosen' = None /\ stage' = "idle" /\ Nothing

Next == Choose \/ Start \/ Fetch \/ Offer \/ Apply \/ End \/ Settle \/ Restart

Spec == Init /\ [][Next]_cycleVars
=============================================================================
