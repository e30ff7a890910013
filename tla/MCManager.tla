------------------------------ MODULE MCManager -----------------------------
(* Instances of Manager: two versions, listed from the older one or the     *)
(* older one alone, whose descriptions are the same; or one version.        *)
EXTENDS Manager

CONSTANTS v1, v2

TwoLists == {<<v1, v2>>, <<v1>>}
OneList == {<<v1>>}
Keys == [c \in Columns |-> [v \in Versions |-> IF c = Version /\ v = v2 THEN 2 ELSE 1]]
=============================================================================
