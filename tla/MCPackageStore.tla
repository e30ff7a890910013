--------------------------- MODULE MCPackageStore ---------------------------
(***************************************************************************)
(* Instances of PackageStore for TLC.  The state is viewed up to the names *)
(* of inodes and without what no later step and no property of the run     *)
(* reads: see Relevant.                                                    *)
(***************************************************************************)
EXTENDS PackageStore, TLC

Symmetry ==
    UNION {Permutations(Admins), Permutations(Clients), Permutations(Versions),
           Permutations(Contents)}

\* Who refers to a file, and what is in it.  A file nobody refers to is
\* emptied before it is used again (OpenFile).
Files ==
    {<<{v \in Versions : dir[v] = i}, {a \in Admins : afd[a] = i},
       {c \in Clients : cfd[c] = i}, disk[i]>> : i \in Inodes \cap InUse}

Awaits(pcs, x, default) == IF \E a \in Admins : apc[a] \in pcs THEN x ELSE default

\* changes and errmsg are set by the statement before the handler reads them, and
\* a request that arrives resets the answer to the one before, whatever it was.
\* The ids of logs go nowhere but into the id of an answer.
Relevant ==
    <<rows, nextId, IF saved = NoTx THEN NoTx ELSE <<saved.rows, saved.nextId>>,
      Files, apc, todo, left, data, cpc, cver, rid, want,
      {a \in Admins : apc[a] \in Settling \cup InBatch /\ effect[a] > 0},
      Awaits({"changed", "matched"}, changes, 0), Awaits({"errmsg"}, errmsg, "none")>>
=============================================================================
