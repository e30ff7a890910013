------------------------------ MODULE MCSignIn ------------------------------
(***************************************************************************)
(* Instances of SignIn for TLC.  Time is counted in lives of a challenge.  *)
(***************************************************************************)
EXTENDS SignIn, TLC

MCSkews == {0, 1}

\* Threads, challenges, tokens and stamps are interchangeable.
Symmetry == Permutations(Threads) \cup Permutations(Challenges)
            \cup Permutations(Tokens) \cup Permutations(Stamps)

=============================================================================
