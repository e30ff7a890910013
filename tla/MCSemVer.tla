------------------------------ MODULE MCSemVer ------------------------------
(***************************************************************************)
(* Texts for SemVer, with ints of 4 bits and longs of 6.                   *)
(***************************************************************************)
EXTENDS SemVer

Plain(n) == [prefix |-> "none", zeros |-> IF n = 0 THEN 1 ELSE 0, number |-> n, rest |-> FALSE]
Plus1 == [Plain(1) EXCEPT !.prefix = "plus"]        \* "+1"
Blank2 == [Plain(2) EXCEPT !.prefix = "blank"]      \* " 2"
Minus0 == [Plain(0) EXCEPT !.prefix = "minus"]      \* "-0"
Minus1 == [Plain(1) EXCEPT !.prefix = "minus"]      \* "-1", refused
Zero1 == [Plain(1) EXCEPT !.zeros = 1]              \* "01", refused
PlusZero1 == [Zero1 EXCEPT !.prefix = "plus"]       \* "+01", accepted
Beta == [Plain(1) EXCEPT !.rest = TRUE]             \* "1-beta", refused
Empty == [Plain(0) EXCEPT !.zeros = 0]              \* "", refused

MCTexts == {
    <<Plain(0), Plain(2), Plain(7)>>, <<Plain(0), Plain(7), Plain(2)>>,
    <<Plain(1), Plain(0), Plain(0)>>, <<Plus1, Minus0, Plain(0)>>,
    <<PlusZero1, Blank2, Plain(0)>>,
    <<Plain(7), Plain(0), Plain(0)>>, <<Plain(8), Plain(0), Plain(0)>>,
    <<Plain(1), Plain(40), Plain(0)>>,
    <<Zero1, Plain(0), Plain(0)>>, <<Plain(1), Minus1, Plain(0)>>,
    <<Plain(1), Plain(0), Beta>>, <<Plain(1), Empty, Plain(0)>>,
    <<Plain(1), Plain(0)>>, <<Plain(1), Plain(0), Plain(0), Plain(0)>> }

=============================================================================
