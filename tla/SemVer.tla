------------------------------- MODULE SemVer -------------------------------
(***************************************************************************)
(* Version numbers: what the server accepts as one, the order it puts them *)
(* in and what it offers to a client (server/src/version_util.cpp,         *)
(* client_api.cpp), and the same order once more in the manager's list     *)
(* (client/manager_main.cpp) and in the web page (server/web/index.html).  *)
(*                                                                         *)
(* A text is a sequence of the fields between its dots.  A field is what   *)
(* strtol sees of it: a blank or a sign in front, leading zeros, the       *)
(* number they belong to, and what follows the digits.  A field without    *)
(* digits has no zeros and the number 0.                                   *)
(***************************************************************************)
EXTENDS Integers, SequencesExt

CONSTANTS
    Texts,      \* the texts that come up
    LongMax,    \* the largest long of the server: strtol stops there
    IntMax,     \* the largest int, to which the result is cut
    MaxRows     \* bound: rows of the table

Fronts == {"none", "blank", "plus", "minus"}
Fields == [prefix : Fronts, zeros : Nat, number : Nat, rest : BOOLEAN]

ASSUME SemVerAssumption ==
    /\ Texts \subseteq Seq(Fields)
    /\ IntMax \in Nat /\ LongMax \in Nat /\ IntMax <= LongMax
    /\ MaxRows \in Nat

VARIABLES
    table,      \* the versions the server has
    current_version,    \* the version a client has asked with; the manager, to
                        \* have all, asks with 0.0.0
    offer,      \* the updates it was told of, in the order of the answer
    seen        \* history: the table when it asked

vars == <<table, current_version, offer, seen>>

-----------------------------------------------------------------------------
(* semver_parse                                                            *)

HasDigits(f) == f.zeros > 0 \/ f.number > 0
Strtol(f) ==
    IF f.prefix = "minus"
        THEN IF f.number > LongMax THEN -LongMax - 1 ELSE -f.number
        ELSE IF f.number > LongMax THEN LongMax ELSE f.number

\* The digit 0 comes first, and it is not the whole field.
LeadingZero(f) == f.prefix = "none" /\ f.zeros > 0 /\ (f.zeros > 1 \/ f.number > 0)

ParsesField(f) == HasDigits(f) /\ ~ f.rest /\ Strtol(f) >= 0 /\ ~ LeadingZero(f)
semver_validate(v) == Len(v) = 3 /\ \A i \in 1 .. 3 : ParsesField(v[i])

\* static_cast<int>, and the difference of two ints on the machines it runs on
CutToInt(n) ==
    IF -IntMax - 1 <= n /\ n <= IntMax
        THEN n
        ELSE ((n + IntMax + 1) % (2 * IntMax + 2)) - IntMax - 1
Number(v, i) == CutToInt(Strtol(v[i]))

-----------------------------------------------------------------------------
(* semver_compare_str, compare_version_info, compareSemver                 *)

\* The first pair of numbers that differ decides, or the last pair.
FirstDifference(x, y) == IF x[1] # y[1] THEN 1 ELSE IF x[2] # y[2] THEN 2 ELSE 3

\* Mutant: the last field decides first.
IntsBackwards(v) == [i \in 1 .. 3 |-> Number(v, 4 - i)]

Ints(v) == [i \in 1 .. 3 |-> Number(v, i)]
semver_compare(x, y) == LET i == FirstDifference(x, y) IN CutToInt(x[i] - y[i])
semver_compare_str(v, w) ==
    IF semver_validate(v) /\ semver_validate(w) THEN semver_compare(Ints(v), Ints(w)) ELSE 0

\* The manager's sscanf takes the same blanks and signs as strtol.
compare_version_info(v, w) == semver_compare(Ints(v), Ints(w))

\* The page has numbers without bounds, and sorts the newest first.
PageNumbers(v) ==
    [i \in 1 .. 3 |-> IF v[i].prefix = "minus" THEN -v[i].number ELSE v[i].number]
page_compare(x, y) == LET i == FirstDifference(x, y) IN y[i] - x[i]
compareSemver(v, w) == page_compare(PageNumbers(v), PageNumbers(w))

-----------------------------------------------------------------------------
(* semver_filter_newer                                                     *)

\* std::sort puts texts of equal numbers in any order; given a comparison that
\* goes round in circles it may leave any order.
Sortings(S) ==
    LET before(v, w) == semver_compare_str(v, w) < 0
        sorted == {s \in SetToSeqs(S) : \A i, j \in DOMAIN s : before(s[i], s[j]) => i < j}
    IN  IF sorted # {} THEN sorted ELSE SetToSeqs(S)

\* Mutant: versions of the same numbers are offered as well.
NotOlder(versions, v) == {w \in versions : semver_validate(w) /\ semver_compare_str(w, v) >= 0}

Newer(versions, v) == {w \in versions : semver_validate(w) /\ semver_compare_str(w, v) > 0}
\* Mutant: the newer versions are left as the database had them.
filter_unsorted(versions, v) == SetToSeqs(Newer(versions, v))

semver_filter_newer(versions, v) == Sortings(Newer(versions, v))

-----------------------------------------------------------------------------
(* What happens to versions.  The format that the server asks for is that  *)
(* of semver_validate: design.md:834 has a stricter one, without blanks,   *)
(* signs, and zeros behind them.                                           *)

Upload(v) ==
    /\ semver_validate(v)
    /\ v \notin table /\ Cardinality(table) < MaxRows
    /\ table' = table \cup {v}
    /\ UNCHANGED <<current_version, offer, seen>>

Delete(v) ==
    /\ v \in table
    /\ table' = table \ {v}
    /\ UNCHANGED <<current_version, offer, seen>>

\* GET /api/v1/client/updates; a request with another text is refused.
CheckUpdates(v) ==
    /\ semver_validate(v)
    /\ current_version' = v
    /\ offer' \in semver_filter_newer(table, v)
    /\ seen' = table
    /\ UNCHANGED table

Init ==
    /\ table = {} /\ offer = <<>> /\ seen = {}
    /\ current_version \in {v \in Texts : semver_validate(v)}

Next == \E v \in Texts : Upload(v) \/ Delete(v) \/ CheckUpdates(v)

Spec == Init /\ [][Next]_vars

-----------------------------------------------------------------------------
(* Properties                                                              *)

\* What the numbers of a text mean, and the order of semver.
Means(v) == [i \in 1 .. 3 |-> IF v[i].prefix = "minus" THEN -v[i].number ELSE v[i].number]
Older(v, w) == \E i \in 1 .. 3 :
    /\ Means(v)[i] < Means(w)[i]
    /\ \A j \in 1 .. i - 1 : Means(v)[j] = Means(w)[j]
Fits(v) == \A i \in 1 .. 3 : v[i].number <= IntMax

\* The server, the manager's list and the web page put any two accepted versions
\* whose numbers fit an int in the order of the numbers, however these are
\* written: "+1.0.0", which is accepted next to "1.0.0", is the same for all three.
OrdersAgree == \A v, w \in table \cup {current_version} : Fits(v) /\ Fits(w) =>
    /\ semver_compare_str(v, w) < 0 <=> Older(v, w)
    /\ compare_version_info(v, w) < 0 <=> Older(v, w)
    /\ compareSemver(v, w) > 0 <=> Older(v, w)

\* A client is told of exactly the newer versions of the table, each once
\* (semver_filter_newer, and the rows that client_api.cpp looks up for it).
OfferIsNewer == (\A v \in seen \cup {current_version} : Fits(v)) =>
    /\ ToSet(offer) = {v \in seen : Older(current_version, v)}
    /\ IsInjective(offer)

\* It is told of them in ascending order.
OfferAscends == (\A v \in ToSet(offer) : Fits(v)) =>
    \A i, j \in DOMAIN offer : Older(offer[i], offer[j]) => i < j

=============================================================================
