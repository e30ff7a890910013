---------------------------- MODULE SemVer_proof ----------------------------
(***************************************************************************)
(* Proofs about SemVer: for any texts and any width of the numbers, the    *)
(* three orders are the order of semver on versions whose numbers fit an   *)
(* int, and a client is offered exactly the newer ones, ascending.         *)
(***************************************************************************)
EXTENDS SemVer, FiniteSetTheorems, TLAPS

Valid == {v \in Texts : semver_validate(v)}

\* The order of semver on triples of numbers.
Before(x, y) ==
    \/ x[1] < y[1]
    \/ x[1] = y[1] /\ x[2] < y[2]
    \/ x[1] = y[1] /\ x[2] = y[2] /\ x[3] < y[3]

\* Older is this order of what the texts mean.
LEMMA OlderIsBefore ==
    ASSUME NEW v, NEW w
    PROVE  Older(v, w) <=> Before(Means(v), Means(w))
<1> DEFINE x == Means(v)
           y == Means(w)
           First(i) == \A j \in 1 .. i - 1 : x[j] = y[j]
<1>1. Older(v, w) <=> \E i \in 1 .. 3 : x[i] < y[i] /\ First(i)
  BY DEF Older
<1>2. First(1)
  OBVIOUS
<1>3. First(2) <=> x[1] = y[1]
  <2>1. 1 .. 2 - 1 = {1}
    OBVIOUS
  <2> QED BY <2>1
<1>4. First(3) <=> x[1] = y[1] /\ x[2] = y[2]
  <2>1. 1 .. 3 - 1 = {1, 2}
    OBVIOUS
  <2> QED BY <2>1
<1>5. 1 .. 3 = {1, 2, 3}
  OBVIOUS
<1> HIDE DEF First, x, y
<1>6. Older(v, w) <=> \/ x[1] < y[1] /\ First(1)
                      \/ x[2] < y[2] /\ First(2)
                      \/ x[3] < y[3] /\ First(3)
  BY <1>1, <1>5
<1>7. Older(v, w) <=> Before(x, y)
  BY <1>2, <1>3, <1>4, <1>6 DEF Before
<1> QED BY <1>7 DEF x, y

\* What is parsed of a version whose numbers fit an int is what it means.
LEMMA FitsIsExact ==
    ASSUME NEW v \in Valid, Fits(v), NEW i \in 1 .. 3
    PROVE  /\ Number(v, i) = Means(v)[i]
           /\ Means(v)[i] \in 0 .. IntMax
<1>1. v \in Seq(Fields) /\ Len(v) = 3 /\ ParsesField(v[i]) /\ v[i].number <= IntMax
  BY SemVerAssumption DEF Valid, semver_validate, Fits
<1>2. v[i] \in Fields
  BY <1>1
<1>3. v[i].number \in Nat /\ v[i].prefix \in Fronts
  BY <1>2 DEF Fields
<1>4. Means(v)[i] = IF v[i].prefix = "minus" THEN -v[i].number ELSE v[i].number
  BY DEF Means
<1>5. Strtol(v[i]) = Means(v)[i] /\ Strtol(v[i]) >= 0
  BY <1>1, <1>3, <1>4, SemVerAssumption DEF Strtol, ParsesField
<1>6. Means(v)[i] \in 0 .. IntMax
  BY <1>1, <1>3, <1>4, <1>5, SemVerAssumption
<1> QED BY <1>5, <1>6, SemVerAssumption DEF Number, CutToInt

\* The difference of two numbers of the program does not overflow.
LEMMA DifferenceIsExact ==
    ASSUME NEW m \in 0 .. IntMax, NEW n \in 0 .. IntMax
    PROVE  CutToInt(m - n) = m - n
BY SemVerAssumption DEF CutToInt

\* Subtracting the first numbers that differ is the order of triples.
LEMMA CompareIsBefore ==
    ASSUME NEW x, NEW y,
           \A i \in 1 .. 3 : x[i] \in 0 .. IntMax /\ y[i] \in 0 .. IntMax
    PROVE  /\ semver_compare(x, y) < 0 <=> Before(x, y)
           /\ semver_compare(x, y) > 0 <=> Before(y, x)
           /\ page_compare(x, y) > 0 <=> Before(x, y)
<1>1. /\ x[1] \in 0 .. IntMax /\ y[1] \in 0 .. IntMax
      /\ x[2] \in 0 .. IntMax /\ y[2] \in 0 .. IntMax
      /\ x[3] \in 0 .. IntMax /\ y[3] \in 0 .. IntMax
  OBVIOUS
<1>2. /\ CutToInt(x[1] - y[1]) = x[1] - y[1]
      /\ CutToInt(x[2] - y[2]) = x[2] - y[2]
      /\ CutToInt(x[3] - y[3]) = x[3] - y[3]
  BY <1>1, DifferenceIsExact
<1>3. IntMax \in Nat
  BY SemVerAssumption
<1>4. /\ semver_compare(x, y) < 0 <=> Before(x, y)
      /\ semver_compare(x, y) > 0 <=> Before(y, x)
  BY <1>1, <1>2, <1>3 DEF semver_compare, FirstDifference, Before
<1>5. page_compare(x, y) > 0 <=> Before(x, y)
  BY <1>1, <1>3 DEF page_compare, FirstDifference, Before
<1> QED BY <1>4, <1>5

\* The three implementations order two accepted versions as semver does.
THEOREM OneOrder ==
    ASSUME NEW v \in Valid, NEW w \in Valid, Fits(v), Fits(w)
    PROVE  /\ semver_compare_str(v, w) < 0 <=> Older(v, w)
           /\ semver_compare_str(v, w) > 0 <=> Older(w, v)
           /\ compare_version_info(v, w) < 0 <=> Older(v, w)
           /\ compareSemver(v, w) > 0 <=> Older(v, w)
<1>1. \A i \in 1 .. 3 : Means(v)[i] \in 0 .. IntMax /\ Means(w)[i] \in 0 .. IntMax
  BY FitsIsExact
<1>2. Ints(v) = Means(v) /\ Ints(w) = Means(w)
  <2>1. ASSUME NEW u \in Valid, Fits(u) PROVE Ints(u) = Means(u)
    <3>1. \A i \in 1 .. 3 : Number(u, i) = Means(u)[i]
      BY <2>1, FitsIsExact
    <3> QED BY <3>1 DEF Ints, Means
  <2> QED BY <2>1
<1>3. PageNumbers(v) = Means(v) /\ PageNumbers(w) = Means(w)
  BY DEF PageNumbers, Means
<1>4. semver_validate(v) /\ semver_validate(w)
  BY DEF Valid
<1> DEFINE x == Means(v)
           y == Means(w)
<1>5. /\ semver_compare_str(v, w) = semver_compare(x, y)
      /\ compare_version_info(v, w) = semver_compare(x, y)
      /\ compareSemver(v, w) = page_compare(x, y)
  BY <1>2, <1>3, <1>4 DEF semver_compare_str, compare_version_info, compareSemver
<1>6. /\ semver_compare(x, y) < 0 <=> Before(x, y)
      /\ semver_compare(x, y) > 0 <=> Before(y, x)
      /\ page_compare(x, y) > 0 <=> Before(x, y)
  BY <1>1, CompareIsBefore
<1> QED BY <1>5, <1>6, OlderIsBefore

-----------------------------------------------------------------------------
(* Sorting.  Any finite set can be put in the order of a comparison that    *)
(* does not go round in circles: each element goes to the place that is     *)
(* the number of elements before it, ties being broken by an enumeration.   *)

LEMMA Sortable ==
    ASSUME NEW S, IsFiniteSet(S), NEW R,
           \A x \in S : <<x, x>> \notin R,
           \A x, y, z \in S : <<x, y>> \in R /\ <<y, z>> \in R => <<x, z>> \in R,
           \A x, y, z \in S : <<x, y>> \in R => <<x, z>> \in R \/ <<z, y>> \in R
    PROVE  \E s \in SetToSeqs(S) : \A i, j \in DOMAIN s : <<s[i], s[j]>> \in R => i < j
<1> DEFINE n == Cardinality(S)
           D == 1 .. n
<1>1. n \in Nat /\ IsFiniteSet(D) /\ Cardinality(D) = n
  BY FS_CardinalityType, FS_Interval
<1>2. PICK b \in Bijection(D, S) : TRUE
  BY FS_CardinalityType DEF ExistsBijection
<1>3. b \in [D -> S] /\ \A i, j \in D : i # j => b[i] # b[j]
  BY <1>2 DEF Bijection, Injection, IsInjective
<1> DEFINE Lt(i, j) == <<b[i], b[j]>> \in R \/ (<<b[j], b[i]>> \notin R /\ i < j)
           Below(i) == {j \in D : Lt(j, i)}
           r == [i \in D |-> Cardinality(Below(i)) + 1]
<1>4. \A i \in D : ~ Lt(i, i)
  BY <1>1, <1>3
<1>5. \A i, j, k \in D : Lt(i, j) /\ Lt(j, k) => Lt(i, k)
  <2> SUFFICES ASSUME NEW i \in D, NEW j \in D, NEW k \in D, Lt(i, j), Lt(j, k)
               PROVE  Lt(i, k)
    OBVIOUS
  <2>1. b[i] \in S /\ b[j] \in S /\ b[k] \in S
    BY <1>3
  <2>2. i < j /\ j < k => i < k
    BY <1>1
  <2> QED BY <2>1, <2>2
<1>6. \A i, j \in D : i # j => Lt(i, j) \/ Lt(j, i)
  <2>1. \A i, j \in D : i # j => i < j \/ j < i
    BY <1>1
  <2> QED BY <2>1
<1> HIDE DEF Lt
<1>7. \A i \in D : IsFiniteSet(Below(i)) /\ Cardinality(Below(i)) \in Nat /\ Cardinality(Below(i)) < n
  <2> SUFFICES ASSUME NEW i \in D
               PROVE  IsFiniteSet(Below(i)) /\ Cardinality(Below(i)) \in Nat /\ Cardinality(Below(i)) < n
    OBVIOUS
  <2>1. Below(i) \in SUBSET D /\ Below(i) # D
    BY <1>4
  <2> HIDE DEF Below
  <2>2. IsFiniteSet(Below(i)) /\ Cardinality(Below(i)) <= n /\ Cardinality(Below(i)) # n
    BY <1>1, <2>1, FS_Subset
  <2> QED BY <1>1, <2>2, FS_CardinalityType
<1>8. \A i, j \in D : Lt(i, j) => r[i] < r[j]
  <2> SUFFICES ASSUME NEW i \in D, NEW j \in D, Lt(i, j)
               PROVE  r[i] < r[j]
    OBVIOUS
  <2>1. Below(i) \in SUBSET Below(j) /\ Below(i) # Below(j)
    BY <1>4, <1>5
  <2>2. r[i] = Cardinality(Below(i)) + 1 /\ r[j] = Cardinality(Below(j)) + 1
    OBVIOUS
  <2> HIDE DEF Below, r
  <2>3. Cardinality(Below(i)) <= Cardinality(Below(j)) /\ Cardinality(Below(i)) # Cardinality(Below(j))
    BY <1>7, <2>1, FS_Subset
  <2>4. Cardinality(Below(i)) \in Nat /\ Cardinality(Below(j)) \in Nat
    BY <1>7
  <2> QED BY <2>2, <2>3, <2>4
<1>9. r \in [D -> D]
  <2>1. \A i \in D : Cardinality(Below(i)) + 1 \in D
    <3> HIDE DEF Below
    <3> QED BY <1>1, <1>7
  <2> HIDE DEF Below
  <2> QED BY <2>1
<1> HIDE DEF r
<1>10. r \in Bijection(D, D)
  <2>1. \A i, j \in D : i # j => r[i] # r[j]
    BY <1>1, <1>6, <1>8, <1>9
  <2>2. r \in Injection(D, D)
    BY <1>9, <2>1 DEF Injection, IsInjective
  <2>3. r \in Surjection(D, D)
    BY <1>1, <2>2, FS_Injection
  <2> QED BY <2>2, <2>3 DEF Bijection
<1> DEFINE q == [k \in D |-> CHOOSE i \in D : r[i] = k]
<1>11. \A k \in D : q[k] \in D /\ r[q[k]] = k
  <2>1. \A k \in D : \E i \in D : r[i] = k
    BY <1>10 DEF Bijection, Surjection
  <2> QED BY <2>1
<1> HIDE DEF q
<1> DEFINE s == [k \in D |-> b[q[k]]]
<1>12. s \in SetToSeqs(S)
  <2>1. s \in [D -> S]
    BY <1>3, <1>11
  <2>2. \A k, l \in D : k # l => s[k] # s[l]
    BY <1>3, <1>11
  <2> QED BY <2>1, <2>2 DEF SetToSeqs
<1>13. \A k, l \in D : <<s[k], s[l]>> \in R => k < l
  <2> SUFFICES ASSUME NEW k \in D, NEW l \in D, <<b[q[k]], b[q[l]]>> \in R
               PROVE  k < l
    OBVIOUS
  <2>1. Lt(q[k], q[l])
    BY DEF Lt
  <2> QED BY <1>8, <1>11, <2>1
<1>14. DOMAIN s = D
  OBVIOUS
<1> HIDE DEF s
<1> QED BY <1>12, <1>13, <1>14

\* Before does not go round in circles.
LEMMA BeforeIsOrder ==
    ASSUME NEW x, NEW y, NEW z,
           \A i \in 1 .. 3 : x[i] \in Int /\ y[i] \in Int /\ z[i] \in Int
    PROVE  /\ ~ Before(x, x)
           /\ Before(x, y) /\ Before(y, z) => Before(x, z)
           /\ Before(x, y) => Before(x, z) \/ Before(z, y)
<1>1. /\ x[1] \in Int /\ x[2] \in Int /\ x[3] \in Int
      /\ y[1] \in Int /\ y[2] \in Int /\ y[3] \in Int
      /\ z[1] \in Int /\ z[2] \in Int /\ z[3] \in Int
  OBVIOUS
<1> QED BY <1>1 DEF Before

\* std::sort has an ascending order of accepted versions whose numbers fit, and
\* leaves them in one.
LEMMA SortingAscends ==
    ASSUME NEW S, IsFiniteSet(S), S \subseteq Valid, \A v \in S : Fits(v),
           NEW s \in Sortings(S)
    PROVE  \A i, j \in DOMAIN s : Older(s[i], s[j]) => i < j
<1> DEFINE sorted == {t \in SetToSeqs(S) :
                         \A i, j \in DOMAIN t : semver_compare_str(t[i], t[j]) < 0 => i < j}
           R == {p \in S \X S : Older(p[1], p[2])}
<1>1. \A v, w \in S : semver_compare_str(v, w) < 0 <=> Older(v, w)
  BY OneOrder
<1>2. \A t \in SetToSeqs(S) : \A i \in DOMAIN t : t[i] \in S
  BY DEF SetToSeqs
<1>3. \A v, w \in S : <<v, w>> \in R <=> Before(Means(v), Means(w))
  BY OlderIsBefore
<1>4. \A v \in S : \A i \in 1 .. 3 : Means(v)[i] \in Int
  BY FitsIsExact, SemVerAssumption
<1>5. \E t \in SetToSeqs(S) : \A i, j \in DOMAIN t : <<t[i], t[j]>> \in R => i < j
  <2> HIDE DEF R
  <2>1. \A u, v, w \in S :
            /\ <<u, u>> \notin R
            /\ <<u, v>> \in R /\ <<v, w>> \in R => <<u, w>> \in R
            /\ <<u, v>> \in R => <<u, w>> \in R \/ <<w, v>> \in R
    <3> SUFFICES ASSUME NEW u \in S, NEW v \in S, NEW w \in S
                 PROVE  /\ <<u, u>> \notin R
                        /\ <<u, v>> \in R /\ <<v, w>> \in R => <<u, w>> \in R
                        /\ <<u, v>> \in R => <<u, w>> \in R \/ <<w, v>> \in R
      OBVIOUS
    <3>1. \A i \in 1 .. 3 : Means(u)[i] \in Int /\ Means(v)[i] \in Int /\ Means(w)[i] \in Int
      BY <1>4
    <3>2. /\ ~ Before(Means(u), Means(u))
          /\ Before(Means(u), Means(v)) /\ Before(Means(v), Means(w)) => Before(Means(u), Means(w))
          /\ Before(Means(u), Means(v)) => Before(Means(u), Means(w)) \/ Before(Means(w), Means(v))
      BY <3>1, BeforeIsOrder
    <3> QED BY <1>3, <3>2
  <2>2. \A u \in S : <<u, u>> \notin R
    BY <2>1
  <2>3. \A u, v, w \in S : <<u, v>> \in R /\ <<v, w>> \in R => <<u, w>> \in R
    BY <2>1
  <2>4. \A u, v, w \in S : <<u, v>> \in R => <<u, w>> \in R \/ <<w, v>> \in R
    BY <2>1
  <2> QED BY <2>2, <2>3, <2>4, Sortable
<1>6. \A v, w \in S : <<v, w>> \in R <=> semver_compare_str(v, w) < 0
  BY <1>1
<1> HIDE DEF R
<1>7. sorted # {}
  BY <1>2, <1>5, <1>6
<1>8. s \in sorted
  BY <1>7 DEF Sortings
<1> QED BY <1>1, <1>2, <1>8

-----------------------------------------------------------------------------

\* An answer has exactly the versions that compare as newer, each once.
LEMMA AnswerIsNewer ==
    ASSUME NEW S, IsFiniteSet(S), NEW v, NEW s \in semver_filter_newer(S, v)
    PROVE  /\ s \in Seq(Newer(S, v))
           /\ ToSet(s) = Newer(S, v)
           /\ IsInjective(s)
<1> DEFINE N == Newer(S, v)
           n == Cardinality(N)
<1>1. IsFiniteSet(N)
  <2>1. N \in SUBSET S
    BY DEF Newer
  <2> QED BY <2>1, FS_Subset
<1>2. n \in Nat
  BY <1>1, FS_CardinalityType
<1>3. s \in [1 .. n -> N] /\ \A i, j \in 1 .. n : i # j => s[i] # s[j]
  BY DEF semver_filter_newer, Sortings, SetToSeqs
<1>4. s \in Injection(1 .. n, N)
  BY <1>3 DEF Injection, IsInjective
<1>5. Cardinality(1 .. n) = n
  BY <1>2, FS_Interval
<1>6. s \in Surjection(1 .. n, N)
  BY <1>1, <1>4, <1>5, FS_Injection
<1>7. ToSet(s) = N
  BY <1>3, <1>6 DEF Surjection, ToSet
<1> QED BY <1>2, <1>3, <1>4, <1>7 DEF Injection

\* Only texts that semver_validate takes get into the table or ask.
Accepted == table \cup {current_version} \subseteq Valid
Inv == Accepted /\ IsFiniteSet(table) /\ OfferIsNewer /\ OfferAscends

LEMMA InvInit == Init => Inv
<1> SUFFICES ASSUME Init PROVE Inv
  OBVIOUS
<1>1. table = {} /\ offer = <<>> /\ seen = {} /\ current_version \in Valid
  BY DEF Init, Valid
<1>2. ToSet(offer) = {}
  BY <1>1 DEF ToSet
<1>3. Accepted
  BY <1>1 DEF Accepted
<1>4. IsFiniteSet(table)
  BY <1>1, FS_EmptySet
<1>5. OfferIsNewer
  BY <1>1, <1>2 DEF OfferIsNewer, IsInjective
<1>6. OfferAscends
  BY <1>1, <1>2 DEF OfferAscends
<1> QED BY <1>3, <1>4, <1>5, <1>6 DEF Inv

LEMMA InvNext == Inv /\ [Next]_vars => Inv'
<1> SUFFICES ASSUME Inv, [Next]_vars PROVE Inv'
  OBVIOUS
<1> USE DEF Inv
<1>1. CASE UNCHANGED vars
  BY <1>1 DEF vars, Accepted, OfferIsNewer, OfferAscends
<1>2. ASSUME NEW v \in Texts, Upload(v) PROVE Inv'
  <2>1. table' = table \cup {v} /\ semver_validate(v) /\ UNCHANGED <<current_version, offer, seen>>
    BY <1>2 DEF Upload
  <2>2. IsFiniteSet(table')
    BY <2>1, FS_AddElement
  <2>3. Accepted'
    BY <2>1 DEF Accepted, Valid
  <2> QED BY <2>1, <2>2, <2>3 DEF OfferIsNewer, OfferAscends
<1>3. ASSUME NEW v \in Texts, Delete(v) PROVE Inv'
  <2>1. table' = table \ {v} /\ UNCHANGED <<current_version, offer, seen>>
    BY <1>3 DEF Delete
  <2>2. IsFiniteSet(table')
    BY <2>1, FS_RemoveElement
  <2>3. Accepted'
    BY <2>1 DEF Accepted
  <2> QED BY <2>1, <2>2, <2>3 DEF OfferIsNewer, OfferAscends
<1>4. ASSUME NEW v \in Texts, CheckUpdates(v) PROVE Inv'
  <2>1. /\ offer' \in semver_filter_newer(table, v) /\ semver_validate(v)
        /\ seen' = table /\ table' = table /\ current_version' = v
    BY <1>4 DEF CheckUpdates
  <2>2. /\ offer' \in Seq(Newer(table, v))
        /\ ToSet(offer)' = Newer(table, v)
        /\ IsInjective(offer)'
    BY <2>1, AnswerIsNewer
  <2>3. Newer(table, v) \subseteq table /\ table \subseteq Valid /\ v \in Valid
    BY <2>1 DEF Newer, Accepted, Valid
  <2>4. Accepted'
    BY <2>1, <2>3 DEF Accepted
  <2>5. OfferIsNewer'
    <3>1. SUFFICES ASSUME \A w \in table \cup {v} : Fits(w)
                   PROVE  Newer(table, v) = {w \in table : Older(v, w)}
      BY <2>1, <2>2 DEF OfferIsNewer
    <3>2. \A w \in table : semver_compare_str(w, v) > 0 <=> Older(v, w)
      BY <2>3, <3>1, OneOrder
    <3> QED BY <2>3, <3>2 DEF Newer, Valid
  <2>6. OfferAscends'
    <3> SUFFICES ASSUME \A w \in Newer(table, v) : Fits(w)
                 PROVE  \A i, j \in DOMAIN offer' : Older(offer'[i], offer'[j]) => i < j
      BY <2>2 DEF OfferAscends
    <3>1. IsFiniteSet(Newer(table, v)) /\ Newer(table, v) \subseteq Valid
      BY <2>3, FS_Subset
    <3> QED BY <2>1, <3>1, SortingAscends DEF semver_filter_newer
  <2> QED BY <2>1, <2>4, <2>5, <2>6
<1> QED BY <1>1, <1>2, <1>3, <1>4 DEF Next

LEMMA AlwaysInv == Spec => []Inv
BY InvInit, InvNext, PTL DEF Spec

\* The server, the manager and the page agree on the order of all versions
\* there are, for any width of the numbers.
THEOREM AllOrdersAgree == Spec => []OrdersAgree
<1>1. Inv => OrdersAgree
  <2> SUFFICES ASSUME Inv, NEW v \in table \cup {current_version}, NEW w \in table \cup {current_version},
                      Fits(v), Fits(w)
               PROVE  /\ semver_compare_str(v, w) < 0 <=> Older(v, w)
                      /\ compare_version_info(v, w) < 0 <=> Older(v, w)
                      /\ compareSemver(v, w) > 0 <=> Older(v, w)
    BY DEF OrdersAgree
  <2>1. v \in Valid /\ w \in Valid
    BY DEF Inv, Accepted
  <2> QED BY <2>1, OneOrder
<1> QED BY <1>1, AlwaysInv, PTL

\* A client is told of exactly the newer versions, each once.
THEOREM NewerAreOffered == Spec => []OfferIsNewer
<1>1. Inv => OfferIsNewer
  BY DEF Inv
<1> QED BY <1>1, AlwaysInv, PTL

\* It is told of them in ascending order: the comparison does not go round in
\* circles on versions that fit, so that sorting by it has a result.
THEOREM OfferIsSorted == Spec => []OfferAscends
<1>1. Inv => OfferAscends
  BY DEF Inv
<1> QED BY <1>1, AlwaysInv, PTL

=============================================================================
