-------------------------- MODULE AnalysisProofs --------------------------
(***************************************************************************)
(* Retrieval, policies and the business graph, proved: what every call of  *)
(* KnowledgeChecks is answered has the properties the runs check, for any  *)
(* inputs of the form KnowledgeInputsAssumption states.                    *)
(*                                                                         *)
(* The model has no recursive operators: it folds over lists and sums over *)
(* sets. That the recursive function behind such a fold exists, and goes   *)
(* through one step per entry, is proved here by induction over the        *)
(* naturals in terms of sets (UpTo); each algorithm then has an invariant  *)
(* of its run, and the property follows from it at the end.                *)
(***************************************************************************)
EXTENDS KnowledgeChecks, SequenceTheorems, WellFoundedInduction, FiniteSetTheorems, TLAPS

-----------------------------------------------------------------------------
(* Induction, folds and lists *)

(* Induction over the naturals up to a bound, in terms of a set.           *)
LEMMA UpTo ==
  ASSUME NEW n \in Nat, NEW T, 0 \in T, \A i \in 1..n : i - 1 \in T => i \in T
  PROVE  0..n \subseteq T
<1> SUFFICES ASSUME NEW k \in 0..n, k \notin T PROVE FALSE
  OBVIOUS
<1> DEFINE R == {p \in Nat \X Nat : p[1] < p[2]}
           U == {i \in 0..n : i \notin T}
<1>1. IsWellFoundedOn(R, Nat) BY NatLessThanWellFounded DEF OpToRel
<1>2. U \subseteq Nat /\ U # {} OBVIOUS
<1> HIDE DEF R, U
<1>3. PICK i \in U : \A j \in U : <<j, i>> \notin R BY <1>1, <1>2, WFMin
<1>4. i \in 1..n BY <1>3 DEF U
<1>5. i - 1 \in U BY <1>3, <1>4 DEF U
<1>6. <<i - 1, i>> \in R BY <1>4 DEF R
<1> QED BY <1>3, <1>5, <1>6

(* A greatest element is the maximum.                                      *)
LEMMA MaxIs ==
  ASSUME NEW S, NEW m \in S, S \subseteq Int, \A x \in S : x <= m
  PROVE  Max(S) = m
<1>1. \A x \in S : (\A y \in S : x >= y) <=> x = m OBVIOUS
<1> QED BY <1>1 DEF Max

(* A set of naturals below a bound has a maximum.                          *)
LEMMA MaxIn ==
  ASSUME NEW n \in Nat, NEW S \in SUBSET (0..n), S # {}
  PROVE  Max(S) \in S /\ \A x \in S : x <= Max(S)
<1> DEFINE R == {p \in Nat \X Nat : p[1] < p[2]}
           U == {n - i : i \in S}
<1>1. IsWellFoundedOn(R, Nat) BY NatLessThanWellFounded DEF OpToRel
<1>2. \A i \in S : i \in 0..n /\ n - i \in Nat OBVIOUS
<1>2a. U \subseteq Nat BY <1>2
<1>2b. U # {} OBVIOUS
<1>a. \A i \in S : n - i \in U OBVIOUS
<1>b. \A u \in U : n - u \in S OBVIOUS
<1> HIDE DEF R, U
<1>3. PICK u \in U : \A j \in U : <<j, u>> \notin R BY <1>1, <1>2a, <1>2b, WFMin
<1>4. \A x \in S : n - x \in U /\ ~(n - x < u) BY <1>a, <1>2a, <1>3 DEF R
<1>5. n - u \in S BY <1>b
<1>6. \A x \in S : x <= n - u BY <1>4, <1>2, <1>2a
<1>7. S \subseteq Int OBVIOUS
<1>8. Max(S) = n - u BY <1>5, <1>6, <1>7, MaxIs
<1> QED BY <1>5, <1>6, <1>8

(* A least element is the minimum.                                         *)
LEMMA MinIs ==
  ASSUME NEW S, NEW m \in S, S \subseteq Int, \A x \in S : m <= x
  PROVE  Min(S) = m
<1>1. \A x \in S : (\A y \in S : x <= y) <=> x = m OBVIOUS
<1> QED BY <1>1 DEF Min

(* A set of naturals below a bound has a minimum.                          *)
LEMMA MinIn ==
  ASSUME NEW n \in Nat, NEW S \in SUBSET (0..n), S # {}
  PROVE  Min(S) \in S /\ \A x \in S : Min(S) <= x
<1> DEFINE R == {p \in Nat \X Nat : p[1] < p[2]}
<1>1. IsWellFoundedOn(R, Nat) BY NatLessThanWellFounded DEF OpToRel
<1>2. S \subseteq Nat OBVIOUS
<1> HIDE DEF R
<1>3. PICK m \in S : \A j \in S : <<j, m>> \notin R BY <1>1, <1>2, WFMin
<1>4. ASSUME NEW x \in S PROVE m <= x
  <2>1. x \in Nat /\ m \in Nat /\ ~(x < m) BY <1>2, <1>3 DEF R
  <2> QED BY <2>1
<1>5. Min(S) = m
  <2>1. S \subseteq Int BY <1>2
  <2> QED BY <1>4, <2>1, MinIs
<1> QED BY <1>4, <1>5

(* A function of sets of positions that a fold of SequencesExt computes:   *)
(* the value at the largest position is put on top of the rest.            *)
Iterates(it, n, V, base, g) ==
  /\ it \in [SUBSET (1..n) -> V]
  /\ it[{}] = base
  /\ \A S \in SUBSET (1..n) : S # {} =>
       /\ Max(S) \in 1..n /\ it[S \ {Max(S)}] \in V
       /\ it[S] = g[<<it[S \ {Max(S)}], Max(S)>>]

(* The recursive function behind a fold exists.                            *)
LEMMA FoldSteps ==
  ASSUME NEW n \in Nat, NEW V, NEW base \in V, NEW g \in [V \X (1..n) -> V]
  PROVE  \E it : Iterates(it, n, V, base, g)
<1> DEFINE Good(k) == \E it \in [SUBSET (1..k) -> V] : \A s \in SUBSET (1..k) :
                         it[s] = IF s = {} THEN base ELSE g[<<it[s \ {Max(s)}], Max(s)>>]
           T == {k \in 0..n : Good(k)}
<1>1. Good(0)
  <2> DEFINE it == [s \in SUBSET (1..0) |-> base]
  <2>1. it \in [SUBSET (1..0) -> V] OBVIOUS
  <2>2. \A s \in SUBSET (1..0) : s = {} OBVIOUS
  <2> QED BY <2>1, <2>2
<1>2. ASSUME NEW k \in 1..n, Good(k - 1) PROVE Good(k)
  <2>1. PICK it \in [SUBSET (1..(k - 1)) -> V] : \A s \in SUBSET (1..(k - 1)) :
            it[s] = IF s = {} THEN base ELSE g[<<it[s \ {Max(s)}], Max(s)>>]
    BY <1>2
  <2> DEFINE nx == [s \in SUBSET (1..k) |-> IF k \in s THEN g[<<it[s \ {k}], k>>] ELSE it[s]]
  <2>2. \A s \in SUBSET (1..k) : k \notin s => s \in SUBSET (1..(k - 1)) OBVIOUS
  <2>2a. \A s \in SUBSET (1..k) : s \ {k} \in SUBSET (1..(k - 1)) OBVIOUS
  <2>3. nx \in [SUBSET (1..k) -> V] BY <2>2, <2>2a
  <2>4. ASSUME NEW s \in SUBSET (1..k)
        PROVE  nx[s] = IF s = {} THEN base ELSE g[<<nx[s \ {Max(s)}], Max(s)>>]
    <3>1. CASE k \in s
      <4>1. Max(s) = k
        <5>1. s \subseteq Int /\ \A x \in s : x <= k OBVIOUS
        <5> QED BY <3>1, <5>1, MaxIs
      <4>2. nx[s \ {k}] = it[s \ {k}] OBVIOUS
      <4>3. nx[s] = g[<<it[s \ {k}], k>>] BY <3>1
      <4> HIDE DEF nx
      <4> QED BY <3>1, <4>1, <4>2, <4>3
    <3>2. CASE k \notin s
      <4>1. nx[s] = it[s] BY <3>2
      <4>2. k \notin s \ {Max(s)} /\ s \ {Max(s)} \in SUBSET (1..k) BY <3>2
      <4>3. nx[s \ {Max(s)}] = it[s \ {Max(s)}] BY <4>2
      <4> HIDE DEF nx
      <4> QED BY <2>1, <2>2, <3>2, <4>1, <4>3
    <3> QED BY <3>1, <3>2
  <2> HIDE DEF nx
  <2> QED BY <2>3, <2>4
<1> HIDE DEF Good
<1>3. 0 \in T /\ \A k \in 1..n : k - 1 \in T => k \in T BY <1>1, <1>2
<1> HIDE DEF T
<1>4. 0..n \subseteq T BY <1>3, UpTo
<1>5. Good(n) BY <1>4 DEF T
<1>6. PICK it \in [SUBSET (1..n) -> V] : \A s \in SUBSET (1..n) :
            it[s] = IF s = {} THEN base ELSE g[<<it[s \ {Max(s)}], Max(s)>>]
  BY <1>5 DEF Good
<1>7. it[{}] = base BY <1>6
<1>8. ASSUME NEW S \in SUBSET (1..n), S # {}
      PROVE /\ Max(S) \in 1..n /\ it[S \ {Max(S)}] \in V
            /\ it[S] = g[<<it[S \ {Max(S)}], Max(S)>>]
  <2>1. S \in SUBSET (0..n) OBVIOUS
  <2>2. Max(S) \in S BY <1>8, <2>1, MaxIn
  <2> QED BY <1>6, <1>8, <2>2
<1> QED BY <1>6, <1>7, <1>8 DEF Iterates

(* The initial segments of the positions, one longer each.                 *)
LEMMA Initials ==
  ASSUME NEW n \in Nat
  PROVE  /\ 1..0 = {}
         /\ \A i \in 1..n : /\ i - 1 \in 0..n /\ 1..i \in SUBSET (1..n) /\ 1..i # {}
                            /\ Max(1..i) = i /\ (1..i) \ {i} = 1..(i - 1)
<1>1. ASSUME NEW i \in 1..n PROVE Max(1..i) = i
  <2>1. i \in 1..i /\ 1..i \subseteq Int /\ \A x \in 1..i : x <= i OBVIOUS
  <2> QED BY <2>1, MaxIs
<1>2. \A i \in 1..n : i - 1 \in 0..n /\ 1..i \in SUBSET (1..n) /\ i \in 1..i /\ (1..i) \ {i} = 1..(i - 1) OBVIOUS
<1> QED BY <1>1, <1>2

(* A strict total order, as a set of pairs.                                *)
StrictOrder(S, R) ==
  /\ \A x \in S : <<x, x>> \notin R
  /\ \A x, y, z \in S : <<x, y>> \in R /\ <<y, z>> \in R => <<x, z>> \in R
  /\ \A x, y \in S : x # y => <<x, y>> \in R \/ <<y, x>> \in R

(* Everything is where as many others come before it.                       *)
Placed(o, S, R) ==
  \A r \in 1..Cardinality(S), x \in S : o[r] = x <=> Cardinality({y \in S : <<y, x>> \in R}) = r - 1

(* What InOrder lists is the whole set, once each and in the order.        *)
LEMMA InOrderIs ==
  ASSUME NEW S, IsFiniteSet(S), NEW R, StrictOrder(S, R), NEW o, o = InOrder(S, R)
  PROVE  /\ Placed(o, S, R) /\ o \in [1..Cardinality(S) -> S]
         /\ \A x \in S : \E r \in 1..Cardinality(S) : o[r] = x
         /\ \A i, j \in 1..Cardinality(S) : i < j => <<o[i], o[j]>> \in R
<1> DEFINE n == Cardinality(S)
           Under(x) == {y \in S : <<y, x>> \in R}
           place == [x \in S |-> Cardinality(Under(x)) + 1]
<1>1. n \in Nat BY FS_CardinalityType
<1>2. \A x \in S : IsFiniteSet(Under(x)) /\ Cardinality(Under(x)) \in Nat
  BY FS_Subset, FS_CardinalityType
<1>3. ASSUME NEW x \in S, NEW y \in S, <<x, y>> \in R
      PROVE  Cardinality(Under(x)) < Cardinality(Under(y))
  <2>1. Under(x) \in SUBSET Under(y) BY <1>3 DEF StrictOrder
  <2>2. x \in Under(y) /\ x \notin Under(x) BY <1>3 DEF StrictOrder
  <2> HIDE DEF Under
  <2>3. IsFiniteSet(Under(y)) /\ Cardinality(Under(x)) <= Cardinality(Under(y))
        /\ Cardinality(Under(x)) # Cardinality(Under(y))
    BY <1>2, <2>1, <2>2, FS_Subset
  <2> QED BY <1>2, <2>3
<1>4. ASSUME NEW x \in S PROVE Cardinality(Under(x)) < n
  <2>1. Under(x) \in SUBSET S /\ x \notin Under(x) BY DEF StrictOrder
  <2> HIDE DEF Under
  <2>2. Cardinality(Under(x)) <= n /\ Cardinality(Under(x)) # n BY <2>1, FS_Subset
  <2> QED BY <1>1, <1>2, <2>2
<1> HIDE DEF Under
<1>5. place \in [S -> 1..n] BY <1>1, <1>2, <1>4
<1>6. \A x, y \in S : place[x] = place[y] => x = y
  <2> SUFFICES ASSUME NEW x \in S, NEW y \in S, x # y PROVE place[x] # place[y]
    OBVIOUS
  <2>1. CASE <<x, y>> \in R BY <2>1, <1>2, <1>3
  <2>2. CASE <<y, x>> \in R BY <2>2, <1>2, <1>3
  <2> QED BY <2>1, <2>2 DEF StrictOrder
<1>7. \A r \in 1..n : \E x \in S : place[x] = r
  <2>1. place \in Injection(S, 1..n) BY <1>5, <1>6 DEF Injection, IsInjective
  <2>2. IsFiniteSet(1..n) /\ Cardinality(1..n) = n BY <1>1, FS_Interval
  <2>3. place \in Surjection(S, 1..n) BY <2>1, <2>2, FS_Injection
  <2> QED BY <2>3 DEF Surjection
<1>8. \A r \in 1..n : o[r] \in S /\ place[o[r]] = r
  <2> SUFFICES ASSUME NEW r \in 1..n PROVE o[r] \in S /\ place[o[r]] = r
    OBVIOUS
  <2>1. o[r] = CHOOSE x \in S : Cardinality(Under(x)) = r - 1 BY <1>1 DEF InOrder, Under
  <2>2. PICK x \in S : place[x] = r BY <1>7
  <2>3. Cardinality(Under(x)) = r - 1 BY <1>2, <2>2
  <2>4. o[r] \in S /\ Cardinality(Under(o[r])) = r - 1 BY <2>1, <2>3
  <2> QED BY <2>4, <1>1
<1>8a. \A x \in S : place[x] = Cardinality(Under(x)) + 1 OBVIOUS
<1> HIDE DEF place
<1>9. o \in [1..n -> S] BY <1>8 DEF InOrder
<1>10. ASSUME NEW x \in S PROVE \E r \in 1..n : o[r] = x
  BY <1>5, <1>6, <1>8
<1>11. ASSUME NEW i \in 1..n, NEW j \in 1..n, i < j PROVE <<o[i], o[j]>> \in R
  <2>1. o[i] # o[j] /\ o[i] \in S /\ o[j] \in S BY <1>8, <1>11
  <2>2. CASE <<o[j], o[i]>> \in R
    <3>1. Cardinality(Under(o[j])) < Cardinality(Under(o[i])) BY <1>3, <1>8, <2>2
    <3>2. place[o[j]] < place[o[i]] BY <3>1, <1>2, <1>8, <1>8a
    <3> QED BY <3>2, <1>8, <1>11, <1>1
  <2> QED BY <1>8, <2>1, <2>2 DEF StrictOrder
<1>12. ASSUME NEW r \in 1..n, NEW x \in S PROVE o[r] = x <=> Cardinality(Under(x)) = r - 1
  <2>1. place[o[r]] = r /\ o[r] \in S BY <1>8
  <2>2. place[x] = Cardinality(Under(x)) + 1 /\ Cardinality(Under(x)) \in Nat BY <1>2, <1>8a
  <2>3. o[r] = x <=> place[x] = r BY <1>6, <2>1
  <2> QED BY <1>1, <2>2, <2>3
<1>13. Placed(o, S, R) BY <1>12 DEF Placed, Under
<1> QED BY <1>9, <1>10, <1>11, <1>13

(* o lists the numbers of P, smallest first.                                *)
Lists(o, P) ==
  /\ o \in [1..Cardinality(P) -> P] /\ \A x \in P : \E r \in 1..Cardinality(P) : o[r] = x
  /\ \A i, j \in 1..Cardinality(P) : i < j <=> o[i] < o[j]

(* The entries of a list at some positions, in the order of the list.      *)
Picks(out, list, P) ==
  \E o : Lists(o, P) /\ out = [r \in 1..Cardinality(P) |-> list[o[r]]]

(* Entries picks exactly the positions it is given.                        *)
LEMMA EntriesAre ==
  ASSUME NEW n \in Nat, NEW P \in SUBSET (1..n), NEW list
  PROVE  /\ IsFiniteSet(P) /\ Cardinality(P) \in 0..n
         /\ Picks(Entries(list, P), list, P)
<1> DEFINE R == {p \in P \X P : p[1] < p[2]}
           o == InOrder(P, R)
<1>1. IsFiniteSet(P) /\ Cardinality(P) \in 0..n
  <2>1. IsFiniteSet(1..n) /\ Cardinality(1..n) = n BY FS_Interval
  <2>2. IsFiniteSet(P) /\ Cardinality(P) <= n BY <2>1, FS_Subset
  <2> QED BY <2>2, FS_CardinalityType
<1>2. StrictOrder(P, R) BY DEF StrictOrder
<1>2a. \A x, y \in P : <<x, y>> \in R <=> x < y OBVIOUS
<1>3. Entries(list, P) = [r \in DOMAIN o |-> list[o[r]]] BY DEF Entries, Increasing
<1> HIDE DEF o
<1>4. /\ o \in [1..Cardinality(P) -> P]
      /\ \A x \in P : \E r \in 1..Cardinality(P) : o[r] = x
      /\ \A i, j \in 1..Cardinality(P) : i < j => <<o[i], o[j]>> \in R
  <2>1. o = InOrder(P, R) BY DEF o
  <2> HIDE DEF R
  <2> QED BY <1>1, <1>2, <2>1, InOrderIs
<1> HIDE DEF R
<1>5. ASSUME NEW i \in 1..Cardinality(P), NEW j \in 1..Cardinality(P)
      PROVE  i < j <=> o[i] < o[j]
  <2>1. o[i] \in P /\ o[j] \in P /\ P \subseteq Int BY <1>4
  <2>2. i < j => o[i] < o[j] BY <2>1, <1>2a, <1>4
  <2>3. j < i => o[j] < o[i] BY <2>1, <1>2a, <1>4
  <2>4. o[i] \in Int /\ o[j] \in Int BY <2>1
  <2>5. i \in Int /\ j \in Int BY <1>1
  <2>6. i < j \/ j < i \/ i = j BY <2>5
  <2>7. i = j => ~(o[i] < o[j]) BY <2>4
  <2>8. ~(o[i] < o[j] /\ o[j] < o[i]) /\ ~(i < j /\ j < i) BY <2>4, <2>5
  <2> QED BY <2>2, <2>3, <2>6, <2>7, <2>8
<1>6. Lists(o, P) BY <1>4, <1>5 DEF Lists
<1>7. Entries(list, P) = [r \in 1..Cardinality(P) |-> list[o[r]]] BY <1>3, <1>4
<1>8. Picks(Entries(list, P), list, P) BY <1>6, <1>7 DEF Picks
<1> QED BY <1>1, <1>8

(* B comes before: strictly, and with nothing in between the ties.          *)
WeakOrder(S, B) ==
  /\ \A x \in S : <<x, x>> \notin B
  /\ \A x, y, z \in S : <<x, y>> \in B /\ <<y, z>> \in B => <<x, z>> \in B
  /\ \A x, y, z \in S : <<x, z>> \in B => <<x, y>> \in B \/ <<y, z>> \in B

(* With the position to break ties a weak order becomes a strict one.      *)
LEMMA StableIsStrict ==
  ASSUME NEW n \in Nat, NEW B, WeakOrder(1..n, B), NEW R,
         \A x, y \in 1..n : <<x, y>> \in R <=> <<x, y>> \in B \/ (<<y, x>> \notin B /\ x < y)
  PROVE  StrictOrder(1..n, R)
<1>1. ASSUME NEW x \in 1..n PROVE <<x, x>> \notin R
  <2>1. <<x, x>> \notin B /\ ~(x < x) BY DEF WeakOrder
  <2> QED BY <2>1
<1>2. ASSUME NEW x \in 1..n, NEW y \in 1..n, NEW z \in 1..n, <<x, y>> \in R, <<y, z>> \in R
      PROVE  <<x, z>> \in R
  <2>1. CASE <<x, y>> \in B /\ <<y, z>> \in B BY <2>1 DEF WeakOrder
  <2>2. CASE <<x, y>> \in B /\ <<y, z>> \notin B BY <1>2, <2>2 DEF WeakOrder
  <2>3. CASE <<x, y>> \notin B /\ <<y, z>> \in B BY <1>2, <2>3 DEF WeakOrder
  <2>4. CASE <<x, y>> \notin B /\ <<y, z>> \notin B
    <3>1. <<y, x>> \notin B /\ x < y /\ <<z, y>> \notin B /\ y < z BY <1>2, <2>4
    <3>2. <<z, x>> \notin B BY <3>1 DEF WeakOrder
    <3> QED BY <3>1, <3>2
  <2> QED BY <2>1, <2>2, <2>3, <2>4
<1>3. ASSUME NEW x \in 1..n, NEW y \in 1..n, x # y PROVE <<x, y>> \in R \/ <<y, x>> \in R
  <2>1. x < y \/ y < x BY <1>3
  <2>2. ~(<<x, y>> \in B /\ <<y, x>> \in B) BY DEF WeakOrder
  <2> QED BY <2>1, <2>2
<1> QED BY <1>1, <1>2, <1>3 DEF StrictOrder


(* What a fold over 1..n goes through, from base with g.                    *)
Steps(h, n, V, base, g) ==
  /\ h \in [0..n -> V] /\ h[0] = base
  /\ \A i \in 1..n : i - 1 \in 0..n /\ h[i - 1] \in V /\ h[i] = g[<<h[i - 1], i>>]

(* A definition by induction over the naturals up to a bound has a         *)
(* solution.                                                               *)
LEMMA StepsExist ==
  ASSUME NEW n \in Nat, NEW V, NEW base \in V, NEW g \in [V \X (1..n) -> V]
  PROVE  \E h : Steps(h, n, V, base, g)
<1>1. PICK it : Iterates(it, n, V, base, g) BY FoldSteps
<1> DEFINE h == [i \in 0..n |-> it[1..i]]
<1>2. \A i \in 0..n : 1..i \in SUBSET (1..n) OBVIOUS
<1>3. h \in [0..n -> V] BY <1>1, <1>2 DEF Iterates
<1>4. h[0] = base BY <1>1, Initials DEF Iterates
<1>5. ASSUME NEW i \in 1..n PROVE i - 1 \in 0..n /\ h[i] = g[<<h[i - 1], i>>]
  <2>1. /\ i - 1 \in 0..n /\ 1..i \in SUBSET (1..n) /\ 1..i # {}
        /\ Max(1..i) = i /\ (1..i) \ {i} = 1..(i - 1)
    BY Initials
  <2>2. it[1..i] = g[<<it[(1..i) \ {Max(1..i)}], Max(1..i)>>] BY <1>1, <2>1 DEF Iterates
  <2>3. h[i] = it[1..i] /\ h[i - 1] = it[1..(i - 1)] BY <2>1
  <2> QED BY <2>1, <2>2, <2>3
<1> HIDE DEF h
<1>6. \A i \in 1..n : h[i - 1] \in V BY <1>3, <1>5
<1> QED BY <1>3, <1>4, <1>5, <1>6 DEF Steps

(* The lists of ss, one after the other.                                    *)
Flattens(h, ss, S) ==
  /\ h \in [0..Len(ss) -> Seq(S)] /\ h[0] = <<>> /\ h[Len(ss)] = FlattenSeq(ss)
  /\ \A i \in 1..Len(ss) : i - 1 \in 0..Len(ss) /\ h[i] = h[i - 1] \o ss[i]

(* Flattening is concatenation, one list at a time.                        *)
LEMMA FlattenIs ==
  ASSUME NEW S, NEW ss \in Seq(Seq(S))
  PROVE  FlattenSeq(ss) \in Seq(S) /\ \E h : Flattens(h, ss, S)
<1> DEFINE Rec(f) == f = [i \in 1..Len(ss) |-> IF i = 1 THEN ss[i] ELSE f[i - 1] \o ss[i]]
           fl == CHOOSE f : Rec(f)
<1>1. FlattenSeq(ss) = IF Len(ss) = 0 THEN ss ELSE fl[Len(ss)] BY DEF FlattenSeq
<1>2. PICK n \in Nat : n = Len(ss) /\ DOMAIN ss = 1..n OBVIOUS
<1> DEFINE g == [p \in Seq(S) \X (1..n) |-> p[1] \o ss[p[2]]]
<1>3. <<>> \in Seq(S) /\ g \in [Seq(S) \X (1..n) -> Seq(S)] BY <1>2
<1>4. PICK h : Steps(h, n, Seq(S), <<>>, g)
  <2> HIDE DEF g
  <2> QED BY <1>3, StepsExist
<1>5. \A i \in 1..n : i - 1 \in 0..n /\ h[i - 1] \in Seq(S) /\ h[i] = h[i - 1] \o ss[i]
  BY <1>4 DEF Steps
<1>6. h \in [0..n -> Seq(S)] /\ h[0] = <<>> BY <1>4 DEF Steps
<1>7. \E f : Rec(f)
  <2> DEFINE f == [i \in 1..n |-> h[i]]
  <2>1. ASSUME NEW i \in 1..n
        PROVE  f[i] = IF i = 1 THEN ss[i] ELSE f[i - 1] \o ss[i]
    <3>1. CASE i = 1
      <4>1. i - 1 = 0 /\ ss[i] \in Seq(S) BY <1>2, <3>1
      <4>2. h[i] = <<>> \o ss[i] BY <1>5, <1>6, <4>1
      <4> QED BY <3>1, <4>1, <4>2
    <3>2. CASE i # 1
      <4>1. i - 1 \in 1..n BY <3>2
      <4> QED BY <1>5, <3>2, <4>1
    <3> QED BY <3>1, <3>2
  <2>2. f = [i \in 1..n |-> IF i = 1 THEN ss[i] ELSE f[i - 1] \o ss[i]] BY <2>1
  <2> QED BY <1>2, <2>2
<1>8. fl = [i \in 1..n |-> IF i = 1 THEN ss[i] ELSE fl[i - 1] \o ss[i]] BY <1>2, <1>7
<1> HIDE DEF fl, g
<1>9. ASSUME NEW k \in 1..n PROVE fl[k] = h[k]
  <2> DEFINE T == {i \in 0..n : i = 0 \/ fl[i] = h[i]}
  <2>1. 0 \in T OBVIOUS
  <2>2. \A i \in 1..n : i - 1 \in T => i \in T
    <3> SUFFICES ASSUME NEW i \in 1..n, i - 1 \in T PROVE fl[i] = h[i]
      OBVIOUS
    <3>1. CASE i = 1
      <4>1. fl[i] = ss[i] BY <1>8, <3>1
      <4>2. ss[i] \in Seq(S) BY <1>2
      <4>2a. i - 1 = 0 BY <3>1
      <4>3. h[i] = <<>> \o ss[i] BY <1>5, <1>6, <4>2a
      <4> QED BY <4>1, <4>2, <4>3
    <3>2. CASE i # 1
      <4>1. fl[i - 1] = h[i - 1] BY <3>2
      <4>2. fl[i] = fl[i - 1] \o ss[i] BY <1>8, <3>2
      <4> QED BY <1>5, <4>1, <4>2
    <3> QED BY <3>1, <3>2
  <2> HIDE DEF T
  <2>3. 0..n \subseteq T BY <2>1, <2>2, UpTo
  <2> QED BY <2>3 DEF T
<1>10. FlattenSeq(ss) = h[n]
  <2>1. CASE n = 0
    <3>1. ss = <<>> BY <1>2, <2>1
    <3> QED BY <1>1, <1>2, <1>6, <2>1, <3>1
  <2>2. CASE n # 0 BY <1>1, <1>2, <1>9, <2>2
  <2> QED BY <2>1, <2>2
<1>11. Flattens(h, ss, S) BY <1>2, <1>5, <1>6, <1>10 DEF Flattens
<1>12. FlattenSeq(ss) \in Seq(S) BY <1>6, <1>10
<1> QED BY <1>11, <1>12

(* One list more is appended to the end.                                   *)
LEMMA FlattenAppend ==
  ASSUME NEW S, NEW ss \in Seq(Seq(S)), NEW s \in Seq(S)
  PROVE  FlattenSeq(Append(ss, s)) = FlattenSeq(ss) \o s
<1>1. PICK n \in Nat : n = Len(ss) OBVIOUS
<1>2. /\ Append(ss, s) \in Seq(Seq(S)) /\ Len(Append(ss, s)) = n + 1
      /\ \A i \in 1..n : Append(ss, s)[i] = ss[i]
      /\ Append(ss, s)[n + 1] = s
  BY <1>1
<1>3. PICK h : Flattens(h, ss, S) BY FlattenIs
<1>4. PICK k : Flattens(k, Append(ss, s), S) BY <1>2, FlattenIs
<1> DEFINE T == {i \in 0..n : h[i] = k[i]}
<1>5. 0 \in T BY <1>3, <1>4 DEF Flattens
<1>6. ASSUME NEW i \in 1..n, i - 1 \in T PROVE i \in T
  <2>1. i \in 1..Len(ss) /\ i \in 1..Len(Append(ss, s)) BY <1>1, <1>2
  <2>2. h[i] = h[i - 1] \o ss[i] BY <1>3, <2>1 DEF Flattens
  <2>3. k[i] = k[i - 1] \o ss[i] BY <1>2, <1>4, <2>1 DEF Flattens
  <2>4. i \in 0..n /\ h[i - 1] = k[i - 1] BY <1>6
  <2> QED BY <2>2, <2>3, <2>4
<1> HIDE DEF T
<1>7. 0..n \subseteq T BY <1>5, <1>6, UpTo
<1>8. h[n] = k[n] BY <1>7 DEF T
<1>9. k[n + 1] = k[n] \o s
  <2>1. n + 1 \in 1..Len(Append(ss, s)) /\ (n + 1) - 1 = n BY <1>2
  <2> QED BY <1>2, <1>4, <2>1 DEF Flattens
<1> QED BY <1>1, <1>2, <1>3, <1>4, <1>8, <1>9 DEF Flattens

(* Nothing flattens to nothing.                                            *)
LEMMA FlattenNone == FlattenSeq(<<>>) = <<>>
BY DEF FlattenSeq

-----------------------------------------------------------------------------
(* Chunking *)

(* The recursive function behind FoldLeft over a list, with its step as a  *)
(* function of values and entries.                                         *)
Folds(f, s, E, V, base, g) ==
  /\ f \in [SUBSET DOMAIN s -> V] /\ f[{}] = base
  /\ \A S \in SUBSET DOMAIN s : S # {} =>
       /\ Max(S) \in DOMAIN s /\ f[S \ {Max(S)}] \in V /\ s[Max(S)] \in E
       /\ f[S] = g[<<f[S \ {Max(S)}], s[Max(S)]>>]

(* The same, of any function that satisfies the recursion.                 *)
Unfolds(it, s, E, V, base, g) ==
  /\ it[{}] = base
  /\ \A S \in SUBSET DOMAIN s : S # {} /\ it[S \ {Max(S)}] \in V /\ s[Max(S)] \in E =>
       it[S] = g[<<it[S \ {Max(S)}], s[Max(S)]>>]

(* The values a fold goes through, one per entry.                          *)
FoldRun(h, s, E, V, base, g) ==
  /\ h \in [0..Len(s) -> V] /\ h[0] = base
  /\ \A i \in 1..Len(s) : /\ i - 1 \in 0..Len(s) /\ h[i - 1] \in V /\ s[i] \in E
                          /\ h[i] = g[<<h[i - 1], s[i]>>]

Reaches(it, s, E, V, base, g) ==
  \E h : FoldRun(h, s, E, V, base, g) /\ it[DOMAIN s] = h[Len(s)]

(* The recursive function behind FoldLeft exists.                          *)
LEMMA FoldExists ==
  ASSUME NEW E, NEW s \in Seq(E), NEW V, NEW base \in V, NEW g \in [V \X E -> V]
  PROVE  \E f : Folds(f, s, E, V, base, g)
<1>1. PICK n \in Nat : n = Len(s) /\ DOMAIN s = 1..n OBVIOUS
<1>2. \A i \in 1..n : s[i] \in E BY <1>1
<1> DEFINE k == [p \in V \X (1..n) |-> g[<<p[1], s[p[2]]>>]]
<1>3. k \in [V \X (1..n) -> V] BY <1>2
<1>4. \A a \in V, i \in 1..n : k[<<a, i>>] = g[<<a, s[i]>>] OBVIOUS
<1> HIDE DEF k
<1>5. PICK f : Iterates(f, n, V, base, k) BY <1>3, FoldSteps
<1>6. Folds(f, s, E, V, base, g) BY <1>1, <1>2, <1>4, <1>5 DEF Iterates, Folds
<1> QED BY <1>6

(* A fold over a list ends where its run, one entry after the other, ends. *)
LEMMA FoldRuns ==
  ASSUME NEW E, NEW s \in Seq(E), NEW V, NEW base \in V, NEW g \in [V \X E -> V],
         NEW it, Unfolds(it, s, E, V, base, g)
  PROVE  Reaches(it, s, E, V, base, g)
<1>1. PICK n \in Nat : n = Len(s) /\ DOMAIN s = 1..n OBVIOUS
<1>2. \A i \in 1..n : s[i] \in E BY <1>1
<1> DEFINE h == [i \in 0..n |-> it[1..i]]
           T == {i \in 0..n : h[i] \in V}
<1>3. h[0] = base BY Initials DEF Unfolds
<1>4. 0 \in T BY <1>3
<1>5. ASSUME NEW i \in 1..n PROVE i - 1 \in 0..n /\ (h[i - 1] \in V => h[i] = g[<<h[i - 1], s[i]>>])
  <2>1. /\ i - 1 \in 0..n /\ 1..i \in SUBSET (1..n) /\ 1..i # {}
        /\ Max(1..i) = i /\ (1..i) \ {i} = 1..(i - 1)
    BY Initials
  <2>2. h[i] = it[1..i] /\ h[i - 1] = it[1..(i - 1)] BY <2>1
  <2>3. 1..i \in SUBSET DOMAIN s BY <1>1, <2>1
  <2>4. h[i - 1] \in V => it[1..i] = g[<<it[1..(i - 1)], s[i]>>]
    <3> HIDE DEF h
    <3> QED BY <1>2, <2>1, <2>2, <2>3 DEF Unfolds
  <2> HIDE DEF h
  <2> QED BY <2>1, <2>2, <2>4
<1> HIDE DEF h
<1>6. ASSUME NEW i \in 1..n, i - 1 \in T PROVE i \in T
  <2>1. h[i] = g[<<h[i - 1], s[i]>>] /\ h[i - 1] \in V BY <1>5, <1>6
  <2>2. h[i] \in V BY <1>2, <2>1
  <2> QED BY <2>2
<1> HIDE DEF T
<1>7. 0..n \subseteq T BY <1>4, <1>6, UpTo
<1>8. \A i \in 0..n : h[i] \in V BY <1>7 DEF T
<1>9. h = [i \in 0..n |-> h[i]] /\ h[n] = it[1..n] BY DEF h
<1>10. FoldRun(h, s, E, V, base, g) BY <1>1, <1>2, <1>3, <1>5, <1>8, <1>9 DEF FoldRun
<1> QED BY <1>1, <1>9, <1>10 DEF Reaches

(* How long some sentences are together.                                    *)
TotalLength(lengths, s) == FoldLeft(LAMBDA a, x : a + lengths[x], 0, s)

TotalLengthSteps(h, s, V, lengths) ==
  /\ h \in [0..Len(s) -> V] /\ h[0] = 0
  /\ \A i \in 1..Len(s) : i - 1 \in 0..Len(s) /\ h[i] = h[i - 1] + lengths[s[i]]

TotalLengthRuns(s, V, lengths) == \E h : TotalLengthSteps(h, s, V, lengths) /\ TotalLength(lengths, s) = h[Len(s)]

(* Such a fold goes through one step per entry of the list.                 *)
LEMMA TotalLengthFold ==
  ASSUME NEW lengths, NEW E, NEW s \in Seq(E), NEW V, 0 \in V,
         \A a \in V, x \in E : a + lengths[x] \in V
  PROVE  TotalLengthRuns(s, V, lengths)
<1> DEFINE base == 0
           g == [p \in V \X E |-> p[1] + lengths[p[2]]]
           Iter(f) == f = [S \in SUBSET DOMAIN s |->
             IF S = {} THEN base ELSE f[S \ {Max(S)}] + lengths[s[Max(S)]]]
           it == CHOOSE f : Iter(f)
<1>1. base \in V /\ g \in [V \X E -> V] OBVIOUS
<1>2. \A a \in V, x \in E : g[<<a, x>>] = a + lengths[x] OBVIOUS
<1>3. TotalLength(lengths, s) = it[DOMAIN s] BY DEF TotalLength, FoldLeft, MapThenFoldSet
<1> HIDE DEF g, base
<1>4. PICK f : Folds(f, s, E, V, base, g) BY <1>1, FoldExists
<1>5. \A S \in SUBSET DOMAIN s : S # {} =>
        f[S] = f[S \ {Max(S)}] + lengths[s[Max(S)]]
  BY <1>2, <1>4 DEF Folds
<1>6. Iter(f) BY <1>4, <1>5 DEF Folds
<1>7. Iter(it) BY <1>6
<1> HIDE DEF it
<1>8. Unfolds(it, s, E, V, base, g) BY <1>2, <1>7 DEF Unfolds
<1>9. PICK h : FoldRun(h, s, E, V, base, g) /\ it[DOMAIN s] = h[Len(s)]
  <2>1. Reaches(it, s, E, V, base, g) BY <1>1, <1>8, FoldRuns
  <2> QED BY <2>1 DEF Reaches
<1>10. TotalLengthSteps(h, s, V, lengths) BY <1>2, <1>9 DEF FoldRun, TotalLengthSteps, base
<1> QED BY <1>3, <1>9, <1>10 DEF TotalLengthRuns

(* The chunks as the sentences come in.                                     *)
Splitting(lengths, s) == FoldLeft(LAMBDA a, x : SplitStep(lengths, a, x), [done |-> <<>>, parts |-> <<>>, len |-> 0], s)

SplittingSteps(h, s, V, lengths) ==
  /\ h \in [0..Len(s) -> V] /\ h[0] = [done |-> <<>>, parts |-> <<>>, len |-> 0]
  /\ \A i \in 1..Len(s) : i - 1 \in 0..Len(s) /\ h[i] = SplitStep(lengths, h[i - 1], s[i])

SplittingRuns(s, V, lengths) == \E h : SplittingSteps(h, s, V, lengths) /\ Splitting(lengths, s) = h[Len(s)]

(* Such a fold goes through one step per entry of the list.                 *)
LEMMA SplittingFold ==
  ASSUME NEW lengths, NEW E, NEW s \in Seq(E), NEW V, [done |-> <<>>, parts |-> <<>>, len |-> 0] \in V,
         \A a \in V, x \in E : SplitStep(lengths, a, x) \in V
  PROVE  SplittingRuns(s, V, lengths)
<1> DEFINE base == [done |-> <<>>, parts |-> <<>>, len |-> 0]
           g == [p \in V \X E |-> SplitStep(lengths, p[1], p[2])]
           Iter(f) == f = [S \in SUBSET DOMAIN s |->
             IF S = {} THEN base ELSE SplitStep(lengths, f[S \ {Max(S)}], s[Max(S)])]
           it == CHOOSE f : Iter(f)
<1>1. base \in V /\ g \in [V \X E -> V] OBVIOUS
<1>2. \A a \in V, x \in E : g[<<a, x>>] = SplitStep(lengths, a, x) OBVIOUS
<1>3. Splitting(lengths, s) = it[DOMAIN s] BY DEF Splitting, FoldLeft, MapThenFoldSet
<1> HIDE DEF g, base
<1>4. PICK f : Folds(f, s, E, V, base, g) BY <1>1, FoldExists
<1>5. \A S \in SUBSET DOMAIN s : S # {} =>
        f[S] = SplitStep(lengths, f[S \ {Max(S)}], s[Max(S)])
  BY <1>2, <1>4 DEF Folds
<1>6. Iter(f) BY <1>4, <1>5 DEF Folds
<1>7. Iter(it) BY <1>6
<1> HIDE DEF it
<1>8. Unfolds(it, s, E, V, base, g) BY <1>2, <1>7 DEF Unfolds
<1>9. PICK h : FoldRun(h, s, E, V, base, g) /\ it[DOMAIN s] = h[Len(s)]
  <2>1. Reaches(it, s, E, V, base, g) BY <1>1, <1>8, FoldRuns
  <2> QED BY <2>1 DEF Reaches
<1>10. SplittingSteps(h, s, V, lengths) BY <1>2, <1>9 DEF FoldRun, SplittingSteps, base
<1> QED BY <1>3, <1>9, <1>10 DEF SplittingRuns

(* One sentence more adds its length.                                      *)
LEMMA TotalAppend ==
  ASSUME NEW lengths \in Seq(Nat), NEW c \in Seq(DOMAIN lengths), NEW x \in DOMAIN lengths
  PROVE  /\ TotalLength(lengths, c) \in Nat
         /\ TotalLength(lengths, Append(c, x)) = TotalLength(lengths, c) + lengths[x]
<1>1. \A d \in DOMAIN lengths : lengths[d] \in Nat OBVIOUS
<1>2. \A a \in Nat, d \in DOMAIN lengths : a + lengths[d] \in Nat BY <1>1
<1>3. PICK n \in Nat : n = Len(c) /\ DOMAIN c = 1..n OBVIOUS
<1>4. /\ Append(c, x) \in Seq(DOMAIN lengths) /\ Len(Append(c, x)) = n + 1
      /\ \A i \in 1..n : Append(c, x)[i] = c[i]
      /\ Append(c, x)[n + 1] = x
  BY <1>3
<1>5. PICK h : TotalLengthSteps(h, c, Nat, lengths) /\ TotalLength(lengths, c) = h[n]
  <2>1. TotalLengthRuns(c, Nat, lengths) BY <1>2, TotalLengthFold
  <2> QED BY <1>3, <2>1 DEF TotalLengthRuns
<1>6. PICK k : /\ TotalLengthSteps(k, Append(c, x), Nat, lengths)
               /\ TotalLength(lengths, Append(c, x)) = k[n + 1]
  <2>1. TotalLengthRuns(Append(c, x), Nat, lengths) BY <1>2, <1>4, TotalLengthFold
  <2> QED BY <1>4, <2>1 DEF TotalLengthRuns
<1> DEFINE T == {i \in 0..n : h[i] = k[i]}
<1>7. 0 \in T BY <1>5, <1>6 DEF TotalLengthSteps
<1>8. ASSUME NEW i \in 1..n, i - 1 \in T PROVE i \in T
  <2>1. i \in 1..Len(c) /\ i \in 1..Len(Append(c, x)) BY <1>3, <1>4
  <2>2. h[i] = h[i - 1] + lengths[c[i]] BY <1>5, <2>1 DEF TotalLengthSteps
  <2>3. k[i] = k[i - 1] + lengths[c[i]] BY <1>4, <1>6, <2>1 DEF TotalLengthSteps
  <2> QED BY <1>8, <2>2, <2>3
<1> HIDE DEF T
<1>9. 0..n \subseteq T BY <1>7, <1>8, UpTo
<1>10. h[n] = k[n] BY <1>9 DEF T
<1>11. k[n + 1] = k[n] + lengths[x]
  <2>1. n + 1 \in 1..Len(Append(c, x)) /\ (n + 1) - 1 = n BY <1>4
  <2>2. k[n + 1] = k[(n + 1) - 1] + lengths[Append(c, x)[n + 1]] BY <1>6, <2>1 DEF TotalLengthSteps
  <2> QED BY <1>4, <2>1, <2>2
<1>12. h[n] \in Nat
  <2>1. h \in [0..n -> Nat] BY <1>3, <1>5 DEF TotalLengthSteps
  <2> QED BY <2>1
<1> QED BY <1>5, <1>6, <1>10, <1>11, <1>12

(* No sentences have no length.                                            *)
LEMMA TotalNone == \A lengths : TotalLength(lengths, <<>>) = 0
<1> SUFFICES ASSUME NEW lengths PROVE TotalLength(lengths, <<>>) = 0
  OBVIOUS
<1>1. PICK E, s : E = {} /\ s = <<>> OBVIOUS
<1>2. s \in Seq(E) /\ Len(s) = 0 /\ \A a \in Nat, x \in E : a + lengths[x] \in Nat BY <1>1
<1>3. TotalLengthRuns(s, Nat, lengths) BY <1>2, TotalLengthFold
<1>4. PICK h : TotalLengthSteps(h, s, Nat, lengths) /\ TotalLength(lengths, s) = h[0]
  BY <1>2, <1>3 DEF TotalLengthRuns
<1> QED BY <1>1, <1>4 DEF TotalLengthSteps

Whole(lengths, c) == Len(c) > 1 => TotalLength(lengths, c) + Len(c) - 1 <= ChunkSize

Covered(lengths, a, i) ==
  /\ FlattenSeq(a.done) \o a.parts = [j \in 1..i |-> j]
  /\ \A c \in DOMAIN a.done : Whole(lengths, a.done[c]) /\ a.done[c] # <<>>
  /\ Whole(lengths, a.parts)
  /\ TotalLength(lengths, a.parts) + Len(a.parts) <= a.len

(* An entry appended to the second part is appended to the whole.          *)
LEMMA AppendLast ==
  ASSUME NEW S, NEW s \in Seq(S), NEW t \in Seq(S), NEW x \in S
  PROVE  s \o Append(t, x) = Append(s \o t, x)
<1>1. <<x>> \in Seq(S) /\ s \o t \in Seq(S) BY ConcatProperties
<1>2. Append(t, x) = t \o <<x>> /\ Append(s \o t, x) = (s \o t) \o <<x>> BY <1>1, AppendIsConcat
<1>3. (s \o t) \o <<x>> = s \o (t \o <<x>>) BY <1>1, ConcatAssociative
<1> QED BY <1>2, <1>3

(* Counting on by one.                                                     *)
LEMMA Counting ==
  ASSUME NEW D, NEW s \in Seq(D), NEW i \in Nat \ {0}, i \in D, s = [j \in 1..(i - 1) |-> j]
  PROVE  Append(s, i) = [j \in 1..i |-> j]
<1>1. Len(s) = i - 1 OBVIOUS
<1>2. /\ Append(s, i) \in Seq(D) /\ Len(Append(s, i)) = i /\ Append(s, i)[i] = i
      /\ \A j \in 1..(i - 1) : Append(s, i)[j] = s[j]
  BY <1>1
<1>3. DOMAIN Append(s, i) = 1..i /\ Append(s, i) = [j \in DOMAIN Append(s, i) |-> Append(s, i)[j]]
  BY <1>2
<1>4. \A j \in 1..i : Append(s, i)[j] = j BY <1>2
<1> QED BY <1>3, <1>4

SplitState(D) == [done : Seq(Seq(D)), parts : Seq(D), len : Nat]

(* One sentence more: the chunks still contain all sentences so far, in    *)
(* order and once, and none of several sentences outgrows its size         *)
(* (chunking.py:243).                                                      *)
LEMMA SplitCovers ==
  ASSUME NEW lengths \in Seq(Nat), NEW D, D = DOMAIN lengths,
         NEW a \in SplitState(D), NEW i \in D, Covered(lengths, a, i - 1),
         NEW b, b = SplitStep(lengths, a, i)
  PROVE  b \in SplitState(D) /\ Covered(lengths, b, i)
<1>0. PICK n \in Nat : D = 1..n OBVIOUS
<1>1. i \in Nat \ {0} /\ lengths[i] \in Nat /\ ChunkSize \in Nat
  <2>1. i \in 1..n /\ i \in DOMAIN lengths BY <1>0
  <2>2. lengths[i] \in Nat BY <2>1
  <2>3. ChunkSize \in Nat BY RetrievalAssumption
  <2> QED BY <2>1, <2>2, <2>3
<1>2. a.done \in Seq(Seq(D)) /\ a.parts \in Seq(D) /\ a.len \in Nat BY DEF SplitState
<1> DEFINE f == FlattenSeq(a.done)
<1>3. f \in Seq(D) BY <1>2, FlattenIs
<1>4. f \o a.parts = [j \in 1..(i - 1) |-> j] BY DEF Covered
<1>4a. f \o a.parts \in Seq(D) BY <1>2, <1>3, ConcatProperties
<1>5. Append(f \o a.parts, i) = [j \in 1..i |-> j]
  <2> HIDE DEF f
  <2> QED BY <1>1, <1>4, <1>4a, Counting
<1> HIDE DEF f
<1>5a. Append(f \o a.parts, i) = (f \o a.parts) \o <<i>> BY <1>4a, AppendIsConcat
<1>5b. <<i>> \in Seq(D) OBVIOUS
<1>6. CASE a.len + lengths[i] > ChunkSize /\ a.parts # <<>>
  <2>1. b = [done |-> Append(a.done, a.parts), parts |-> <<i>>, len |-> lengths[i] + 1]
    BY <1>6 DEF SplitStep
  <2>1a. /\ b.done = Append(a.done, a.parts) /\ b.parts = <<i>> /\ b.len = lengths[i] + 1
         /\ b.done \in Seq(Seq(D))
    BY <1>2, <2>1
  <2>2. b \in SplitState(D) BY <1>1, <1>2, <1>5b, <2>1 DEF SplitState
  <2>3. FlattenSeq(b.done) = f \o a.parts
    <3>1. FlattenSeq(Append(a.done, a.parts)) = FlattenSeq(a.done) \o a.parts BY <1>2, FlattenAppend
    <3> QED BY <2>1a, <3>1 DEF f
  <2>5. FlattenSeq(b.done) \o b.parts = [j \in 1..i |-> j] BY <1>5, <1>5a, <2>1a, <2>3
  <2>6. TotalLength(lengths, b.parts) = lengths[i]
    <3>1. <<>> \in Seq(D) /\ Append(<<>>, i) = <<i>> OBVIOUS
    <3>2. TotalLength(lengths, <<i>>) = TotalLength(lengths, <<>>) + lengths[i] BY <3>1, TotalAppend
    <3> QED BY <1>1, <2>1a, <3>2, TotalNone
  <2>7. ASSUME NEW c \in DOMAIN b.done PROVE Whole(lengths, b.done[c]) /\ b.done[c] # <<>>
    <3>1. c \in DOMAIN a.done \/ b.done[c] = a.parts BY <1>2, <2>1a
    <3>2. c \in DOMAIN a.done => b.done[c] = a.done[c] BY <1>2, <2>1a
    <3> QED BY <1>6, <3>1, <3>2 DEF Covered
  <2>8. Whole(lengths, b.parts) /\ TotalLength(lengths, b.parts) + Len(b.parts) <= b.len
    <3>1. Len(b.parts) = 1 BY <2>1a
    <3> QED BY <1>1, <2>1a, <2>6, <3>1 DEF Whole
  <2> QED BY <2>2, <2>5, <2>7, <2>8 DEF Covered
<1>7. CASE ~(a.len + lengths[i] > ChunkSize /\ a.parts # <<>>)
  <2>1. b = [a EXCEPT !.parts = Append(@, i), !.len = @ + lengths[i] + 1] BY <1>7 DEF SplitStep
  <2>2. b \in SplitState(D) /\ b.done = a.done /\ b.parts = Append(a.parts, i)
        /\ b.len = a.len + lengths[i] + 1
    <3>1. Append(a.parts, i) \in Seq(D) /\ a.len + lengths[i] + 1 \in Nat BY <1>1, <1>2
    <3> QED BY <2>1, <3>1 DEF SplitState
  <2>3. f \o Append(a.parts, i) = Append(f \o a.parts, i)
    <3>1. PICK p : p = a.parts OBVIOUS
    <3>2. p \in Seq(D) BY <1>2, <3>1
    <3>3. f \o Append(p, i) = Append(f \o p, i) BY ONLY <1>3, <3>2, i \in D, AppendLast
    <3> QED BY <3>1, <3>3
  <2>4. /\ TotalLength(lengths, b.parts) = TotalLength(lengths, a.parts) + lengths[i]
        /\ TotalLength(lengths, a.parts) \in Nat
    BY <1>2, <2>2, TotalAppend
  <2>4a. Len(b.parts) = Len(a.parts) + 1 /\ Len(a.parts) \in Nat BY <1>2, <2>2
  <2>4b. TotalLength(lengths, a.parts) + Len(a.parts) <= a.len BY DEF Covered
  <2>5. TotalLength(lengths, b.parts) + Len(b.parts) <= b.len
    <3>1. PICK t, k : t = TotalLength(lengths, a.parts) /\ k = Len(a.parts) OBVIOUS
    <3>2. PICK l, m : l = lengths[i] /\ m = a.len OBVIOUS
    <3>3. t \in Nat /\ k \in Nat /\ l \in Nat /\ m \in Nat /\ t + k <= m
      BY <1>1, <1>2, <2>4, <2>4a, <2>4b, <3>1, <3>2
    <3>4. (t + l) + (k + 1) <= m + l + 1 BY ONLY <3>3
    <3> QED BY <2>2, <2>4, <2>4a, <3>1, <3>2, <3>4
  <2>6. Whole(lengths, b.parts)
    <3> SUFFICES ASSUME Len(b.parts) > 1
                 PROVE  TotalLength(lengths, b.parts) + Len(b.parts) - 1 <= ChunkSize
      BY DEF Whole
    <3>1. a.parts # <<>> BY <1>2, <2>2
    <3>2. a.len + lengths[i] <= ChunkSize BY <1>1, <1>2, <1>7, <3>1
    <3> QED BY <1>1, <1>2, <2>4, <2>4a, <2>4b, <3>2
  <2>7. FlattenSeq(b.done) \o b.parts = [j \in 1..i |-> j] BY <1>5, <2>2, <2>3 DEF f
  <2> QED BY <2>2, <2>5, <2>6, <2>7 DEF Covered
<1> QED BY <1>6, <1>7

(* The sentences of the chunks cover the text, for every document.          *)
LEMMA ChunksHold ==
  ASSUME NEW lengths \in Seq(Nat), NEW chunks, chunks = SentencesOfChunks(lengths)
  PROVE  /\ FlattenSeq(chunks) = [i \in DOMAIN lengths |-> i]
         /\ chunks \in Seq(Seq(DOMAIN lengths))
         /\ \A c \in DOMAIN chunks : Whole(lengths, chunks[c]) /\ chunks[c] # <<>>
<1> DEFINE D == DOMAIN lengths
           V == SplitState(D)
           s == [i \in D |-> i]
           base == [done |-> <<>>, parts |-> <<>>, len |-> 0]
<1>1. lengths \in Seq(Nat) OBVIOUS
<1>2. PICK n \in Nat : n = Len(lengths) /\ D = 1..n BY <1>1
<1>3. s \in Seq(D) /\ Len(s) = n /\ \A i \in D : s[i] = i BY <1>2
<1>4. base \in V BY DEF SplitState
<1>5. ASSUME NEW a \in V, NEW x \in D PROVE SplitStep(lengths, a, x) \in V
  <2>1. /\ lengths[x] \in Nat /\ a.len \in Nat
        /\ Append(a.done, a.parts) \in Seq(Seq(D)) /\ Append(a.parts, x) \in Seq(D)
        /\ <<x>> \in Seq(D)
    BY <1>1, <1>2 DEF SplitState
  <2>2. a = [done |-> a.done, parts |-> a.parts, len |-> a.len] BY DEF SplitState
  <2>3. a.done \in Seq(Seq(D)) /\ a.parts \in Seq(D) BY DEF SplitState
  <2> HIDE DEF D
  <2>4. CASE a.len + lengths[x] > ChunkSize /\ a.parts # <<>>
    BY <2>1, <2>4 DEF SplitState, SplitStep
  <2>5. CASE ~(a.len + lengths[x] > ChunkSize /\ a.parts # <<>>)
    <3>1. SplitStep(lengths, a, x) = [a EXCEPT !.parts = Append(@, x), !.len = @ + lengths[x] + 1]
      BY <2>5 DEF SplitStep
    <3>2. SplitStep(lengths, a, x) =
            [done |-> a.done, parts |-> Append(a.parts, x), len |-> a.len + lengths[x] + 1]
      BY <2>2, <3>1
    <3> QED BY <2>1, <2>3, <3>2 DEF SplitState
  <2> QED BY <2>4, <2>5
<1>6. Splitting(lengths, s) = FoldLeft(LAMBDA a, x : SplitStep(lengths, a, x), base, s)
  BY DEF Splitting
<1>6a. chunks = LET e == Splitting(lengths, s)
                IN IF e.parts = <<>> THEN e.done ELSE Append(e.done, e.parts)
  BY DEF SentencesOfChunks, Splitting
<1> HIDE DEF s, V, D
<1>6b. PICK h : SplittingSteps(h, s, V, lengths) /\ Splitting(lengths, s) = h[n]
  <2>1. SplittingRuns(s, V, lengths) BY <1>3, <1>4, <1>5, SplittingFold
  <2> QED BY <1>3, <2>1 DEF SplittingRuns
<1>6c. /\ h[0] = base /\ h \in [0..n -> V]
       /\ \A i \in 1..n : h[i] = SplitStep(lengths, h[i - 1], i)
  BY <1>2, <1>3, <1>6b DEF SplittingSteps
<1> DEFINE T == {i \in 0..n : Covered(lengths, h[i], i)}
<1>7. 0 \in T
  <2>1. FlattenSeq(<<>>) \o <<>> = [j \in 1..0 |-> j] BY FlattenNone
  <2>2. Covered(lengths, base, 0) BY <2>1, TotalNone DEF Covered, Whole
  <2> QED BY <1>6c, <2>2
<1>8. ASSUME NEW i \in 1..n, i - 1 \in T PROVE i \in T
  <2>1. i - 1 \in 0..n /\ i \in D BY <1>2
  <2>2. h[i - 1] \in V /\ h[i] = SplitStep(lengths, h[i - 1], i) BY <1>6c, <2>1
  <2>3. Covered(lengths, h[i - 1], i - 1) BY <1>8
  <2>4. Covered(lengths, h[i], i) BY <1>1, <2>1, <2>2, <2>3, SplitCovers DEF V, D
  <2> QED BY <2>4
<1> HIDE DEF T
<1>9. 0..n \subseteq T BY <1>7, <1>8, UpTo
<1>10. Covered(lengths, h[n], n) BY <1>9 DEF T
<1>11. h[n] \in V BY <1>6c
<1> DEFINE end == h[n]
<1>12. chunks = IF end.parts = <<>> THEN end.done ELSE Append(end.done, end.parts)
  BY <1>6a, <1>6b
<1>13. end.done \in Seq(Seq(D)) /\ end.parts \in Seq(D) BY <1>11 DEF V, SplitState
<1> HIDE DEF end
<1>14. FlattenSeq(chunks) = FlattenSeq(end.done) \o end.parts
  <2>1. CASE end.parts = <<>>
    <3>1. FlattenSeq(end.done) \in Seq(D) BY <1>13, FlattenIs
    <3> QED BY <1>12, <2>1, <3>1, ConcatEmptySeq
  <2>2. CASE end.parts # <<>> BY <1>12, <1>13, <2>2, FlattenAppend
  <2> QED BY <2>1, <2>2
<1>15. FlattenSeq(chunks) = [i \in D |-> i] BY <1>2, <1>10, <1>14 DEF Covered, end
<1>16. ASSUME NEW c \in DOMAIN chunks PROVE Whole(lengths, chunks[c]) /\ chunks[c] # <<>>
  <2>1. /\ Whole(lengths, end.parts)
        /\ \A d \in DOMAIN end.done : Whole(lengths, end.done[d]) /\ end.done[d] # <<>>
    BY <1>10 DEF Covered, end
  <2>2. \/ chunks[c] = end.parts /\ end.parts # <<>>
        \/ c \in DOMAIN end.done /\ chunks[c] = end.done[c]
    BY <1>12, <1>13
  <2> QED BY <2>1, <2>2
<1>17. chunks \in Seq(Seq(D)) BY <1>12, <1>13
<1> QED BY <1>15, <1>16, <1>17 DEF D

LEMMA SmallerOfTwo ==
  ASSUME NEW a \in Int, NEW b \in Int
  PROVE  Min({a, b}) \in Int /\ Min({a, b}) <= a /\ Min({a, b}) <= b
<1>1. \E m \in {a, b} : \A x \in {a, b} : m <= x OBVIOUS
<1>2. Min({a, b}) \in {a, b} /\ \A x \in {a, b} : Min({a, b}) <= x BY <1>1 DEF Min
<1> QED BY <1>2

(* What is repeated of a chunk is no more than there is of it, nor more than *)
(* the overlap allows.                                                      *)
LEMMA TailHolds ==
  ASSUME NEW in, SplitInput(in), NEW parts \in Seq(DOMAIN in.lengths), parts # <<>>
  PROVE  /\ OverlapTail(in, parts) <= JoinedLength(in.lengths, parts) + 1
         /\ Overlap > 0 => OverlapTail(in, parts) <= Overlap + 1 + in.snaps[parts[Len(parts)]]
<1>1. /\ in.lengths \in Seq(Nat) /\ in.snaps \in Seq(Int) /\ DOMAIN in.snaps = DOMAIN in.lengths
      /\ Overlap \in Nat
  BY RetrievalAssumption DEF SplitInput
<1>2. PICK last : last = parts[Len(parts)] OBVIOUS
<1>3. last \in DOMAIN in.lengths /\ in.snaps[last] \in Int /\ Len(parts) \in Nat \ {0}
  BY <1>1, <1>2
<1>4. PICK j : j = JoinedLength(in.lengths, parts) OBVIOUS
<1>5. j \in Int /\ j >= 0
  <2>1. PICK t : t = TotalLength(in.lengths, parts) OBVIOUS
  <2>2. t \in Nat BY <1>1, <1>3, <2>1, TotalAppend
  <2>3. j = t + Len(parts) - 1 BY <1>4, <2>1 DEF JoinedLength, TotalLength
  <2> QED BY <1>3, <2>2, <2>3
<1>6. CASE Overlap = 0 BY <1>4, <1>5, <1>6 DEF OverlapTail
<1>7. CASE Overlap # 0
  <2>1. PICK most : most = Overlap + in.snaps[last] OBVIOUS
  <2>2. PICK m : m = Min({j, most}) OBVIOUS
  <2>3. OverlapTail(in, parts) = m + 1 BY <1>2, <1>4, <1>7, <2>1, <2>2 DEF OverlapTail
  <2>4. most \in Int BY <1>1, <1>3, <2>1
  <2>5. m \in Int /\ m <= j /\ m <= most
    <3>1. Min({j, most}) \in Int /\ Min({j, most}) <= j /\ Min({j, most}) <= most
      BY ONLY <1>5, <2>4, SmallerOfTwo
    <3> QED BY <2>2, <3>1
  <2>6. m + 1 <= j + 1 /\ m + 1 <= Overlap + 1 + in.snaps[last]
    BY <1>1, <1>3, <1>5, <2>1, <2>4, <2>5
  <2> QED BY <1>2, <1>4, <2>3, <2>6
<1> QED BY <1>6, <1>7

(* What the splitter returns: its chunks, and what each repeats.            *)
LEMMA SplitHolds ==
  ASSUME NEW in, SplitInput(in), NEW chunks, chunks = SplitSentence(in)
  PROVE  /\ FlattenSeq([c \in DOMAIN chunks |-> chunks[c].parts]) = [i \in DOMAIN in.lengths |-> i]
         /\ \A c \in DOMAIN chunks : Whole(in.lengths, chunks[c].parts)
         /\ \A c \in DOMAIN chunks :
              /\ c = 1 => chunks[c].tail = 0
              /\ c > 1 => /\ chunks[c].tail <= JoinedLength(in.lengths, chunks[c - 1].parts) + 1
                          /\ Overlap > 0 =>
                               LET before == chunks[c - 1].parts
                               IN chunks[c].tail <= Overlap + 1 + in.snaps[before[Len(before)]]
<1>0. PICK D, own : D = DOMAIN in.lengths /\ own = SentencesOfChunks(in.lengths) OBVIOUS
<1>1. in.lengths \in Seq(Nat) BY DEF SplitInput
<1>2. /\ FlattenSeq(own) = [i \in D |-> i]
      /\ own \in Seq(Seq(D)) /\ \A c \in DOMAIN own : Whole(in.lengths, own[c]) /\ own[c] # <<>>
  BY <1>0, <1>1, ChunksHold
<1>3. chunks = [c \in DOMAIN own |-> [parts |-> own[c],
                                     tail |-> IF c = 1 THEN 0 ELSE OverlapTail(in, own[c - 1])]]
  BY <1>0 DEF SplitSentence
<1>4. DOMAIN chunks = DOMAIN own /\ \A c \in DOMAIN own : chunks[c].parts = own[c] BY <1>3
<1>5. [c \in DOMAIN chunks |-> chunks[c].parts] = own BY <1>2, <1>4
<1>6. ASSUME NEW c \in DOMAIN chunks, c > 1
      PROVE  /\ c - 1 \in DOMAIN own /\ chunks[c - 1].parts = own[c - 1]
             /\ chunks[c].tail = OverlapTail(in, own[c - 1])
             /\ own[c - 1] \in Seq(D) /\ own[c - 1] # <<>>
  <2>1. c - 1 \in DOMAIN own BY <1>2, <1>4, <1>6
  <2> QED BY <1>2, <1>3, <1>4, <1>6, <2>1
<1>7. ASSUME NEW c \in DOMAIN chunks, c > 1
      PROVE  /\ chunks[c].tail <= JoinedLength(in.lengths, chunks[c - 1].parts) + 1
             /\ Overlap > 0 =>
                  LET before == chunks[c - 1].parts
                  IN chunks[c].tail <= Overlap + 1 + in.snaps[before[Len(before)]]
  <2>1. PICK parts : parts = own[c - 1] OBVIOUS
  <2>2. parts \in Seq(DOMAIN in.lengths) /\ parts # <<>> BY <1>0, <1>6, <1>7, <2>1
  <2>3. chunks[c - 1].parts = parts /\ chunks[c].tail = OverlapTail(in, parts)
    BY <1>6, <1>7, <2>1
  <2> QED BY <2>2, <2>3, TailHolds
<1>8. \A c \in DOMAIN chunks : c = 1 => chunks[c].tail = 0 BY <1>3
<1> QED BY <1>0, <1>2, <1>4, <1>5, <1>7, <1>8

-----------------------------------------------------------------------------
(* Rank fusion *)

Fractions == Int \X (Nat \ {0})

(* Multiplying by a positive number keeps the order.                       *)
LEMMA Scaled ==
  ASSUME NEW x \in Int, NEW y \in Int, NEW z \in Nat \ {0}
  PROVE  /\ x < y <=> x * z < y * z
         /\ x <= y <=> x * z <= y * z
         /\ x = y <=> x * z = y * z
<1>1. x < y => x * z < y * z
  <2> SUFFICES ASSUME x < y PROVE x * z < y * z
    OBVIOUS
  <2>1. PICK d \in Nat \ {0} : y = x + d BY y = x + (y - x)
  <2>2. d * z \in Nat \ {0} OBVIOUS
  <2>3. y * z = x * z + d * z BY <2>1
  <2>4. x * z \in Int OBVIOUS
  <2> QED BY <2>2, <2>3, <2>4
<1>2. y < x => y * z < x * z
  <2> SUFFICES ASSUME y < x PROVE y * z < x * z
    OBVIOUS
  <2>1. PICK d \in Nat \ {0} : x = y + d BY x = y + (x - y)
  <2>2. d * z \in Nat \ {0} OBVIOUS
  <2>3. x * z = y * z + d * z BY <2>1
  <2>4. y * z \in Int OBVIOUS
  <2> QED BY <2>2, <2>3, <2>4
<1>3. x * z \in Int /\ y * z \in Int OBVIOUS
<1>4. x = y => x * z = y * z OBVIOUS
<1> QED BY <1>1, <1>2, <1>3, <1>4

(* How fractions compare, as integers.                                     *)
LEMMA BelowIs ==
  ASSUME NEW p \in Fractions, NEW q \in Fractions
  PROVE  /\ p[1] \in Int /\ p[2] \in Nat \ {0}
         /\ p[1] * q[2] \in Int /\ q[1] * p[2] \in Int
         /\ AtMost(p, q) <=> ~Below(q, p)
         /\ Equals(p, q) <=> ~Below(p, q) /\ ~Below(q, p)
<1>1. p[1] \in Int /\ p[2] \in Nat \ {0} /\ q[1] \in Int /\ q[2] \in Nat \ {0} BY DEF Fractions
<1>2. p[1] * q[2] \in Int /\ q[1] * p[2] \in Int BY <1>1
<1> QED BY <1>1, <1>2 DEF AtMost, Below, Equals

(* The order of fractions is transitive.                                   *)
LEMMA BelowThrough ==
  ASSUME NEW p \in Fractions, NEW q \in Fractions, NEW r \in Fractions
  PROVE  /\ AtMost(p, q) /\ AtMost(q, r) => AtMost(p, r)
         /\ Below(p, q) /\ AtMost(q, r) => Below(p, r)
         /\ AtMost(p, q) /\ Below(q, r) => Below(p, r)
<1>1. /\ p[1] \in Int /\ p[2] \in Nat \ {0} /\ q[1] \in Int /\ q[2] \in Nat \ {0}
      /\ r[1] \in Int /\ r[2] \in Nat \ {0}
  BY DEF Fractions
<1> DEFINE pq == p[1] * q[2]
           qp == q[1] * p[2]
           qr == q[1] * r[2]
           rq == r[1] * q[2]
           pr == p[1] * r[2]
           rp == r[1] * p[2]
<1>2. pq \in Int /\ qp \in Int /\ qr \in Int /\ rq \in Int /\ pr \in Int /\ rp \in Int BY <1>1
<1>3. pq * r[2] = pr * q[2] /\ qp * r[2] = qr * p[2] /\ rq * p[2] = rp * q[2] BY <1>1
<1>4. /\ pq * r[2] \in Int /\ qp * r[2] \in Int /\ qr * p[2] \in Int /\ rq * p[2] \in Int
      /\ pr * q[2] \in Int /\ rp * q[2] \in Int
  BY <1>1, <1>2
<1> HIDE DEF pq, qp, qr, rq, pr, rp
<1>5. /\ pq < qp <=> pq * r[2] < qp * r[2]
      /\ pq <= qp <=> pq * r[2] <= qp * r[2]
  BY <1>1, <1>2, Scaled
<1>6. /\ qr < rq <=> qr * p[2] < rq * p[2]
      /\ qr <= rq <=> qr * p[2] <= rq * p[2]
  BY <1>1, <1>2, Scaled
<1>7. /\ pr < rp <=> pr * q[2] < rp * q[2]
      /\ pr <= rp <=> pr * q[2] <= rp * q[2]
  BY <1>1, <1>2, Scaled
<1>8. /\ pq <= qp /\ qr <= rq => pr <= rp
      /\ pq < qp /\ qr <= rq => pr < rp
      /\ pq <= qp /\ qr < rq => pr < rp
  BY <1>3, <1>4, <1>5, <1>6, <1>7
<1> QED BY <1>8 DEF AtMost, Below, pq, qp, qr, rq, pr, rp

(* The sum of two fractions is one, whichever comes first.                 *)
LEMMA PlusIs ==
  ASSUME NEW p \in Fractions, NEW q \in Fractions
  PROVE  Plus(p, q) \in Fractions /\ Plus(p, q) = Plus(q, p)
<1>1. p[1] \in Int /\ p[2] \in Nat \ {0} /\ q[1] \in Int /\ q[2] \in Nat \ {0} BY DEF Fractions
<1>2. p[1] * q[2] + q[1] * p[2] \in Int /\ p[2] * q[2] \in Nat \ {0} BY <1>1
<1>3. p[1] * q[2] + q[1] * p[2] = q[1] * p[2] + p[1] * q[2] /\ p[2] * q[2] = q[2] * p[2] BY <1>1
<1> QED BY <1>2, <1>3 DEF Plus, Fractions

(* Sums of fractions are ordered as their parts.                           *)
LEMMA PlusBelow ==
  ASSUME NEW p \in Fractions, NEW q \in Fractions, NEW r \in Fractions, NEW t \in Fractions,
         AtMost(r, t)
  PROVE  /\ Below(p, q) => Below(Plus(p, r), Plus(q, t))
         /\ AtMost(p, q) => AtMost(Plus(p, r), Plus(q, t))
<1>1. /\ p[1] \in Int /\ p[2] \in Nat \ {0} /\ q[1] \in Int /\ q[2] \in Nat \ {0}
      /\ r[1] \in Int /\ r[2] \in Nat \ {0} /\ t[1] \in Int /\ t[2] \in Nat \ {0}
  BY DEF Fractions
<1> DEFINE pq == p[1] * q[2]
           qp == q[1] * p[2]
           rt == r[1] * t[2]
           tr == t[1] * r[2]
           u == r[2] * t[2]
           w == p[2] * q[2]
<1>2. pq \in Int /\ qp \in Int /\ rt \in Int /\ tr \in Int /\ u \in Nat \ {0} /\ w \in Nat \ {0}
  BY <1>1
<1>3. /\ (p[1] * r[2] + r[1] * p[2]) * (q[2] * t[2]) = pq * u + rt * w
      /\ (q[1] * t[2] + t[1] * q[2]) * (p[2] * r[2]) = qp * u + tr * w
  BY <1>1
<1>4. /\ AtMost(Plus(p, r), Plus(q, t)) <=> pq * u + rt * w <= qp * u + tr * w
      /\ Below(Plus(p, r), Plus(q, t)) <=> pq * u + rt * w < qp * u + tr * w
  BY <1>3 DEF AtMost, Below, Plus
<1>5. /\ rt <= tr
      /\ AtMost(p, q) <=> pq <= qp
      /\ Below(p, q) <=> pq < qp
  BY DEF AtMost, Below
<1> HIDE DEF pq, qp, rt, tr, u, w
<1>6. rt * w <= tr * w BY <1>2, <1>5, Scaled
<1>7. (pq <= qp <=> pq * u <= qp * u) /\ (pq < qp <=> pq * u < qp * u) BY <1>2, Scaled
<1>8. pq * u \in Int /\ qp * u \in Int /\ rt * w \in Int /\ tr * w \in Int BY <1>2
<1> QED BY <1>4, <1>5, <1>6, <1>7, <1>8

(* What the places of a candidate in a list add to its score.               *)
InList(list, id, sum, s) == FoldLeft(LAMBDA a, x : PlaceStep(list, id, a, x), sum, s)

InListSteps(h, s, V, list, id, sum) ==
  /\ h \in [0..Len(s) -> V] /\ h[0] = sum
  /\ \A i \in 1..Len(s) : i - 1 \in 0..Len(s) /\ h[i] = PlaceStep(list, id, h[i - 1], s[i])

InListRuns(s, V, list, id, sum) == \E h : InListSteps(h, s, V, list, id, sum) /\ InList(list, id, sum, s) = h[Len(s)]

(* Such a fold goes through one step per entry of the list.                 *)
LEMMA InListFold ==
  ASSUME NEW list, NEW id, NEW sum, NEW E, NEW s \in Seq(E), NEW V, sum \in V,
         \A a \in V, x \in E : PlaceStep(list, id, a, x) \in V
  PROVE  InListRuns(s, V, list, id, sum)
<1> DEFINE base == sum
           g == [p \in V \X E |-> PlaceStep(list, id, p[1], p[2])]
           Iter(f) == f = [S \in SUBSET DOMAIN s |->
             IF S = {} THEN base ELSE PlaceStep(list, id, f[S \ {Max(S)}], s[Max(S)])]
           it == CHOOSE f : Iter(f)
<1>1. base \in V /\ g \in [V \X E -> V] OBVIOUS
<1>2. \A a \in V, x \in E : g[<<a, x>>] = PlaceStep(list, id, a, x) OBVIOUS
<1>3. InList(list, id, sum, s) = it[DOMAIN s] BY DEF InList, FoldLeft, MapThenFoldSet
<1> HIDE DEF g, base
<1>4. PICK f : Folds(f, s, E, V, base, g) BY <1>1, FoldExists
<1>5. \A S \in SUBSET DOMAIN s : S # {} =>
        f[S] = PlaceStep(list, id, f[S \ {Max(S)}], s[Max(S)])
  BY <1>2, <1>4 DEF Folds
<1>6. Iter(f) BY <1>4, <1>5 DEF Folds
<1>7. Iter(it) BY <1>6
<1> HIDE DEF it
<1>8. Unfolds(it, s, E, V, base, g) BY <1>2, <1>7 DEF Unfolds
<1>9. PICK h : FoldRun(h, s, E, V, base, g) /\ it[DOMAIN s] = h[Len(s)]
  <2>1. Reaches(it, s, E, V, base, g) BY <1>1, <1>8, FoldRuns
  <2> QED BY <2>1 DEF Reaches
<1>10. InListSteps(h, s, V, list, id, sum) BY <1>2, <1>9 DEF FoldRun, InListSteps, base
<1> QED BY <1>3, <1>9, <1>10 DEF InListRuns

(* A candidate's score over several lists.                                  *)
Score(id, s) == FoldLeft(LAMBDA a, x : InList(x, id, a, [at \in DOMAIN x |-> at]), <<0, 1>>, s)

ScoreSteps(h, s, V, id) ==
  /\ h \in [0..Len(s) -> V] /\ h[0] = <<0, 1>>
  /\ \A i \in 1..Len(s) : i - 1 \in 0..Len(s) /\ h[i] = InList(s[i], id, h[i - 1], [at \in DOMAIN s[i] |-> at])

ScoreRuns(s, V, id) == \E h : ScoreSteps(h, s, V, id) /\ Score(id, s) = h[Len(s)]

(* Such a fold goes through one step per entry of the list.                 *)
LEMMA ScoreFold ==
  ASSUME NEW id, NEW E, NEW s \in Seq(E), NEW V, <<0, 1>> \in V,
         \A a \in V, x \in E : InList(x, id, a, [at \in DOMAIN x |-> at]) \in V
  PROVE  ScoreRuns(s, V, id)
<1> DEFINE base == <<0, 1>>
           g == [p \in V \X E |-> InList(p[2], id, p[1], [at \in DOMAIN p[2] |-> at])]
           Iter(f) == f = [S \in SUBSET DOMAIN s |->
             IF S = {} THEN base ELSE InList(s[Max(S)], id, f[S \ {Max(S)}], [at \in DOMAIN s[Max(S)] |-> at])]
           it == CHOOSE f : Iter(f)
<1>1. base \in V /\ g \in [V \X E -> V] OBVIOUS
<1>2. \A a \in V, x \in E : g[<<a, x>>] = InList(x, id, a, [at \in DOMAIN x |-> at]) OBVIOUS
<1>3. Score(id, s) = it[DOMAIN s] BY DEF Score, FoldLeft, MapThenFoldSet
<1> HIDE DEF g, base
<1>4. PICK f : Folds(f, s, E, V, base, g) BY <1>1, FoldExists
<1>5. \A S \in SUBSET DOMAIN s : S # {} =>
        f[S] = InList(s[Max(S)], id, f[S \ {Max(S)}], [at \in DOMAIN s[Max(S)] |-> at])
  BY <1>2, <1>4 DEF Folds
<1>6. Iter(f) BY <1>4, <1>5 DEF Folds
<1>7. Iter(it) BY <1>6
<1> HIDE DEF it
<1>8. Unfolds(it, s, E, V, base, g) BY <1>2, <1>7 DEF Unfolds
<1>9. PICK h : FoldRun(h, s, E, V, base, g) /\ it[DOMAIN s] = h[Len(s)]
  <2>1. Reaches(it, s, E, V, base, g) BY <1>1, <1>8, FoldRuns
  <2> QED BY <2>1 DEF Reaches
<1>10. ScoreSteps(h, s, V, id) BY <1>2, <1>9 DEF FoldRun, ScoreSteps, base
<1> QED BY <1>3, <1>9, <1>10 DEF ScoreRuns

(* The score of a candidate as a named fold.                               *)
LEMMA ScoreIs == \A lists, id : RRFScore(lists, id) = Score(id, lists)
BY DEF RRFScore, Score, InList

(* A place in a ranking adds a fraction.                                   *)
LEMMA PlaceAdds ==
  ASSUME NEW n \in Nat, NEW list, DOMAIN list = 1..n, NEW id, NEW sum \in Fractions,
         NEW i \in 1..n
  PROVE  PlaceStep(list, id, sum, i) \in Fractions
<1>1. <<1, RRFK + i>> \in Fractions BY RetrievalAssumption DEF Fractions
<1> QED BY <1>1, PlusIs DEF PlaceStep

(* A ranking that lists a candidate once adds one share to its score, and  *)
(* one that does not list it adds nothing.                                 *)
LEMMA InListIs ==
  ASSUME NEW n \in Nat, NEW list, DOMAIN list = 1..n, NEW id, NEW sum \in Fractions
  PROVE  LET end == InList(list, id, sum, [i \in DOMAIN list |-> i])
         IN /\ end \in Fractions
            /\ (\A i \in 1..n : list[i].id # id) => end = sum
            /\ \A p \in 1..n : (\A i \in 1..n : list[i].id = id <=> i = p) =>
                 end = Plus(sum, <<1, RRFK + p>>)
<1> DEFINE s == [i \in DOMAIN list |-> i]
           end == InList(list, id, sum, s)
<1>1. s \in Seq(1..n) /\ Len(s) = n /\ \A i \in 1..n : s[i] = i OBVIOUS
<1>2. \A a \in Fractions, x \in 1..n : PlaceStep(list, id, a, x) \in Fractions BY PlaceAdds
<1> HIDE DEF s
<1>3. InListRuns(s, Fractions, list, id, sum) BY <1>1, <1>2, InListFold
<1>4. PICK h : InListSteps(h, s, Fractions, list, id, sum) /\ end = h[n]
  BY <1>1, <1>3 DEF InListRuns
<1>5. /\ h \in [0..n -> Fractions] /\ h[0] = sum
      /\ \A i \in 1..n : i - 1 \in 0..n /\ h[i] = PlaceStep(list, id, h[i - 1], i)
  BY <1>1, <1>4 DEF InListSteps
<1>6. ASSUME \A i \in 1..n : list[i].id # id PROVE h[n] = sum
  <2> DEFINE T == {i \in 0..n : h[i] = sum}
  <2>1. 0 \in T BY <1>5
  <2>1a. ASSUME NEW i \in 1..n, i - 1 \in T PROVE i \in T
    <3>1. i - 1 \in 0..n /\ h[i] = PlaceStep(list, id, h[i - 1], i) BY <1>5
    <3>2. PlaceStep(list, id, h[i - 1], i) = h[i - 1] BY <1>6 DEF PlaceStep
    <3> QED BY <2>1a, <3>1, <3>2
  <2> HIDE DEF T
  <2>2. 0..n \subseteq T BY <2>1, <2>1a, UpTo
  <2> QED BY <2>2 DEF T
<1>7. ASSUME NEW p \in 1..n, \A i \in 1..n : list[i].id = id <=> i = p
      PROVE  h[n] = Plus(sum, <<1, RRFK + p>>)
  <2> DEFINE v == Plus(sum, <<1, RRFK + p>>)
             T == {i \in 0..n : (i < p => h[i] = sum) /\ (i >= p => h[i] = v)}
  <2>1. 0 \in T BY <1>5
  <2>2. ASSUME NEW i \in 1..n, i - 1 \in T PROVE i \in T
    <3>1. CASE i = p
      <4>1. h[i - 1] = sum BY <2>2, <3>1
      <4>2. h[i] = v BY <1>5, <1>7, <3>1, <4>1 DEF PlaceStep
      <4> QED BY <3>1, <4>2
    <3>2. CASE i # p
      <4>1. h[i] = h[i - 1] BY <1>5, <1>7, <3>2 DEF PlaceStep
      <4> HIDE DEF v
      <4>2. i - 1 < p <=> i < p \/ i = p OBVIOUS
      <4> QED BY <2>2, <3>2, <4>1, <4>2
    <3> QED BY <3>1, <3>2
  <2> HIDE DEF T, v
  <2>3. 0..n \subseteq T BY <2>1, <2>2, UpTo
  <2>4. n \in T BY <2>3
  <2> QED BY <2>4 DEF T, v
<1>8. h[n] \in Fractions BY <1>5
<1> QED BY <1>4, <1>6, <1>7, <1>8 DEF s

(* Lists of candidates.                                                     *)
Listed(list) == \E n \in Nat : DOMAIN list = 1..n

(* Every score is a fraction.                                              *)
LEMMA ScoreIsFraction ==
  ASSUME NEW E, NEW lists \in Seq(E), \A l \in E : Listed(l), NEW id
  PROVE  RRFScore(lists, id) \in Fractions
<1>1. <<0, 1>> \in Fractions BY DEF Fractions
<1>2. ASSUME NEW a \in Fractions, NEW x \in E
      PROVE  InList(x, id, a, [i \in DOMAIN x |-> i]) \in Fractions
  <2>1. PICK n \in Nat : DOMAIN x = 1..n BY DEF Listed
  <2> QED BY <2>1, InListIs
<1>3. ScoreRuns(lists, Fractions, id) BY <1>1, <1>2, ScoreFold
<1>4. PICK h : ScoreSteps(h, lists, Fractions, id) /\ Score(id, lists) = h[Len(lists)]
  BY <1>3 DEF ScoreRuns
<1>5. h[Len(lists)] \in Fractions BY <1>4 DEF ScoreSteps
<1> QED BY <1>4, <1>5, ScoreIs

(* The place of a candidate in a list, after the last one where it is none. *)
Place(l, x) == Min({i \in DOMAIN l : l[i].id = x} \cup {Len(l) + 1})

Ranked(l) ==
  l \in Seq([id : Int, found_by : {{}}]) /\ \A i, j \in DOMAIN l : l[i].id = l[j].id => i = j

ShareOf(l, x) == IF Place(l, x) <= Len(l) THEN <<1, RRFK + Place(l, x)>> ELSE <<0, 1>>

(* The place of a candidate is where it is listed, or behind the end.      *)
LEMMA PlaceIs ==
  ASSUME NEW l, Ranked(l), NEW x
  PROVE  /\ Place(l, x) \in 1..(Len(l) + 1)
         /\ Place(l, x) <= Len(l) => \A i \in 1..Len(l) : l[i].id = x <=> i = Place(l, x)
         /\ Place(l, x) = Len(l) + 1 => \A i \in 1..Len(l) : l[i].id # x
<1>1. PICK n \in Nat : n = Len(l) /\ DOMAIN l = 1..n BY DEF Ranked
<1>2. CASE \E i \in 1..n : l[i].id = x
  <2>1. PICK i \in 1..n : l[i].id = x BY <1>2
  <2>2. \A j \in 1..n : l[j].id = x <=> j = i BY <1>1, <2>1 DEF Ranked
  <2>3. {j \in DOMAIN l : l[j].id = x} = {i} BY <1>1, <2>2
  <2>4. Min({i} \cup {n + 1}) = i
    <3>1. /\ i \in {i} \cup {n + 1} /\ {i} \cup {n + 1} \subseteq Int
          /\ \A y \in {i} \cup {n + 1} : i <= y
      OBVIOUS
    <3> QED BY <3>1, MinIs
  <2>5. Place(l, x) = i BY <1>1, <2>3, <2>4 DEF Place
  <2> QED BY <1>1, <2>2, <2>5
<1>3. CASE \A i \in 1..n : l[i].id # x
  <2>1. {j \in DOMAIN l : l[j].id = x} = {} BY <1>1, <1>3
  <2>2. Min({} \cup {n + 1}) = n + 1
    <3>1. /\ n + 1 \in {} \cup {n + 1} /\ {} \cup {n + 1} \subseteq Int
          /\ \A y \in {} \cup {n + 1} : n + 1 <= y
      OBVIOUS
    <3> QED BY <3>1, MinIs
  <2>3. Place(l, x) = n + 1 BY <1>1, <2>1, <2>2 DEF Place
  <2> QED BY <1>1, <1>3, <2>3
<1> QED BY <1>2, <1>3

(* A ranking adds a share that depends on the place alone.                 *)
LEMMA ShareIs ==
  ASSUME NEW l, Ranked(l), NEW x
  PROVE  /\ ShareOf(l, x) \in Fractions
         /\ \A sum \in Fractions :
              InList(l, x, sum, [i \in DOMAIN l |-> i]) = Plus(sum, ShareOf(l, x))
<1>1. PICK n \in Nat : n = Len(l) /\ DOMAIN l = 1..n BY DEF Ranked
<1>2. Place(l, x) \in 1..(n + 1) BY <1>1, PlaceIs
<1>3. ShareOf(l, x) \in Fractions BY <1>2, RetrievalAssumption DEF ShareOf, Fractions
<1>4. ASSUME NEW sum \in Fractions
      PROVE  InList(l, x, sum, [i \in DOMAIN l |-> i]) = Plus(sum, ShareOf(l, x))
  <2>1. CASE Place(l, x) <= n
    <3>1. PICK p \in 1..n : p = Place(l, x) BY <1>2, <2>1
    <3>2. \A i \in 1..n : l[i].id = x <=> i = p BY <1>1, <2>1, <3>1, PlaceIs
    <3>3. InList(l, x, sum, [i \in DOMAIN l |-> i]) = Plus(sum, <<1, RRFK + p>>)
      BY <1>1, <3>2, InListIs
    <3> QED BY <1>1, <2>1, <3>1, <3>3 DEF ShareOf
  <2>2. CASE ~(Place(l, x) <= n)
    <3>1. Place(l, x) = n + 1 BY <1>2, <2>2
    <3>2. \A i \in 1..n : l[i].id # x BY <1>1, <3>1, PlaceIs
    <3>3. InList(l, x, sum, [i \in DOMAIN l |-> i]) = sum BY <1>1, <3>2, InListIs
    <3>4. Plus(sum, <<0, 1>>) = sum
      <4>1. PICK s1 \in Int, s2 \in Nat \ {0} : sum = <<s1, s2>> BY DEF Fractions
      <4>2. s1 * 1 + 0 * s2 = s1 /\ s2 * 1 = s2 OBVIOUS
      <4> QED BY <4>1, <4>2 DEF Plus
    <3> QED BY <1>1, <2>2, <3>3, <3>4 DEF ShareOf
  <2> QED BY <2>1, <2>2
<1> QED BY <1>3, <1>4

(* With two rankings the score is the sum of two shares.                   *)
LEMMA ScoreOfTwo ==
  ASSUME NEW a, Ranked(a), NEW b, Ranked(b), NEW x
  PROVE  RRFScore(<<a, b>>, x) = Plus(ShareOf(a, x), ShareOf(b, x))
<1> DEFINE E == {a, b}
           s == <<a, b>>
<1>1. s \in Seq(E) /\ Len(s) = 2 /\ s[1] = a /\ s[2] = b OBVIOUS
<1>2. <<0, 1>> \in Fractions BY DEF Fractions
<1>3. ASSUME NEW t \in Fractions, NEW l \in E
      PROVE  /\ InList(l, x, t, [i \in DOMAIN l |-> i]) = Plus(t, ShareOf(l, x))
             /\ Plus(t, ShareOf(l, x)) \in Fractions
  <2>1. Ranked(l) OBVIOUS
  <2> QED BY <2>1, ShareIs, PlusIs
<1> HIDE DEF s
<1>4. ScoreRuns(s, Fractions, x)
  <2>1. \A t \in Fractions, l \in E : InList(l, x, t, [i \in DOMAIN l |-> i]) \in Fractions BY <1>3
  <2> HIDE DEF E
  <2> QED BY <1>1, <1>2, <2>1, ScoreFold
<1>5. PICK h : ScoreSteps(h, s, Fractions, x) /\ Score(x, s) = h[2] BY <1>1, <1>4 DEF ScoreRuns
<1>6. /\ h[0] = <<0, 1>> /\ h[0] \in Fractions /\ h[1] \in Fractions
      /\ h[1] = InList(a, x, h[0], [i \in DOMAIN a |-> i])
      /\ h[2] = InList(b, x, h[1], [i \in DOMAIN b |-> i])
  <2>1. 0 \in 0..2 /\ 1 \in 0..2 /\ 1 \in 1..2 /\ 2 \in 1..2 /\ 1 - 1 = 0 /\ 2 - 1 = 1 OBVIOUS
  <2> QED BY <1>1, <1>5, <2>1 DEF ScoreSteps
<1>7. h[2] = Plus(Plus(<<0, 1>>, ShareOf(a, x)), ShareOf(b, x)) BY <1>3, <1>6
<1>8. Plus(<<0, 1>>, ShareOf(a, x)) = ShareOf(a, x)
  <2>1. ShareOf(a, x) \in Fractions BY ShareIs
  <2>2. PICK s1 \in Int, s2 \in Nat \ {0} : ShareOf(a, x) = <<s1, s2>> BY <2>1 DEF Fractions
  <2>3. 0 * s2 + s1 * 1 = s1 /\ 1 * s2 = s2 OBVIOUS
  <2> QED BY <2>2, <2>3 DEF Plus
<1> QED BY <1>5, <1>7, <1>8, ScoreIs DEF s

(* The later the place, the smaller the share.                             *)
LEMMA ShareFalls ==
  ASSUME NEW l, Ranked(l), NEW x, NEW y, Place(l, x) < Place(l, y)
  PROVE  Below(ShareOf(l, y), ShareOf(l, x))
<1>1. PICK n \in Nat : n = Len(l) BY DEF Ranked
<1>2. Place(l, x) \in 1..(n + 1) /\ Place(l, y) \in 1..(n + 1) BY <1>1, PlaceIs
<1>3. PICK p \in 1..n : p = Place(l, x) BY <1>2
<1>4. ShareOf(l, x) = <<1, RRFK + p>> /\ RRFK \in Nat BY <1>1, <1>3, RetrievalAssumption DEF ShareOf
<1>5. CASE Place(l, y) <= n
  <2>1. ShareOf(l, y) = <<1, RRFK + Place(l, y)>> BY <1>1, <1>5 DEF ShareOf
  <2> QED BY <1>2, <1>3, <1>4, <2>1 DEF Below
<1>6. CASE ~(Place(l, y) <= n)
  <2>1. ShareOf(l, y) = <<0, 1>> BY <1>1, <1>6 DEF ShareOf
  <2> QED BY <1>3, <1>4, <2>1 DEF Below
<1> QED BY <1>5, <1>6

AheadSet(lists, ids) ==
  {p \in ids \X ids :
     \/ Below(RRFScore(lists, p[2]), RRFScore(lists, p[1]))
     \/ Equals(RRFScore(lists, p[2]), RRFScore(lists, p[1])) /\ p[1] > p[2]}

(* The order of fusion, by score and then by identifier, is strict.        *)
LEMMA AheadIsStrict ==
  ASSUME NEW lists, NEW ids \in SUBSET Int, \A x \in ids : RRFScore(lists, x) \in Fractions
  PROVE  StrictOrder(ids, AheadSet(lists, ids))
<1> DEFINE S(x) == RRFScore(lists, x)
           R == AheadSet(lists, ids)
<1>1. \A x, y \in ids : <<x, y>> \in R <=> Below(S(y), S(x)) \/ (Equals(S(y), S(x)) /\ x > y)
  BY DEF AheadSet
<1>2. \A x \in ids : S(x) \in Fractions OBVIOUS
<1> HIDE DEF S, R
<1>3. ASSUME NEW x \in ids PROVE <<x, x>> \notin R
  <2>1. ~Below(S(x), S(x)) BY <1>2 DEF Below, Fractions
  <2>2. ~(x > x) OBVIOUS
  <2> QED BY <1>1, <2>1, <2>2
<1>4. ASSUME NEW x \in ids, NEW y \in ids, NEW z \in ids, <<x, y>> \in R, <<y, z>> \in R
      PROVE  <<x, z>> \in R
  <2>1. /\ Below(S(y), S(x)) \/ (Equals(S(y), S(x)) /\ x > y)
        /\ Below(S(z), S(y)) \/ (Equals(S(z), S(y)) /\ y > z)
    BY <1>1, <1>4
  <2>2. /\ AtMost(S(y), S(x)) <=> ~Below(S(x), S(y))
        /\ AtMost(S(x), S(y)) <=> ~Below(S(y), S(x))
        /\ AtMost(S(z), S(y)) <=> ~Below(S(y), S(z))
        /\ AtMost(S(y), S(z)) <=> ~Below(S(z), S(y))
        /\ AtMost(S(z), S(x)) <=> ~Below(S(x), S(z))
        /\ AtMost(S(x), S(z)) <=> ~Below(S(z), S(x))
        /\ Equals(S(y), S(x)) <=> ~Below(S(y), S(x)) /\ ~Below(S(x), S(y))
        /\ Equals(S(z), S(y)) <=> ~Below(S(z), S(y)) /\ ~Below(S(y), S(z))
        /\ Equals(S(z), S(x)) <=> ~Below(S(z), S(x)) /\ ~Below(S(x), S(z))
    BY <1>2, BelowIs
  <2>3. CASE Below(S(z), S(x)) BY <1>1, <2>3
  <2>4. CASE ~Below(S(z), S(x))
    <3>1. AtMost(S(x), S(z)) BY <2>2, <2>4
    <3>2. /\ AtMost(S(z), S(y)) /\ AtMost(S(y), S(x)) => AtMost(S(z), S(x))
          /\ Below(S(z), S(y)) /\ AtMost(S(y), S(x)) => Below(S(z), S(x))
          /\ AtMost(S(z), S(y)) /\ Below(S(y), S(x)) => Below(S(z), S(x))
      BY <1>2, BelowThrough
    <3>3. AtMost(S(z), S(y)) /\ AtMost(S(y), S(x))
      <4>1. /\ Below(S(y), S(x)) => ~Below(S(x), S(y))
            /\ Below(S(z), S(y)) => ~Below(S(y), S(z))
        <5>1. /\ S(x)[1] * S(y)[2] \in Int /\ S(y)[1] * S(x)[2] \in Int
              /\ S(y)[1] * S(z)[2] \in Int /\ S(z)[1] * S(y)[2] \in Int
          BY <1>2, BelowIs
        <5> QED BY <5>1 DEF Below
      <4> QED BY <2>1, <2>2, <4>1
    <3>4. ~Below(S(z), S(y)) /\ ~Below(S(y), S(x)) BY <2>4, <3>2, <3>3
    <3>5. x > y /\ y > z BY <2>1, <3>4
    <3>6. x > z BY <3>5
    <3>7. Equals(S(z), S(x)) BY <2>2, <2>4, <3>2, <3>3
    <3> QED BY <1>1, <3>6, <3>7
  <2> QED BY <2>3, <2>4
<1>5. ASSUME NEW x \in ids, NEW y \in ids, x # y PROVE <<x, y>> \in R \/ <<y, x>> \in R
  <2>1. Equals(S(y), S(x)) <=> ~Below(S(y), S(x)) /\ ~Below(S(x), S(y)) BY <1>2, BelowIs
  <2>2. Equals(S(x), S(y)) <=> ~Below(S(x), S(y)) /\ ~Below(S(y), S(x)) BY <1>2, BelowIs
  <2>3. x > y \/ y > x BY <1>5
  <2> QED BY <1>1, <2>1, <2>2, <2>3
<1> QED BY <1>3, <1>4, <1>5 DEF StrictOrder, R

(* What a list contains is finite.                                         *)
LEMMA Images ==
  ASSUME NEW n \in Nat, NEW f, NEW S, S = {f[i] : i \in 1..n}
  PROVE  IsFiniteSet(S)
<1> DEFINE g == [i \in 1..n |-> f[i]]
<1>1. g \in Surjection(1..n, S) BY DEF Surjection
<1>2. IsFiniteSet(1..n) BY FS_Interval
<1> HIDE DEF g
<1> QED BY <1>1, <1>2, FS_Surjection

Merges(lists, all, n, ids) ==
  /\ all = FlattenSeq(lists) /\ DOMAIN all = 1..n
  /\ \A i \in 1..n : "id" \in DOMAIN all[i] /\ all[i].id \in Int
  /\ ids = {all[i].id : i \in 1..n}
  /\ \A x \in ids : RRFScore(lists, x) \in Fractions

Fuses(out, lists, ids) ==
  LET R == AheadSet(lists, ids)
      o == InOrder(ids, R)
      m == Cardinality(ids)
  IN /\ StrictOrder(ids, R) /\ m \in Nat /\ o \in [1..m -> ids]
     /\ \A i, j \in 1..m : i < j => <<o[i], o[j]>> \in R
     /\ DOMAIN out = 1..m /\ \A i \in 1..m : out[i].id = o[i]

Renames(out, all, n) ==
  \A i \in DOMAIN out : \E k \in 1..n : \E names : out[i] = [all[k] EXCEPT !.found_by = names]

(* Fusion lists each candidate once, in the order of the scores.           *)
LEMMA FuseIs ==
  ASSUME NEW lists, NEW all, NEW n \in Nat, NEW ids, Merges(lists, all, n, ids)
  PROVE  /\ Fuses(Fuse(lists), lists, ids) /\ IsFiniteSet(ids)
         /\ Renames(Fuse(lists), all, n)
<1> DEFINE R == AheadSet(lists, ids)
           o == InOrder(ids, R)
           out == Fuse(lists)
           m == Cardinality(ids)
           Places(id) == {i \in DOMAIN all : all[i].id = id}
           Names(id) == {l \in DOMAIN lists : \E i \in DOMAIN lists[l] : lists[l][i].id = id}
           Entry(id) == [all[Min(Places(id))] EXCEPT !.found_by = Names(id)]
<1>0. /\ all = FlattenSeq(lists) /\ DOMAIN all = 1..n
      /\ \A i \in 1..n : "id" \in DOMAIN all[i] /\ all[i].id \in Int
      /\ ids = {all[i].id : i \in 1..n}
      /\ \A x \in ids : RRFScore(lists, x) \in Fractions
  BY DEF Merges
<1>1. out = [i \in DOMAIN o |-> Entry(o[i])]
  <2>1. ids = {all[i].id : i \in DOMAIN all} BY <1>0
  <2> QED BY <1>0, <2>1 DEF Fuse, AheadSet
<1>2. IsFiniteSet(ids) /\ m \in Nat
  <2> DEFINE f == [i \in 1..n |-> all[i].id]
  <2>1. ids = {f[i] : i \in 1..n} BY <1>0
  <2> HIDE DEF f
  <2> QED BY <2>1, Images, FS_CardinalityType
<1>3. StrictOrder(ids, R)
  <2>1. ids \in SUBSET Int BY <1>0
  <2> QED BY <1>0, <2>1, AheadIsStrict
<1>4. /\ o \in [1..m -> ids]
      /\ \A i, j \in 1..m : i < j => <<o[i], o[j]>> \in R
  <2> HIDE DEF R
  <2> QED BY <1>2, <1>3, InOrderIs
<1>5. ASSUME NEW id \in ids
      PROVE  \E k \in 1..n : k = Min(Places(id)) /\ all[k].id = id
  <2>1. Places(id) \in SUBSET (0..n) /\ Places(id) # {} BY <1>0
  <2> HIDE DEF Places
  <2>2. Min(Places(id)) \in Places(id) BY <2>1, MinIn
  <2> QED BY <1>0, <2>2 DEF Places
<1>6. ASSUME NEW i \in 1..m
      PROVE  /\ out[i].id = o[i]
             /\ \E k \in 1..n : \E names : out[i] = [all[k] EXCEPT !.found_by = names]
  <2>1. o[i] \in ids /\ i \in DOMAIN o BY <1>4
  <2>2. PICK k \in 1..n : k = Min(Places(o[i])) /\ all[k].id = o[i] BY <1>5, <2>1
  <2>3. out[i] = [all[k] EXCEPT !.found_by = Names(o[i])]
    <3> HIDE DEF Names, Places, o
    <3> QED BY <1>1, <2>1, <2>2
  <2>4. "id" \in DOMAIN all[k] BY <1>0
  <2> HIDE DEF Names, o, out
  <2>5. out[i].id = all[k].id BY <2>3, <2>4
  <2> QED BY <2>2, <2>3, <2>5
<1>7. DOMAIN out = 1..m
  <2> HIDE DEF o
  <2> QED BY <1>1, <1>4
<1>8. Fuses(out, lists, ids) BY <1>2, <1>3, <1>4, <1>6, <1>7 DEF Fuses
<1>9. Renames(out, all, n)
  <2> HIDE DEF o, out
  <2> QED BY <1>6, <1>7 DEF Renames
<1> QED BY <1>2, <1>8, <1>9

(* Two lists flatten to one after the other.                               *)
LEMMA FlattenTwo ==
  ASSUME NEW S, NEW a \in Seq(S), NEW b \in Seq(S)
  PROVE  FlattenSeq(<<a, b>>) = a \o b
<1>1. PICK s0, s1, s2 : s0 = <<>> /\ s1 = Append(s0, a) /\ s2 = Append(s1, b) OBVIOUS
<1>2. s0 \in Seq(Seq(S)) /\ s1 \in Seq(Seq(S)) BY <1>1
<1>3. FlattenSeq(s1) = FlattenSeq(s0) \o a BY <1>1, <1>2, FlattenAppend
<1>4. FlattenSeq(s2) = FlattenSeq(s1) \o b BY <1>1, <1>2, FlattenAppend
<1>5. FlattenSeq(s1) = a BY <1>1, <1>3, FlattenNone, ConcatEmptySeq
<1>6. s2 = <<a, b>>
  <2>1. Len(s1) = 1 /\ s1[1] = a BY <1>1
  <2>2. s2 \in Seq(Seq(S)) /\ Len(s2) = 2 /\ s2[1] = a /\ s2[2] = b BY <1>1, <1>2, <2>1
  <2> QED BY <2>2
<1> QED BY <1>4, <1>5, <1>6

(* The fusion of two rankings lists the candidates of both.                *)
LEMMA FuseTwo ==
  ASSUME NEW a, Ranked(a), NEW b, Ranked(b),
         NEW ids, ids = {a[i].id : i \in DOMAIN a} \cup {b[i].id : i \in DOMAIN b}
  PROVE  Fuses(Fuse(<<a, b>>), <<a, b>>, ids)
<1> DEFINE E == [id : Int, found_by : {{}}]
<1>1. a \in Seq(E) /\ b \in Seq(E) BY DEF Ranked
<1>2. PICK all : all = FlattenSeq(<<a, b>>) OBVIOUS
<1>3. all = a \o b BY <1>1, <1>2, FlattenTwo
<1>4. PICK k \in Nat, l \in Nat : /\ k = Len(a) /\ l = Len(b) /\ DOMAIN a = 1..k /\ DOMAIN b = 1..l
  BY <1>1
<1>5. /\ all \in Seq(E) /\ Len(all) = k + l /\ DOMAIN all = 1..(k + l)
      /\ \A i \in 1..(k + l) : all[i] = IF i <= k THEN a[i] ELSE b[i - k]
  BY <1>1, <1>3, <1>4
<1>6. ids = {all[i].id : i \in 1..(k + l)}
  <2>1. ASSUME NEW i \in DOMAIN a PROVE i \in 1..(k + l) /\ all[i] = a[i] BY <1>4, <1>5
  <2>2. ASSUME NEW i \in DOMAIN b PROVE i + k \in 1..(k + l) /\ all[i + k] = b[i]
    <3>1. i \in 1..l BY <1>4
    <3>2. i + k \in 1..(k + l) /\ ~(i + k <= k) /\ (i + k) - k = i BY <3>1
    <3> QED BY <1>5, <3>2
  <2>3. ASSUME NEW i \in 1..(k + l)
        PROVE  (i \in DOMAIN a /\ all[i] = a[i]) \/ (i - k \in DOMAIN b /\ all[i] = b[i - k])
    <3>1. CASE i <= k
      <4>1. i \in 1..k BY <3>1
      <4> QED BY <1>4, <1>5, <3>1, <4>1
    <3>2. CASE ~(i <= k)
      <4>1. i - k \in 1..l BY <3>2
      <4> QED BY <1>4, <1>5, <3>2, <4>1
    <3> QED BY <3>1, <3>2
  <2>4. ASSUME NEW x \in ids PROVE x \in {all[i].id : i \in 1..(k + l)} BY <2>1, <2>2
  <2>5. ASSUME NEW x \in {all[i].id : i \in 1..(k + l)} PROVE x \in ids BY <2>3
  <2> QED BY <2>4, <2>5
<1>7. \A i \in 1..(k + l) : "id" \in DOMAIN all[i] /\ all[i].id \in Int
  <2>1. \A e \in E : "id" \in DOMAIN e /\ e.id \in Int OBVIOUS
  <2> HIDE DEF E
  <2> QED BY <1>5, <2>1
<1>8. ASSUME NEW x \in ids PROVE RRFScore(<<a, b>>, x) \in Fractions
  BY ScoreOfTwo, ShareIs, PlusIs
<1> HIDE DEF E
<1>9. PICK lists : lists = <<a, b>> OBVIOUS
<1>10. /\ all = FlattenSeq(lists) /\ k + l \in Nat /\ \A x \in ids : RRFScore(lists, x) \in Fractions
  BY <1>2, <1>8, <1>9
<1>11. Fuses(Fuse(lists), lists, ids)
  <2>1. PICK n \in Nat : n = k + l OBVIOUS
  <2>2. Merges(lists, all, n, ids) BY <1>5, <1>6, <1>7, <1>10, <2>1 DEF Merges
  <2> QED BY <2>2, FuseIs
<1> QED BY <1>9, <1>11

(* Fusion keeps the order both rankings agree on, and does not care which  *)
(* of them comes first (hybrid_retrieval.py:401).                          *)
LEMMA AgreedOrder ==
  ASSUME NEW a, Ranked(a), NEW b, Ranked(b), NEW out, out = Fuse(<<a, b>>)
  PROVE  LET Ids(l) == [i \in DOMAIN l |-> l[i].id]
         IN /\ Ids(out) = Ids(Fuse(<<b, a>>))
            /\ \A i, j \in DOMAIN out : i < j =>
                 ~(/\ Place(a, out[j].id) < Place(a, out[i].id)
                   /\ Place(b, out[j].id) < Place(b, out[i].id))
<1> DEFINE ids == {a[i].id : i \in DOMAIN a} \cup {b[i].id : i \in DOMAIN b}
           sdi == {b[i].id : i \in DOMAIN b} \cup {a[i].id : i \in DOMAIN a}
           R == AheadSet(<<a, b>>, ids)
           o == InOrder(ids, R)
           m == Cardinality(ids)
<1>1. /\ StrictOrder(ids, R) /\ m \in Nat /\ o \in [1..m -> ids]
      /\ \A i, j \in 1..m : i < j => <<o[i], o[j]>> \in R
      /\ DOMAIN out = 1..m /\ \A i \in 1..m : out[i].id = o[i]
  <2> HIDE DEF ids
  <2>1. PICK d : d = ids OBVIOUS
  <2>2. d = {a[i].id : i \in DOMAIN a} \cup {b[i].id : i \in DOMAIN b} BY <2>1 DEF ids
  <2>3. Fuses(Fuse(<<a, b>>), <<a, b>>, d) BY <2>2, FuseTwo
  <2> HIDE DEF m
  <2> QED BY <2>1, <2>3 DEF Fuses, m
<1>2. sdi = ids OBVIOUS
<1>3. AheadSet(<<b, a>>, sdi) = R
  <2>1. \A x : RRFScore(<<b, a>>, x) = RRFScore(<<a, b>>, x) BY ScoreOfTwo, ShareIs, PlusIs
  <2> HIDE DEF ids, sdi
  <2> QED BY <1>2, <2>1 DEF AheadSet
<1>4. DOMAIN Fuse(<<b, a>>) = 1..m /\ \A i \in 1..m : Fuse(<<b, a>>)[i].id = o[i]
  <2> DEFINE S == AheadSet(<<b, a>>, sdi)
             q == InOrder(sdi, S)
  <2>1. /\ DOMAIN Fuse(<<b, a>>) = 1..Cardinality(sdi)
        /\ \A i \in 1..Cardinality(sdi) : Fuse(<<b, a>>)[i].id = q[i]
    <3>1. PICK d : d = sdi OBVIOUS
    <3>2. d = {b[i].id : i \in DOMAIN b} \cup {a[i].id : i \in DOMAIN a} BY <3>1
    <3> HIDE DEF sdi
    <3>3. Fuses(Fuse(<<b, a>>), <<b, a>>, d) BY <3>2, FuseTwo
    <3> QED BY <3>1, <3>3 DEF Fuses
  <2>2. q = o BY <1>2, <1>3
  <2> HIDE DEF q, o, sdi, ids
  <2> QED BY <1>2, <2>1, <2>2
<1>5. [i \in DOMAIN out |-> out[i].id] = [i \in DOMAIN Fuse(<<b, a>>) |-> Fuse(<<b, a>>)[i].id]
  <2> HIDE DEF m, o
  <2> QED BY <1>1, <1>4
<1>6. ASSUME NEW i \in 1..m, NEW j \in 1..m, i < j,
             Place(a, o[j]) < Place(a, o[i]), Place(b, o[j]) < Place(b, o[i])
      PROVE  FALSE
  <2>1. o[i] \in ids /\ o[j] \in ids /\ <<o[i], o[j]>> \in R
    <3> HIDE DEF m, o, R, ids
    <3> QED BY <1>1, <1>6
  <2>2. PICK x, y : x = o[i] /\ y = o[j] OBVIOUS
  <2> HIDE DEF o
  <2>3. Below(ShareOf(a, x), ShareOf(a, y)) /\ Below(ShareOf(b, x), ShareOf(b, y))
    BY <1>6, <2>2, ShareFalls
  <2>4. /\ ShareOf(a, x) \in Fractions /\ ShareOf(a, y) \in Fractions
        /\ ShareOf(b, x) \in Fractions /\ ShareOf(b, y) \in Fractions
    BY ShareIs
  <2>5. AtMost(ShareOf(b, x), ShareOf(b, y))
    <3>1. ShareOf(b, x)[1] * ShareOf(b, y)[2] \in Int /\ ShareOf(b, y)[1] * ShareOf(b, x)[2] \in Int
      BY <2>4, BelowIs
    <3> QED BY <2>3, <3>1 DEF Below, AtMost
  <2>6. Below(RRFScore(<<a, b>>, x), RRFScore(<<a, b>>, y)) BY <2>3, <2>4, <2>5, PlusBelow, ScoreOfTwo
  <2>7. <<y, x>> \in AheadSet(<<a, b>>, ids)
    <3>1. x \in ids /\ y \in ids BY <2>1, <2>2
    <3> HIDE DEF ids
    <3> QED BY <2>6, <3>1 DEF AheadSet
  <2>8. <<x, y>> \in R /\ x \in ids BY <2>1, <2>2
  <2> HIDE DEF R
  <2>9. <<y, x>> \in R /\ y \in ids BY <2>1, <2>2, <2>7 DEF R
  <2> HIDE DEF ids
  <2>10. <<x, x>> \in R BY <1>1, <2>8, <2>9 DEF StrictOrder
  <2> QED BY <1>1, <2>8, <2>10 DEF StrictOrder
<1> HIDE DEF m, o
<1> QED BY <1>1, <1>5, <1>6

-----------------------------------------------------------------------------
(* Diversity *)

(* The first pass over the candidates.                                      *)
Sifting(k, s) == FoldLeft(LAMBDA a, x : KeepStep(k, a, x), [kept |-> <<>>, rest |-> <<>>], s)

SiftingSteps(h, s, V, k) ==
  /\ h \in [0..Len(s) -> V] /\ h[0] = [kept |-> <<>>, rest |-> <<>>]
  /\ \A i \in 1..Len(s) : i - 1 \in 0..Len(s) /\ h[i] = KeepStep(k, h[i - 1], s[i])

SiftingRuns(s, V, k) == \E h : SiftingSteps(h, s, V, k) /\ Sifting(k, s) = h[Len(s)]

(* Such a fold goes through one step per entry of the list.                 *)
LEMMA SiftingFold ==
  ASSUME NEW k, NEW E, NEW s \in Seq(E), NEW V, [kept |-> <<>>, rest |-> <<>>] \in V,
         \A a \in V, x \in E : KeepStep(k, a, x) \in V
  PROVE  SiftingRuns(s, V, k)
<1> DEFINE base == [kept |-> <<>>, rest |-> <<>>]
           g == [p \in V \X E |-> KeepStep(k, p[1], p[2])]
           Iter(f) == f = [S \in SUBSET DOMAIN s |->
             IF S = {} THEN base ELSE KeepStep(k, f[S \ {Max(S)}], s[Max(S)])]
           it == CHOOSE f : Iter(f)
<1>1. base \in V /\ g \in [V \X E -> V] OBVIOUS
<1>2. \A a \in V, x \in E : g[<<a, x>>] = KeepStep(k, a, x) OBVIOUS
<1>3. Sifting(k, s) = it[DOMAIN s] BY DEF Sifting, FoldLeft, MapThenFoldSet
<1> HIDE DEF g, base
<1>4. PICK f : Folds(f, s, E, V, base, g) BY <1>1, FoldExists
<1>5. \A S \in SUBSET DOMAIN s : S # {} =>
        f[S] = KeepStep(k, f[S \ {Max(S)}], s[Max(S)])
  BY <1>2, <1>4 DEF Folds
<1>6. Iter(f) BY <1>4, <1>5 DEF Folds
<1>7. Iter(it) BY <1>6
<1> HIDE DEF it
<1>8. Unfolds(it, s, E, V, base, g) BY <1>2, <1>7 DEF Unfolds
<1>9. PICK h : FoldRun(h, s, E, V, base, g) /\ it[DOMAIN s] = h[Len(s)]
  <2>1. Reaches(it, s, E, V, base, g) BY <1>1, <1>8, FoldRuns
  <2> QED BY <2>1 DEF Reaches
<1>10. SiftingSteps(h, s, V, k) BY <1>2, <1>9 DEF FoldRun, SiftingSteps, base
<1> QED BY <1>3, <1>9, <1>10 DEF SiftingRuns

(* The second pass, over those passed over.                                 *)
Filling(kept, k, s) == FoldLeft(LAMBDA a, x : BackfillStep(k, a, x), kept, s)

FillingSteps(h, s, V, kept, k) ==
  /\ h \in [0..Len(s) -> V] /\ h[0] = kept
  /\ \A i \in 1..Len(s) : i - 1 \in 0..Len(s) /\ h[i] = BackfillStep(k, h[i - 1], s[i])

FillingRuns(s, V, kept, k) == \E h : FillingSteps(h, s, V, kept, k) /\ Filling(kept, k, s) = h[Len(s)]

(* Such a fold goes through one step per entry of the list.                 *)
LEMMA FillingFold ==
  ASSUME NEW kept, NEW k, NEW E, NEW s \in Seq(E), NEW V, kept \in V,
         \A a \in V, x \in E : BackfillStep(k, a, x) \in V
  PROVE  FillingRuns(s, V, kept, k)
<1> DEFINE base == kept
           g == [p \in V \X E |-> BackfillStep(k, p[1], p[2])]
           Iter(f) == f = [S \in SUBSET DOMAIN s |->
             IF S = {} THEN base ELSE BackfillStep(k, f[S \ {Max(S)}], s[Max(S)])]
           it == CHOOSE f : Iter(f)
<1>1. base \in V /\ g \in [V \X E -> V] OBVIOUS
<1>2. \A a \in V, x \in E : g[<<a, x>>] = BackfillStep(k, a, x) OBVIOUS
<1>3. Filling(kept, k, s) = it[DOMAIN s] BY DEF Filling, FoldLeft, MapThenFoldSet
<1> HIDE DEF g, base
<1>4. PICK f : Folds(f, s, E, V, base, g) BY <1>1, FoldExists
<1>5. \A S \in SUBSET DOMAIN s : S # {} =>
        f[S] = BackfillStep(k, f[S \ {Max(S)}], s[Max(S)])
  BY <1>2, <1>4 DEF Folds
<1>6. Iter(f) BY <1>4, <1>5 DEF Folds
<1>7. Iter(it) BY <1>6
<1> HIDE DEF it
<1>8. Unfolds(it, s, E, V, base, g) BY <1>2, <1>7 DEF Unfolds
<1>9. PICK h : FoldRun(h, s, E, V, base, g) /\ it[DOMAIN s] = h[Len(s)]
  <2>1. Reaches(it, s, E, V, base, g) BY <1>1, <1>8, FoldRuns
  <2> QED BY <2>1 DEF Reaches
<1>10. FillingSteps(h, s, V, kept, k) BY <1>2, <1>9 DEF FoldRun, FillingSteps, base
<1> QED BY <1>3, <1>9, <1>10 DEF FillingRuns

Distinct(kept) == \A i, j \in DOMAIN kept : i # j => ~NearDuplicates(kept[i], kept[j])

(* Being near-duplicates is symmetric.                                     *)
LEMMA DuplicatesBothWays == \A c, d : NearDuplicates(c, d) <=> NearDuplicates(d, c)
<1> SUFFICES ASSUME NEW c, NEW d PROVE NearDuplicates(c, d) <=> NearDuplicates(d, c)
  OBVIOUS
<1>1. c.tokens \cup d.tokens = d.tokens \cup c.tokens /\ c.tokens \cap d.tokens = d.tokens \cap c.tokens
  OBVIOUS
<1> QED BY <1>1 DEF NearDuplicates

(* A candidate that duplicates no kept one can be kept.                    *)
LEMMA DistinctAppend ==
  ASSUME NEW C, NEW kept \in Seq(C), NEW c \in C, Distinct(kept), ~DuplicateOf(c, kept)
  PROVE  Distinct(Append(kept, c))
<1>1. PICK n \in Nat : n = Len(kept) /\ DOMAIN kept = 1..n OBVIOUS
<1>2. PICK r : r = Append(kept, c) OBVIOUS
<1>3. DOMAIN r = 1..(n + 1) /\ r[n + 1] = c /\ \A i \in 1..n : r[i] = kept[i] BY <1>1, <1>2
<1>4. \A i \in 1..n : ~NearDuplicates(c, kept[i]) BY <1>1 DEF DuplicateOf
<1>5. ASSUME NEW i \in 1..(n + 1), NEW j \in 1..(n + 1), i # j
      PROVE  ~NearDuplicates(r[i], r[j])
  <2>1. CASE i = n + 1
    <3>1. j \in 1..n BY <1>5, <2>1
    <3> QED BY <1>3, <1>4, <2>1, <3>1
  <2>2. CASE j = n + 1
    <3>1. i \in 1..n BY <1>5, <2>2
    <3> QED BY <1>3, <1>4, <2>2, <3>1, DuplicatesBothWays
  <2>3. CASE i # n + 1 /\ j # n + 1
    <3>1. i \in 1..n /\ j \in 1..n BY <2>3
    <3> QED BY <1>1, <1>3, <1>5, <3>1 DEF Distinct
  <2> QED BY <2>1, <2>2, <2>3
<1> QED BY <1>2, <1>3, <1>5 DEF Distinct

(* What a list has after one entry was appended.                           *)
LEMMA AppendHas ==
  ASSUME NEW C, NEW s \in Seq(C), NEW c \in C
  PROVE  /\ Append(s, c) \in Seq(C) /\ Len(Append(s, c)) = Len(s) + 1
         /\ ToSet(Append(s, c)) = ToSet(s) \cup {c}
         /\ \A i \in DOMAIN s : i \in DOMAIN Append(s, c) /\ Append(s, c)[i] = s[i]
<1>1. PICK n \in Nat : n = Len(s) /\ DOMAIN s = 1..n OBVIOUS
<1>2. PICK r : r = Append(s, c) OBVIOUS
<1>3. /\ r \in Seq(C) /\ Len(r) = n + 1 /\ DOMAIN r = 1..(n + 1) /\ r[n + 1] = c
      /\ \A i \in 1..n : r[i] = s[i]
  BY <1>1, <1>2
<1>4. ToSet(r) = {r[i] : i \in 1..(n + 1)} /\ ToSet(s) = {s[i] : i \in 1..n}
  BY <1>1, <1>3 DEF ToSet
<1>5. \A i \in 1..(n + 1) : i \in 1..n \/ i = n + 1 OBVIOUS
<1>6. \A i \in 1..n : i \in 1..(n + 1) OBVIOUS
<1>6a. n + 1 \in 1..(n + 1) OBVIOUS
<1>7. ToSet(r) = ToSet(s) \cup {c}
  <2>1. ASSUME NEW x \in ToSet(r) PROVE x \in ToSet(s) \cup {c} BY <1>3, <1>4, <1>5
  <2>2. ASSUME NEW x \in ToSet(s) \cup {c} PROVE x \in ToSet(r) BY <1>3, <1>4, <1>6, <1>6a
  <2> QED BY <2>1, <2>2
<1> QED BY <1>1, <1>2, <1>3, <1>6, <1>7

Sifted(candidates, a, i) ==
  /\ Distinct(a.kept)
  /\ \A j \in 1..i : candidates[j] \in ToSet(a.kept) \cup ToSet(a.rest)

SiftState(C) == [kept : Seq(C), rest : Seq(C)]

(* One candidate more is kept or left aside: what is kept stays free of    *)
(* near-duplicates (evidence_diversity.py:118).                            *)
LEMMA SiftSound ==
  ASSUME NEW candidates, NEW C, NEW k, NEW a \in SiftState(C), NEW i \in Nat \ {0},
         candidates[i] \in C, Sifted(candidates, a, i - 1),
         NEW b, b = KeepStep(k, a, candidates[i])
  PROVE  b \in SiftState(C) /\ Sifted(candidates, b, i)
<1> DEFINE c == candidates[i]
<1>1. a.kept \in Seq(C) /\ a.rest \in Seq(C) /\ a = [kept |-> a.kept, rest |-> a.rest] BY DEF SiftState
<1>2. \A j \in 1..i : j \in 1..(i - 1) \/ j = i OBVIOUS
<1>3. CASE Len(a.kept) < k /\ ~DuplicateOf(c, a.kept) /\ Preferred(c, a.kept)
  <2>1. b = [a EXCEPT !.kept = Append(@, c)] BY <1>3 DEF KeepStep
  <2>2. b.kept = Append(a.kept, c) /\ b.rest = a.rest /\ b = [kept |-> b.kept, rest |-> b.rest]
    BY <1>1, <2>1
  <2>3. b.kept \in Seq(C) /\ ToSet(b.kept) = ToSet(a.kept) \cup {c} BY <1>1, <2>2, AppendHas
  <2>4. Distinct(b.kept) BY <1>1, <1>3, <2>2, DistinctAppend DEF Sifted
  <2>5. b \in SiftState(C) BY <1>1, <2>2, <2>3 DEF SiftState
  <2>6. \A j \in 1..i : candidates[j] \in ToSet(b.kept) \cup ToSet(b.rest)
    BY <1>2, <2>2, <2>3 DEF Sifted
  <2> QED BY <2>4, <2>5, <2>6 DEF Sifted
<1>4. CASE ~(Len(a.kept) < k /\ ~DuplicateOf(c, a.kept) /\ Preferred(c, a.kept))
  <2>1. b = [a EXCEPT !.rest = Append(@, c)] BY <1>4 DEF KeepStep
  <2>2. b.rest = Append(a.rest, c) /\ b.kept = a.kept /\ b = [kept |-> b.kept, rest |-> b.rest]
    BY <1>1, <2>1
  <2>3. b.rest \in Seq(C) /\ ToSet(b.rest) = ToSet(a.rest) \cup {c} BY <1>1, <2>2, AppendHas
  <2>5. b \in SiftState(C) BY <1>1, <2>2, <2>3 DEF SiftState
  <2>6. \A j \in 1..i : candidates[j] \in ToSet(b.kept) \cup ToSet(b.rest)
    BY <1>2, <2>2, <2>3 DEF Sifted
  <2> QED BY <2>2, <2>5, <2>6 DEF Sifted
<1> QED BY <1>3, <1>4

Filled(kept, rest, k, a, i) ==
  /\ Distinct(a) /\ ToSet(kept) \subseteq ToSet(a)
  /\ \A j \in 1..i : Len(a) < k => rest[j] \in ToSet(a) \/ DuplicateOf(rest[j], a)

(* One candidate more of those left aside fills a free place or duplicates *)
(* a kept one.                                                             *)
LEMMA FillSound ==
  ASSUME NEW kept, NEW rest, NEW C, NEW k \in Int, NEW a \in Seq(C), NEW i \in Nat \ {0},
         rest[i] \in C, Filled(kept, rest, k, a, i - 1),
         NEW b, b = BackfillStep(k, a, rest[i])
  PROVE  b \in Seq(C) /\ Filled(kept, rest, k, b, i)
<1> DEFINE c == rest[i]
<1>2. \A j \in 1..i : j \in 1..(i - 1) \/ j = i OBVIOUS
<1>3. CASE Len(a) >= k \/ DuplicateOf(c, a)
  <2>1. b = a BY <1>3 DEF BackfillStep
  <2>2. Len(a) \in Nat OBVIOUS
  <2> QED BY <1>2, <1>3, <2>1, <2>2 DEF Filled
<1>4. CASE ~(Len(a) >= k \/ DuplicateOf(c, a))
  <2>1. b = Append(a, c) BY <1>4 DEF BackfillStep
  <2>2. /\ b \in Seq(C) /\ Len(b) = Len(a) + 1 /\ ToSet(b) = ToSet(a) \cup {c}
        /\ \A j \in DOMAIN a : j \in DOMAIN b /\ b[j] = a[j]
    BY <2>1, AppendHas
  <2>3. Distinct(b) BY <1>4, <2>1, DistinctAppend DEF Filled
  <2>4. \A d : DuplicateOf(d, a) => DuplicateOf(d, b) BY <2>2 DEF DuplicateOf
  <2>5. Len(a) < k BY <1>4
  <2>6. ASSUME NEW j \in 1..i PROVE rest[j] \in ToSet(b) \/ DuplicateOf(rest[j], b)
    BY <1>2, <2>2, <2>4, <2>5 DEF Filled
  <2> QED BY <2>2, <2>3, <2>6 DEF Filled
<1> QED BY <1>3, <1>4

(* What the diversity filter keeps has no near-duplicates, and it is short *)
(* only when everything else duplicates it.                                *)
LEMMA DiverseHolds ==
  ASSUME NEW candidates, IsList(candidates), NEW k \in Nat,
         NEW kept, kept = DiversityFilter(candidates, k)
  PROVE  /\ Distinct(kept)
         /\ Len(kept) < k => \A i \in DOMAIN candidates :
              candidates[i] \in ToSet(kept) \/ DuplicateOf(candidates[i], kept)
<1> DEFINE C == {candidates[i] : i \in DOMAIN candidates}
           V == SiftState(C)
           base == [kept |-> <<>>, rest |-> <<>>]
<1>1. candidates \in Seq(C) BY DEF IsList
<1>2. PICK n \in Nat : n = Len(candidates) /\ DOMAIN candidates = 1..n BY <1>1
<1>3. \A i \in 1..n : candidates[i] \in C BY <1>2
<1> HIDE DEF C
<1>4. base \in V BY DEF SiftState
<1>5. ASSUME NEW a \in V, NEW c \in C PROVE KeepStep(k, a, c) \in V
  <2>1. a.kept \in Seq(C) /\ a.rest \in Seq(C) /\ a = [kept |-> a.kept, rest |-> a.rest]
    BY DEF SiftState
  <2>2. Append(a.kept, c) \in Seq(C) /\ Append(a.rest, c) \in Seq(C) BY <2>1
  <2>3. \/ KeepStep(k, a, c) = [a EXCEPT !.kept = Append(@, c)]
        \/ KeepStep(k, a, c) = [a EXCEPT !.rest = Append(@, c)]
    BY DEF KeepStep
  <2>4. \/ KeepStep(k, a, c) = [kept |-> Append(a.kept, c), rest |-> a.rest]
        \/ KeepStep(k, a, c) = [kept |-> a.kept, rest |-> Append(a.rest, c)]
    BY <2>1, <2>3
  <2>6. \A p, q \in Seq(C) : [kept |-> p, rest |-> q] \in SiftState(C) BY DEF SiftState
  <2> QED BY <2>1, <2>2, <2>4, <2>6
<1> HIDE DEF V
<1>6. SiftingRuns(candidates, V, k) BY <1>1, <1>4, <1>5, SiftingFold
<1>7. PICK h : SiftingSteps(h, candidates, V, k) /\ Sifting(k, candidates) = h[n]
  BY <1>2, <1>6 DEF SiftingRuns
<1>8. /\ h[0] = base /\ h \in [0..n -> V]
      /\ \A i \in 1..n : i - 1 \in 0..n /\ h[i] = KeepStep(k, h[i - 1], candidates[i])
  BY <1>2, <1>7 DEF SiftingSteps
<1> DEFINE T == {i \in 0..n : Sifted(candidates, h[i], i)}
<1>9. 0 \in T
  <2>1. Sifted(candidates, base, 0) BY DEF Sifted, Distinct
  <2> QED BY <1>8, <2>1
<1>10. ASSUME NEW i \in 1..n, i - 1 \in T PROVE i \in T
  <2>1. h[i - 1] \in V /\ h[i] = KeepStep(k, h[i - 1], candidates[i]) BY <1>8
  <2>2. Sifted(candidates, h[i - 1], i - 1) /\ candidates[i] \in C /\ i \in Nat \ {0} BY <1>3, <1>10
  <2>3. Sifted(candidates, h[i], i) BY <2>1, <2>2, SiftSound DEF V
  <2> QED BY <2>3
<1> HIDE DEF T
<1>11. 0..n \subseteq T BY <1>9, <1>10, UpTo
<1>12. Sifted(candidates, h[n], n) /\ h[n] \in V BY <1>8, <1>11 DEF T
<1>13. PICK first : first = h[n] OBVIOUS
<1>14. first.kept \in Seq(C) /\ first.rest \in Seq(C) BY <1>12, <1>13 DEF V, SiftState
<1>15. kept = Filling(first.kept, k, first.rest)
  <2>1. DiversityFilter(candidates, k) =
          LET f == Sifting(k, candidates) IN Filling(f.kept, k, f.rest)
    BY DEF DiversityFilter, Backfill, Sifting, Filling
  <2> QED BY <1>7, <1>13, <2>1
<1>16a. PICK rest : rest = first.rest OBVIOUS
<1>16. PICK m \in Nat : rest = first.rest /\ m = Len(rest) /\ DOMAIN rest = 1..m BY <1>14, <1>16a
<1>17. \A a \in Seq(C), c \in C : BackfillStep(k, a, c) \in Seq(C)
  <2>1. \A a \in Seq(C), c \in C : Append(a, c) \in Seq(C) OBVIOUS
  <2> QED BY <2>1 DEF BackfillStep
<1>18. FillingRuns(rest, Seq(C), first.kept, k) BY <1>14, <1>16, <1>17, FillingFold
<1>19. PICK f : FillingSteps(f, rest, Seq(C), first.kept, k) /\ kept = f[m]
  BY <1>15, <1>16, <1>18 DEF FillingRuns
<1>20. /\ f[0] = first.kept /\ f \in [0..m -> Seq(C)]
       /\ \A i \in 1..m : i - 1 \in 0..m /\ f[i] = BackfillStep(k, f[i - 1], rest[i])
  BY <1>16, <1>19 DEF FillingSteps
<1> DEFINE U == {i \in 0..m : Filled(first.kept, rest, k, f[i], i)}
<1>21. 0 \in U
  <2>1. Filled(first.kept, rest, k, first.kept, 0) BY <1>12, <1>13 DEF Filled, Sifted
  <2> QED BY <1>20, <2>1
<1>22. ASSUME NEW i \in 1..m, i - 1 \in U PROVE i \in U
  <2>1. f[i - 1] \in Seq(C) /\ f[i] = BackfillStep(k, f[i - 1], rest[i]) BY <1>20
  <2>2. Filled(first.kept, rest, k, f[i - 1], i - 1) /\ rest[i] \in C /\ i \in Nat \ {0}
    BY <1>14, <1>16, <1>22
  <2>3. Filled(first.kept, rest, k, f[i], i) BY <2>1, <2>2, FillSound
  <2> QED BY <2>3
<1> HIDE DEF U
<1>23. 0..m \subseteq U BY <1>21, <1>22, UpTo
<1>24. Filled(first.kept, rest, k, kept, m) BY <1>19, <1>23 DEF U
<1>25. ASSUME Len(kept) < k, NEW i \in 1..n
       PROVE  candidates[i] \in ToSet(kept) \/ DuplicateOf(candidates[i], kept)
  <2>1. candidates[i] \in ToSet(first.kept) \cup ToSet(first.rest) BY <1>12, <1>13 DEF Sifted
  <2>2. CASE candidates[i] \in ToSet(first.kept) BY <1>24, <2>2 DEF Filled
  <2>3. CASE candidates[i] \in ToSet(first.rest)
    <3>1. PICK j \in 1..m : candidates[i] = rest[j] BY <1>16, <2>3 DEF ToSet
    <3> QED BY <1>24, <1>25, <3>1 DEF Filled
  <2> QED BY <2>1, <2>2, <2>3
<1> QED BY <1>2, <1>24, <1>25 DEF Filled

-----------------------------------------------------------------------------
(* Advanced retrieval *)

(* A list put in order by the pairs of positions of which one comes first.  *)
SortBy(list, B) ==
  LET D == DOMAIN list
      o == InOrder(D, {p \in D \X D : p \in B \/ (<<p[2], p[1]>> \notin B /\ p[1] < p[2])})
  IN [r \in DOMAIN o |-> list[o[r]]]

Sorts(out, list, B, n) ==
  \E o : /\ o \in [1..n -> 1..n] /\ \A x \in 1..n : \E r \in 1..n : o[r] = x
         /\ \A i, j \in 1..n : i < j => <<o[j], o[i]>> \notin B
         /\ out = [r \in 1..n |-> list[o[r]]]

(* A stable sort has the entries of its list, none before a better one.    *)
LEMMA SortByIs ==
  ASSUME NEW S, NEW list \in Seq(S), NEW n \in Nat, DOMAIN list = 1..n, NEW B, WeakOrder(1..n, B)
  PROVE  SortBy(list, B) \in Seq(S) /\ Sorts(SortBy(list, B), list, B, n)
<1> DEFINE D == 1..n
           R == {p \in D \X D : p \in B \/ (<<p[2], p[1]>> \notin B /\ p[1] < p[2])}
           o == InOrder(D, R)
<1>1. SortBy(list, B) = [r \in DOMAIN o |-> list[o[r]]] BY DEF SortBy
<1>2. \A x, y \in D : <<x, y>> \in R <=> <<x, y>> \in B \/ (<<y, x>> \notin B /\ x < y) OBVIOUS
<1>3. StrictOrder(D, R)
  <2> HIDE DEF R
  <2> QED BY <1>2, StableIsStrict
<1>4. IsFiniteSet(D) /\ Cardinality(D) = n BY FS_Interval
<1> HIDE DEF R, D
<1>5. /\ o \in [1..n -> D]
      /\ \A x \in D : \E r \in 1..n : o[r] = x
      /\ \A i, j \in 1..n : i < j => <<o[i], o[j]>> \in R
  BY <1>3, <1>4, InOrderIs
<1> HIDE DEF o
<1>6. SortBy(list, B) = [r \in 1..n |-> list[o[r]]] BY <1>1, <1>5
<1>7. ASSUME NEW i \in 1..n, NEW j \in 1..n, i < j PROVE <<o[j], o[i]>> \notin B
  <2>1. o[i] \in D /\ o[j] \in D /\ <<o[i], o[j]>> \in R BY <1>5, <1>7
  <2>2. <<o[i], o[j]>> \in B \/ <<o[j], o[i]>> \notin B BY <1>2, <2>1
  <2> QED BY <2>1, <2>2 DEF WeakOrder, D
<1>8. Sorts(SortBy(list, B), list, B, n) BY <1>5, <1>6, <1>7 DEF Sorts, D
<1>9. \A r \in 1..n : list[o[r]] \in S BY <1>5 DEF D
<1> QED BY <1>6, <1>8, <1>9

(* Ordering by one key and then another is a weak order.                   *)
LEMMA KeyedIsWeak ==
  ASSUME NEW n \in Nat, NEW a, NEW b, \A i \in 1..n : a[i] \in Int /\ b[i] \in Int, NEW B,
         \A x, y \in 1..n : <<x, y>> \in B <=> a[x] > a[y] \/ (a[x] = a[y] /\ b[x] > b[y])
  PROVE  WeakOrder(1..n, B)
<1>1. \A x \in 1..n : <<x, x>> \notin B OBVIOUS
<1>2. ASSUME NEW x \in 1..n, NEW y \in 1..n, NEW z \in 1..n, <<x, y>> \in B, <<y, z>> \in B
      PROVE  <<x, z>> \in B
  BY <1>2
<1>3. ASSUME NEW x \in 1..n, NEW y \in 1..n, NEW z \in 1..n, <<x, z>> \in B
      PROVE  <<x, y>> \in B \/ <<y, z>> \in B
  BY <1>3
<1> QED BY <1>1, <1>2, <1>3 DEF WeakOrder

(* The first k entries of a list, or all of them.                           *)
Tops(out, list, k) ==
  \E m \in 0..Len(list) : /\ m = IF k <= Len(list) THEN k ELSE Len(list)
                          /\ DOMAIN out = 1..m /\ \A i \in 1..m : out[i] = list[i]

(* The first k entries of a list, or all.                                  *)
LEMMA TopIs ==
  ASSUME NEW S, NEW list \in Seq(S), NEW k \in Nat
  PROVE  TopOf(list, k) \in Seq(S) /\ Tops(TopOf(list, k), list, k)
<1>1. PICK n \in Nat : n = Len(list) /\ DOMAIN list = 1..n OBVIOUS
<1>2. PICK m \in 0..n : m = Min({k, n}) /\ m = IF k <= n THEN k ELSE n
  <2>1. PICK both : both = {k, n} OBVIOUS
  <2>2. both \subseteq Int /\ k \in both /\ n \in both /\ \A x \in both : x = k \/ x = n BY <2>1
  <2>4. PICK m : m = Min(both) OBVIOUS
  <2>5. m \in both /\ (\A x \in both : m <= x) /\ m = IF k <= n THEN k ELSE n
    <3>1. CASE k <= n
      <4>1. \A x \in both : k <= x BY <2>2, <3>1
      <4>2. m = k BY <2>2, <2>4, <4>1, MinIs
      <4> QED BY <2>2, <3>1, <4>1, <4>2
    <3>2. CASE n < k
      <4>1. \A x \in both : n <= x BY <2>2, <3>2
      <4>2. m = n BY <2>2, <2>4, <4>1, MinIs
      <4> QED BY <2>2, <3>2, <4>1, <4>2
    <3> QED BY <3>1, <3>2
  <2>6. m \in 0..n BY <2>2, <2>5
  <2> QED BY <2>1, <2>2, <2>4, <2>5, <2>6
<1>3. TopOf(list, k) = SubSeq(list, 1, m) BY <1>1, <1>2 DEF TopOf
<1>4. /\ SubSeq(list, 1, m) \in Seq(S) /\ DOMAIN SubSeq(list, 1, m) = 1..m
      /\ \A i \in 1..m : SubSeq(list, 1, m)[i] = list[i]
  <2>1. \A i \in 1..m : list[i] \in S BY <1>1
  <2>2. SubSeq(list, 1, m) = [i \in 1..m |-> list[i]] BY <1>1
  <2> QED BY <2>1, <2>2
<1> QED BY <1>1, <1>2, <1>3, <1>4 DEF Tops

(* Entries of a list are of its type.                                      *)
LEMMA EntriesIn ==
  ASSUME NEW S, NEW list \in Seq(S), NEW P \in SUBSET DOMAIN list
  PROVE  Entries(list, P) \in Seq(S)
<1>1. PICK n \in Nat : DOMAIN list = 1..n OBVIOUS
<1>3. P \in SUBSET (1..n) BY <1>1
<1>5. /\ IsFiniteSet(P) /\ Cardinality(P) \in 0..n
      /\ Picks(Entries(list, P), list, P)
  BY <1>3, EntriesAre
<1>2. PICK o : /\ Lists(o, P) /\ Cardinality(P) \in 0..n
               /\ Entries(list, P) = [r \in 1..Cardinality(P) |-> list[o[r]]]
  BY <1>5 DEF Picks
<1>4. \A r \in 1..Cardinality(P) : list[o[r]] \in S BY <1>1, <1>2, <1>3 DEF Lists
<1> QED BY <1>2, <1>4

(* What the searches rank.                                                  *)
Hit(p) == /\ "id" \in DOMAIN p /\ "similarity" \in DOMAIN p /\ "bm25" \in DOMAIN p
          /\ p.id \in Int /\ p.similarity \in Int /\ p.bm25 \in Int

Hits(S) == \A p \in S : Hit(p)

(* Dense search finds points of the store.                                 *)
LEMMA DenseIn ==
  ASSUME NEW S, Hits(S), NEW points \in Seq(S), NEW criteria, NEW k \in Nat
  PROVE  DenseSearch(points, criteria, k) \in Seq(S)
<1> DEFINE Suits(p) == \A label \in DOMAIN criteria :
                           label \in DOMAIN p.meta /\ p.meta[label] = criteria[label]
           P == {i \in DOMAIN points : Suits(points[i]) /\ points[i].similarity >= Threshold}
           hits == Entries(points, P)
           B == {p \in (DOMAIN hits) \X (DOMAIN hits) : hits[p[1]].similarity > hits[p[2]].similarity}
           top == TopOf(SortBy(hits, B), k)
           Q == {i \in DOMAIN top : top[i].similarity <= 100}
<1>1. hits \in Seq(S)
  <2>1. P \in SUBSET DOMAIN points OBVIOUS
  <2> HIDE DEF P
  <2> QED BY <2>1, EntriesIn
<1>2. DenseSearch(points, criteria, k) =
        Entries(TopOf(Ranking(hits, LAMBDA p, q : p.similarity > q.similarity), k),
                {i \in DOMAIN TopOf(Ranking(hits, LAMBDA p, q : p.similarity > q.similarity), k) :
                   TopOf(Ranking(hits, LAMBDA p, q : p.similarity > q.similarity), k)[i].similarity <= 100})
  BY DEF DenseSearch, Keeping
<1> HIDE DEF hits
<1>3. Ranking(hits, LAMBDA p, q : p.similarity > q.similarity) = SortBy(hits, B)
  <2>1. {p \in (DOMAIN hits) \X (DOMAIN hits) :
           \/ hits[p[1]].similarity > hits[p[2]].similarity
           \/ ~(hits[p[2]].similarity > hits[p[1]].similarity) /\ p[1] < p[2]} =
        {p \in (DOMAIN hits) \X (DOMAIN hits) : p \in B \/ (<<p[2], p[1]>> \notin B /\ p[1] < p[2])}
    OBVIOUS
  <2> HIDE DEF B
  <2> QED BY <2>1 DEF Ranking, SortBy
<1>4. SortBy(hits, B) \in Seq(S)
  <2>1. PICK n \in Nat : DOMAIN hits = 1..n BY <1>1
  <2>2. \A i \in 1..n : hits[i].similarity \in Int BY <1>1, <2>1 DEF Hits, Hit
  <2> DEFINE a == [i \in 1..n |-> hits[i].similarity]
  <2>3. \A i \in 1..n : a[i] \in Int BY <2>2
  <2>4. \A x, y \in 1..n : <<x, y>> \in B <=> a[x] > a[y] \/ (a[x] = a[y] /\ a[x] > a[y])
    BY <2>1, <2>2
  <2> HIDE DEF a, B
  <2>5. WeakOrder(1..n, B) BY <2>3, <2>4, KeyedIsWeak
  <2> QED BY <1>1, <2>1, <2>5, SortByIs
<1> HIDE DEF B
<1>5. top \in Seq(S) BY <1>4, TopIs
<1>6. DenseSearch(points, criteria, k) = Entries(top, Q) BY <1>2, <1>3
<1>7. Q \in SUBSET DOMAIN top OBVIOUS
<1> HIDE DEF top, Q
<1> QED BY <1>5, <1>6, <1>7, EntriesIn

(* The maximum and the minimum of two numbers.                             *)
LEMMA OfTwo ==
  ASSUME NEW a \in Int, NEW b \in Int
  PROVE  /\ Max({a, b}) = (IF a >= b THEN a ELSE b)
         /\ Min({a, b}) = (IF a <= b THEN a ELSE b)
<1>1. PICK both : both = {a, b} OBVIOUS
<1>2. both \subseteq Int /\ a \in both /\ b \in both /\ \A x \in both : x = a \/ x = b BY <1>1
<1>3. CASE a <= b
  <2>1. \A x \in both : a <= x /\ x <= b BY <1>2, <1>3
  <2>2. Min(both) = a BY <1>2, <2>1, MinIs
  <2>3. Max(both) = b BY <1>2, <2>1, MaxIs
  <2> QED BY <1>1, <1>3, <2>2, <2>3
<1>4. CASE b < a
  <2>1. \A x \in both : b <= x /\ x <= a BY <1>2, <1>4
  <2>2. Min(both) = b BY <1>2, <2>1, MinIs
  <2>3. Max(both) = a BY <1>2, <2>1, MaxIs
  <2> QED BY <1>1, <1>4, <2>2, <2>3
<1> QED BY <1>3, <1>4

HitList(l) == \E S : Hits(S) /\ l \in Seq(S)

(* Keyword search finds points of the store.                               *)
LEMMA BM25In ==
  ASSUME NEW S, Hits(S), NEW index \in Seq(S), NEW terms, NEW k \in Nat
  PROVE  BM25Search(index, terms, k) \in Seq(S)
<1> DEFINE P == {i \in DOMAIN index : index[i].tokens \cap terms # {}}
           hits == Entries(index, P)
           B == {p \in (DOMAIN hits) \X (DOMAIN hits) : hits[p[1]].bm25 > hits[p[2]].bm25}
<1>1. hits \in Seq(S)
  <2>1. P \in SUBSET DOMAIN index OBVIOUS
  <2> HIDE DEF P
  <2> QED BY <2>1, EntriesIn
<1>2. BM25Search(index, terms, k) = TopOf(Ranking(hits, LAMBDA d, e : d.bm25 > e.bm25), k)
  BY DEF BM25Search, Keeping
<1> HIDE DEF hits
<1>3. Ranking(hits, LAMBDA d, e : d.bm25 > e.bm25) = SortBy(hits, B)
  <2>1. {p \in (DOMAIN hits) \X (DOMAIN hits) :
           \/ hits[p[1]].bm25 > hits[p[2]].bm25
           \/ ~(hits[p[2]].bm25 > hits[p[1]].bm25) /\ p[1] < p[2]} =
        {p \in (DOMAIN hits) \X (DOMAIN hits) : p \in B \/ (<<p[2], p[1]>> \notin B /\ p[1] < p[2])}
    OBVIOUS
  <2> HIDE DEF B
  <2> QED BY <2>1 DEF Ranking, SortBy
<1>4. SortBy(hits, B) \in Seq(S)
  <2>1. PICK n \in Nat : DOMAIN hits = 1..n BY <1>1
  <2>2. \A i \in 1..n : hits[i].bm25 \in Int BY <1>1, <2>1 DEF Hits, Hit
  <2> DEFINE a == [i \in 1..n |-> hits[i].bm25]
  <2>3. \A i \in 1..n : a[i] \in Int BY <2>2
  <2>4. \A x, y \in 1..n : <<x, y>> \in B <=> a[x] > a[y] \/ (a[x] = a[y] /\ a[x] > a[y])
    BY <2>1, <2>2
  <2> HIDE DEF a, B
  <2>5. WeakOrder(1..n, B) BY <2>3, <2>4, KeyedIsWeak
  <2> QED BY <1>1, <2>1, <2>5, SortByIs
<1> HIDE DEF B
<1>5. TopOf(SortBy(hits, B), k) \in Seq(S) BY <1>4, TopIs
<1> QED BY <1>2, <1>3, <1>5

(* What is fused has the fields of a search result.                        *)
LEMMA FuseHits ==
  ASSUME NEW S, Hits(S), NEW lists \in Seq(Seq(S))
  PROVE  HitList(Fuse(lists))
<1>1. PICK all : all = FlattenSeq(lists) OBVIOUS
<1>2. all \in Seq(S) BY <1>1, FlattenIs
<1>3. PICK n \in Nat : DOMAIN all = 1..n BY <1>2
<1>4. PICK ids : ids = {all[i].id : i \in 1..n} OBVIOUS
<1>5. \A i \in 1..n : Hit(all[i]) BY <1>2, <1>3 DEF Hits
<1>6. ASSUME NEW x \in ids PROVE RRFScore(lists, x) \in Fractions
  <2>1. \A l \in Seq(S) : Listed(l) BY DEF Listed
  <2> QED BY <2>1, ScoreIsFraction
<1>7. Merges(lists, all, n, ids) BY <1>1, <1>3, <1>4, <1>5, <1>6 DEF Merges, Hit
<1>8. Fuses(Fuse(lists), lists, ids) /\ Renames(Fuse(lists), all, n)
  BY <1>7, FuseIs
<1>9. PICK out : out = Fuse(lists) OBVIOUS
<1>10. PICK m \in Nat : DOMAIN out = 1..m BY <1>8, <1>9 DEF Fuses
<1>11. out = [i \in 1..m |-> out[i]]
  <2>1. out = [i \in DOMAIN out |-> out[i]] BY <1>9 DEF Fuse
  <2> QED BY <1>10, <2>1
<1>12. ASSUME NEW i \in 1..m PROVE Hit(out[i])
  <2>0. PICK k \in 1..n : \E names : out[i] = [all[k] EXCEPT !.found_by = names]
    BY <1>8, <1>9, <1>10 DEF Renames
  <2>1. PICK names : out[i] = [all[k] EXCEPT !.found_by = names] BY <2>0
  <2>2. Hit(all[k]) BY <1>5
  <2> QED BY <2>1, <2>2 DEF Hit
<1>13. PICK T : T = {out[i] : i \in 1..m} OBVIOUS
<1>14. Hits(T) BY <1>12, <1>13 DEF Hits
<1>15. out \in Seq(T)
  <2>1. \A i \in 1..m : out[i] \in T BY <1>13
  <2> QED BY <1>11, <2>1
<1> QED BY <1>9, <1>14, <1>15 DEF HitList

(* A hybrid search returns search results.                                 *)
LEMMA HybridHits ==
  ASSUME NEW S, Hits(S), NEW points \in Seq(S), NEW criteria, NEW terms, NEW k \in Nat
  PROVE  HitList(HybridSearch(points, points, criteria, terms, k))
<1>1. PICK c \in Nat : c = Max({4 * k, 20})
  <2>1. 4 * k \in Nat /\ 20 \in Nat OBVIOUS
  <2> QED BY <2>1, OfTwo
<1>2. PICK a : a = DenseSearch(points, criteria, c) OBVIOUS
<1>3. PICK b : b = BM25Search(points, terms, c) OBVIOUS
<1>4. a \in Seq(S) /\ b \in Seq(S) BY <1>2, <1>3, DenseIn, BM25In
<1>5. PICK lists : lists = <<a, b>> OBVIOUS
<1>6. lists \in Seq(Seq(S)) BY <1>4, <1>5
<1>7. HitList(Fuse(lists)) BY <1>6, FuseHits
<1>8. PICK T : Hits(T) /\ Fuse(lists) \in Seq(T) BY <1>7 DEF HitList
<1>9. HybridSearch(points, points, criteria, terms, k) = TopOf(Fuse(lists), k)
  BY <1>1, <1>2, <1>3, <1>5 DEF HybridSearch
<1>10. TopOf(Fuse(lists), k) \in Seq(T) BY <1>8, TopIs
<1> QED BY <1>8, <1>9, <1>10 DEF HitList

(* A search with several queries returns search results.                   *)
LEMMA MultiHits ==
  ASSUME NEW S, Hits(S), NEW points \in Seq(S), NEW criteria, NEW k \in Nat,
         NEW n \in Nat, NEW queries, DOMAIN queries = 1..n
  PROVE  HitList(MultiQuerySearch(points, queries, criteria, k))
<1>1. PICK c \in Nat : c = Max({3 * k, 15})
  <2>1. 3 * k \in Nat /\ 15 \in Nat OBVIOUS
  <2> QED BY <2>1, OfTwo
<1> DEFINE L(i) == HybridSearch(points, points, criteria, {queries[i]}, c)
           lists == [i \in 1..n |-> L(i)]
           T == UNION {{L(i)[j] : j \in DOMAIN L(i)} : i \in 1..n}
<1>2. ASSUME NEW i \in 1..n
      PROVE  /\ \A j \in DOMAIN L(i) : Hit(L(i)[j])
             /\ L(i) \in Seq({L(i)[j] : j \in DOMAIN L(i)})
  <2>1. HitList(L(i)) BY HybridHits
  <2> HIDE DEF L
  <2>2. PICK U : Hits(U) /\ L(i) \in Seq(U) BY <2>1 DEF HitList
  <2>3. \A j \in DOMAIN L(i) : L(i)[j] \in U BY <2>2
  <2>4. \A j \in DOMAIN L(i) : L(i)[j] \in {L(i)[q] : q \in DOMAIN L(i)} OBVIOUS
  <2> QED BY <2>2, <2>3, <2>4 DEF Hits
<1> HIDE DEF L
<1>3. Hits(T)
  <2>1. ASSUME NEW p \in T PROVE Hit(p)
    <3>1. PICK i \in 1..n : \E j \in DOMAIN L(i) : p = L(i)[j] OBVIOUS
    <3>2. PICK j \in DOMAIN L(i) : p = L(i)[j] BY <3>1
    <3> QED BY <1>2, <3>2
  <2> HIDE DEF T
  <2> QED BY <2>1 DEF Hits
<1>4. ASSUME NEW i \in 1..n PROVE L(i) \in Seq(T)
  <2>1. L(i) \in Seq({L(i)[j] : j \in DOMAIN L(i)}) BY <1>2
  <2>2. \A j \in DOMAIN L(i) : L(i)[j] \in T OBVIOUS
  <2> HIDE DEF T
  <2> QED BY <2>1, <2>2
<1> HIDE DEF T
<1>5. lists \in Seq(Seq(T)) BY <1>4
<1>6. MultiQuerySearch(points, queries, criteria, k) = TopOf(Fuse(lists), k)
  BY <1>1 DEF MultiQuerySearch, L
<1> HIDE DEF lists
<1>7. PICK U : Hits(U) /\ Fuse(lists) \in Seq(U) BY <1>3, <1>5, FuseHits DEF HitList
<1>8. TopOf(Fuse(lists), k) \in Seq(U) BY <1>7, TopIs
<1> QED BY <1>6, <1>7, <1>8 DEF HitList

(* Relevance to the incident's entities is a number.                       *)
LEMMA RelevanceIsInt ==
  ASSUME NEW chunk, Hit(chunk), NEW criteria, IsFiniteSet(DOMAIN criteria)
  PROVE  Relevance(chunk, criteria) \in Int
<1> DEFINE matched == {l \in DOMAIN criteria : l \in DOMAIN chunk.meta
                                               /\ chunk.meta[l] = criteria[l]}
           m == Cardinality(matched)
           extra == Min({MaxEntityBonus, m * EntityBonus})
           bonus == extra + (IF chunk.actionable THEN DocTypeBonus ELSE 0)
                          + (IF chunk.recent THEN RecencyBonus ELSE 0)
           base == Max({0, Min({100, chunk.similarity})})
<1>1. m \in Nat
  <2>1. matched \subseteq DOMAIN criteria OBVIOUS
  <2> HIDE DEF matched
  <2> QED BY <2>1, FS_Subset, FS_CardinalityType
<1>2. /\ EntityBonus \in Int /\ MaxEntityBonus \in Int /\ DocTypeBonus \in Int /\ RecencyBonus \in Int
  BY RetrievalAssumption
<1>3. Relevance(chunk, criteria) = Max({0, Min({100, base + bonus})}) BY DEF Relevance
<1> HIDE DEF matched, m
<1>4. extra \in Int
  <2>1. PICK t \in Int : t = m * EntityBonus BY <1>1, <1>2
  <2>2. PICK u \in Int : u = MaxEntityBonus BY <1>2
  <2> QED BY <2>1, <2>2, OfTwo
<1> HIDE DEF extra
<1>5. bonus \in Int BY <1>2, <1>4
<1>6. base \in Int
  <2>1. PICK s \in Int : s = chunk.similarity BY DEF Hit
  <2>2. PICK t \in Int : t = Min({100, s})
    <3>1. PICK h \in Int : h = 100 OBVIOUS
    <3>2. Min({h, s}) \in Int BY OfTwo
    <3> QED BY <3>1, <3>2
  <2>3. Max({0, t}) \in Int BY OfTwo
  <2> QED BY <2>1, <2>2, <2>3
<1> HIDE DEF bonus, base
<1>7. PICK s \in Int : s = base + bonus BY <1>5, <1>6
<1>8. PICK t \in Int : t = Min({100, s})
  <2>1. PICK h \in Int : h = 100 OBVIOUS
  <2>2. Min({h, s}) \in Int BY OfTwo
  <2> QED BY <2>1, <2>2
<1>9. Max({0, t}) \in Int BY OfTwo
<1> QED BY <1>3, <1>7, <1>8, <1>9

(* How a search answers: no more than it found, every entry marked the same *)
(* way, the scores falling.                                                 *)
Presents(out, found, relaxed) ==
  /\ found = <<>> => DOMAIN out = {}
  /\ \A i \in DOMAIN out : out[i].relaxed = relaxed
  /\ \A i, j \in DOMAIN out : out[j].score > out[i].score => j < i

(* Results are presented by their relevance, none before a better one.     *)
LEMMA RelevanceRanks ==
  ASSUME NEW found, HitList(found), NEW criteria, IsFiniteSet(DOMAIN criteria), NEW relaxed,
         NEW k \in Nat
  PROVE  Presents(ByRelevance(found, criteria, relaxed, k), found, relaxed)
<1> DEFINE scored == [i \in DOMAIN found |->
                        [chunk |-> found[i], relaxed |-> relaxed,
                         score |-> Relevance(found[i], criteria)]]
           Before(x, y) == \/ scored[x].score > scored[y].score
                           \/ scored[x].score = scored[y].score
                                /\ scored[x].chunk.id > scored[y].chunk.id
           B == {p \in (DOMAIN scored) \X (DOMAIN scored) : Before(p[1], p[2])}
           out == TopOf(SortBy(scored, B), k)
<1>1. PICK S : Hits(S) /\ found \in Seq(S) BY DEF HitList
<1>2. PICK n \in Nat : n = Len(found) /\ DOMAIN found = 1..n BY <1>1
<1>3. DOMAIN scored = 1..n BY <1>2
<1>4. ASSUME NEW i \in 1..n
      PROVE  scored[i].score \in Int /\ scored[i].chunk.id \in Int /\ scored[i].relaxed = relaxed
  <2>1. Hit(found[i]) BY <1>1, <1>2 DEF Hits
  <2>2. Relevance(found[i], criteria) \in Int BY <2>1, RelevanceIsInt
  <2>3. scored[i] = [chunk |-> found[i], relaxed |-> relaxed,
                     score |-> Relevance(found[i], criteria)] BY <1>2
  <2> QED BY <2>1, <2>2, <2>3 DEF Hit
<1>5. ByRelevance(found, criteria, relaxed, k) =
        TopOf(Ranking(scored, LAMBDA x, y : \/ x.score > y.score
                                            \/ x.score = y.score /\ x.chunk.id > y.chunk.id), k)
  BY DEF ByRelevance
<1> DEFINE E == {scored[i] : i \in 1..n}
<1>6. scored \in Seq(E) BY <1>3
<1> HIDE DEF scored
<1>7. Ranking(scored, LAMBDA x, y : \/ x.score > y.score
                                    \/ x.score = y.score /\ x.chunk.id > y.chunk.id) =
        SortBy(scored, B)
  <2>1. {p \in (DOMAIN scored) \X (DOMAIN scored) :
           \/ Before(p[1], p[2])
           \/ ~Before(p[2], p[1]) /\ p[1] < p[2]} =
        {p \in (DOMAIN scored) \X (DOMAIN scored) : p \in B \/ (<<p[2], p[1]>> \notin B /\ p[1] < p[2])}
    <3> HIDE DEF Before
    <3> QED OBVIOUS
  <2> HIDE DEF B
  <2> QED BY <2>1 DEF Ranking, SortBy
<1>8. WeakOrder(1..n, B)
  <2> DEFINE a == [i \in 1..n |-> scored[i].score]
             b == [i \in 1..n |-> scored[i].chunk.id]
  <2>1. \A i \in 1..n : a[i] \in Int /\ b[i] \in Int BY <1>4
  <2>2. \A x, y \in 1..n : <<x, y>> \in B <=> a[x] > a[y] \/ (a[x] = a[y] /\ b[x] > b[y])
    BY <1>3
  <2> HIDE DEF a, b, B
  <2> QED BY <2>1, <2>2, KeyedIsWeak
<1>9. \A x, y \in 1..n : <<y, x>> \notin B => ~(scored[y].score > scored[x].score)
  BY <1>3
<1> HIDE DEF B, E
<1>10. PICK s : s = SortBy(scored, B) OBVIOUS
<1>11. s \in Seq(E) /\ Sorts(s, scored, B, n) BY <1>3, <1>6, <1>8, <1>10, SortByIs
<1>12. PICK o : /\ o \in [1..n -> 1..n]
                /\ \A i, j \in 1..n : i < j => <<o[j], o[i]>> \notin B
                /\ s = [r \in 1..n |-> scored[o[r]]]
  BY <1>11 DEF Sorts
<1>13. PICK m \in 0..n : /\ DOMAIN out = 1..m /\ \A i \in 1..m : out[i] = s[i]
  <2>1. Len(s) = n BY <1>11, <1>12
  <2>2. Tops(TopOf(s, k), s, k) BY <1>11, TopIs
  <2> QED BY <1>10, <2>1, <2>2 DEF Tops
<1> HIDE DEF out
<1>14. ASSUME NEW i \in 1..m PROVE o[i] \in 1..n /\ i \in 1..n /\ out[i] = scored[o[i]]
  <2>1. i \in 1..n BY <1>13
  <2>2. o[i] \in 1..n BY <1>12, <2>1
  <2>3. s[i] = scored[o[i]] BY <1>12, <2>1
  <2> QED BY <1>13, <2>1, <2>2, <2>3
<1>15. found = <<>> => DOMAIN out = {} BY <1>2, <1>13
<1>16. \A i \in DOMAIN out : out[i].relaxed = relaxed BY <1>4, <1>13, <1>14
<1>17. ASSUME NEW i \in DOMAIN out, NEW j \in DOMAIN out, out[j].score > out[i].score PROVE j < i
  <2>1. /\ o[i] \in 1..n /\ o[j] \in 1..n /\ i \in 1..n /\ j \in 1..n
        /\ out[i] = scored[o[i]] /\ out[j] = scored[o[j]]
    BY <1>13, <1>14
  <2>2. <<o[j], o[i]>> \in B BY <1>9, <1>17, <2>1
  <2>3. ~(i < j) BY <1>12, <2>1, <2>2
  <2>4. i # j
    <3>1. scored[o[i]].score \in Int BY <1>4, <2>1
    <3> QED BY <1>17, <2>1, <3>1
  <2> QED BY <2>1, <2>3, <2>4
<1> QED BY <1>5, <1>7, <1>15, <1>16, <1>17 DEF Presents, out

(* The filter is dropped exactly when it leaves nothing, which is said,    *)
(* and the ranking is by score (advanced_retrieval.py:398).                *)
LEMMA RelaxedHolds ==
  ASSUME NEW in, AdvancedInput(in), NEW criteria, criteria = FilterCriteria(in.entities),
         NEW found, found = AdvancedSearch(in.points, in.queries, criteria, in.k)
  PROVE  LET strict == MultiQuerySearch(in.points, in.queries, criteria, Max({2 * in.k, 10}))
         IN \A i \in DOMAIN found :
              /\ found[i].relaxed <=> strict = <<>>
              /\ \A j \in DOMAIN found : found[j].score > found[i].score => j < i
<1>1. /\ IsList(in.points) /\ IsList(in.queries) /\ IsList(in.entities) /\ in.k \in Nat
      /\ \A i \in DOMAIN in.points : Hit(in.points[i])
  BY DEF AdvancedInput, Hit
<1>2. PICK S : S = {in.points[i] : i \in DOMAIN in.points} OBVIOUS
<1>3. in.points \in Seq(S) /\ Hits(S) BY <1>1, <1>2 DEF IsList, Hits
<1>4. PICK n \in Nat : DOMAIN in.queries = 1..n BY <1>1 DEF IsList
<1>5. IsFiniteSet(DOMAIN criteria)
  <2>1. PICK e \in Nat : DOMAIN in.entities = 1..e BY <1>1 DEF IsList
  <2>2. PICK entities : entities = in.entities OBVIOUS
  <2> DEFINE f == [i \in 1..e |-> entities[i].label]
  <2>3. DOMAIN criteria = {f[i] : i \in 1..e} BY <2>1, <2>2 DEF FilterCriteria
  <2> HIDE DEF f
  <2> QED BY <2>3, Images
<1>6. PICK k \in Nat, w \in Nat : k = in.k /\ w = Max({2 * k, 10})
  <2>1. PICK k \in Nat : k = in.k BY <1>1
  <2>2. 2 * k \in Int /\ 10 \in Int OBVIOUS
  <2>3. Max({2 * k, 10}) \in Nat BY <2>2, OfTwo
  <2> QED BY <2>1, <2>3
<1>7. PICK strict : strict = MultiQuerySearch(in.points, in.queries, criteria, w) OBVIOUS
<1>8. PICK open : open = MultiQuerySearch(in.points, in.queries, NoCriteria, w) OBVIOUS
<1>9. HitList(strict) /\ HitList(open) BY <1>3, <1>4, <1>7, <1>8, MultiHits
<1>10. PICK relaxed \in BOOLEAN : relaxed <=> strict = <<>> /\ DOMAIN criteria # {} OBVIOUS
<1>11. PICK hits : hits = IF relaxed THEN open ELSE strict OBVIOUS
<1>12. found = ByRelevance(hits, criteria, relaxed, k)
  <2>1. relaxed = (strict = <<>> /\ DOMAIN criteria # {}) BY <1>10
  <2> QED BY <1>6, <1>7, <1>8, <1>11, <2>1 DEF AdvancedSearch
<1>13. HitList(hits) BY <1>9, <1>11
<1>14. Presents(found, hits, relaxed) BY <1>5, <1>12, <1>13, RelevanceRanks
<1>15. strict = MultiQuerySearch(in.points, in.queries, criteria, Max({2 * in.k, 10})) BY <1>6, <1>7
<1>16. ASSUME NEW i \in DOMAIN found PROVE found[i].relaxed <=> strict = <<>>
  <2>1. CASE relaxed BY <1>10, <1>14, <2>1 DEF Presents
  <2>2. CASE ~relaxed
    <3>1. hits = strict /\ found[i].relaxed = relaxed BY <1>11, <1>14, <2>2 DEF Presents
    <3>2. hits # <<>> BY <1>14 DEF Presents
    <3> QED BY <2>2, <3>1, <3>2
  <2> QED BY <2>1, <2>2
<1> QED BY <1>14, <1>15, <1>16 DEF Presents

(* The increasing list of positions, with one position more at the end.    *)
LEMMA OneMore ==
  ASSUME NEW n \in Nat, NEW P \in SUBSET (1..n), NEW Q, Q = P \cup {n + 1}
  PROVE  /\ Cardinality(P) \in Nat /\ Cardinality(Q) = Cardinality(P) + 1
         /\ Increasing(P) \in [1..Cardinality(P) -> P]
         /\ Increasing(Q) = [r \in 1..(Cardinality(P) + 1) |->
                               IF r <= Cardinality(P) THEN Increasing(P)[r] ELSE n + 1]
<1>1. IsFiniteSet(P) /\ Cardinality(P) \in Nat
  <2>1. IsFiniteSet(1..n) BY FS_Interval
  <2>2. IsFiniteSet(P) BY <2>1, FS_Subset
  <2> QED BY <2>2, FS_CardinalityType
<1>2. IsFiniteSet(Q) /\ Cardinality(Q) = Cardinality(P) + 1
  <2>1. n + 1 \notin P OBVIOUS
  <2> QED BY <1>1, <2>1, FS_AddElement
<1>3. PICK m \in Nat : m = Cardinality(P) BY <1>1
<1>4. PICK RP : RP = {p \in P \X P : p[1] < p[2]} OBVIOUS
<1>5. PICK RQ : RQ = {p \in Q \X Q : p[1] < p[2]} OBVIOUS
<1>6. (\A x, y \in P : <<x, y>> \in RP <=> x < y) /\ (\A x, y \in Q : <<x, y>> \in RQ <=> x < y)
  BY <1>4, <1>5
<1>7. P \subseteq 1..n /\ Q \subseteq 1..(n + 1) OBVIOUS
<1>8. StrictOrder(P, RP) /\ StrictOrder(Q, RQ)
  <2>1. StrictOrder(P, RP)
    <3>1. P \subseteq Int BY <1>7
    <3> QED BY <1>6, <3>1 DEF StrictOrder
  <2>2. StrictOrder(Q, RQ)
    <3>1. Q \subseteq Int BY <1>7
    <3> QED BY <1>6, <3>1 DEF StrictOrder
  <2> QED BY <2>1, <2>2
<1>9. PICK o : o = Increasing(P) OBVIOUS
<1>10. PICK q : q = Increasing(Q) OBVIOUS
<1>11. o = InOrder(P, RP) /\ q = InOrder(Q, RQ) BY <1>4, <1>5, <1>9, <1>10 DEF Increasing
<1>12. Placed(o, P, RP) /\ o \in [1..Cardinality(P) -> P] BY <1>1, <1>8, <1>11, InOrderIs
<1>13. Placed(q, Q, RQ) /\ q \in [1..Cardinality(Q) -> Q] BY <1>2, <1>8, <1>11, InOrderIs
<1>14. ASSUME NEW r \in 1..(m + 1) PROVE q[r] = IF r <= m THEN o[r] ELSE n + 1
  <2>1. CASE r <= m
    <3>1. r \in 1..m BY <2>1
    <3>2. o[r] \in P BY <1>3, <1>12, <3>1
    <3>3. Cardinality({y \in P : <<y, o[r]>> \in RP}) = r - 1 BY <1>3, <1>12, <3>1, <3>2 DEF Placed
    <3>4. {y \in P : <<y, o[r]>> \in RP} = {y \in Q : <<y, o[r]>> \in RQ}
      <4>1. o[r] \in 1..n BY <1>7, <3>2
      <4>2. ~(n + 1 < o[r]) BY <4>1
      <4> QED BY <1>6, <3>2, <4>2
    <3> QED BY <1>2, <1>3, <1>13, <2>1, <3>2, <3>3, <3>4 DEF Placed
  <2>2. CASE r = m + 1
    <3>1. {y \in Q : <<y, n + 1>> \in RQ} = P
      <4>1. \A y \in P : y < n + 1 BY <1>7
      <4>2. ~(n + 1 < n + 1) OBVIOUS
      <4> QED BY <1>6, <4>1, <4>2
    <3>5. m = r - 1 BY <2>2
    <3>2. Cardinality({y \in Q : <<y, n + 1>> \in RQ}) = r - 1 BY <1>3, <3>1, <3>5
    <3>3. r \in 1..Cardinality(Q) /\ n + 1 \in Q BY <1>2, <1>3
    <3>4. q[r] = n + 1 BY <1>13, <3>2, <3>3 DEF Placed
    <3> QED BY <2>2, <3>4
  <2> QED BY <2>1, <2>2
<1>15. q = [r \in 1..(m + 1) |-> q[r]] BY <1>2, <1>3, <1>13
<1>16. q = [r \in 1..(m + 1) |-> IF r <= m THEN o[r] ELSE n + 1] BY <1>14, <1>15
<1> QED BY <1>1, <1>2, <1>3, <1>9, <1>10, <1>12, <1>16

(* The picked entries of a list that grows by one.                         *)
LEMMA EntriesAppend ==
  ASSUME NEW S, NEW list \in Seq(S), NEW x \in S, NEW n \in Nat, n = Len(list),
         NEW P \in SUBSET (1..n)
  PROVE  /\ Entries(list, P) \in Seq(S)
         /\ Entries(Append(list, x), P) = Entries(list, P)
         /\ Entries(Append(list, x), P \cup {n + 1}) = Append(Entries(list, P), x)
<1>1. DOMAIN list = 1..n OBVIOUS
<1>2. PICK Q : Q = P \cup {n + 1} OBVIOUS
<1>3. PICK o : o = Increasing(P) OBVIOUS
<1>4. PICK q : q = Increasing(Q) OBVIOUS
<1>5. PICK m \in Nat : m = Cardinality(P) BY <1>2, OneMore
<1>6. o \in [1..m -> P] /\ q = [r \in 1..(m + 1) |-> IF r <= m THEN o[r] ELSE n + 1]
  <2>1. /\ Increasing(P) \in [1..Cardinality(P) -> P]
        /\ Increasing(Q) = [r \in 1..(Cardinality(P) + 1) |->
                               IF r <= Cardinality(P) THEN Increasing(P)[r] ELSE n + 1]
    BY ZenonT(60), <1>2, OneMore
  <2> QED BY <1>3, <1>4, <1>5, <2>1
<1>7. PICK more : more = Append(list, x) OBVIOUS
<1>8. (\A i \in 1..n : more[i] = list[i]) /\ more[n + 1] = x BY <1>1, <1>7
<1>9. Entries(list, P) = [r \in 1..m |-> list[o[r]]] BY <1>3, <1>6 DEF Entries
<1>10. Entries(more, P) = [r \in 1..m |-> more[o[r]]] BY <1>3, <1>6 DEF Entries
<1>11. ASSUME NEW r \in 1..m PROVE o[r] \in 1..n /\ list[o[r]] \in S /\ more[o[r]] = list[o[r]]
  <2>1. o[r] \in P BY <1>6
  <2>2. o[r] \in 1..n BY <2>1
  <2> QED BY <1>1, <1>8, <2>2
<1>12. Entries(list, P) \in Seq(S) BY <1>9, <1>11
<1>13. Entries(more, P) = Entries(list, P) BY <1>9, <1>10, <1>11
<1>14. Entries(more, Q) = [r \in 1..(m + 1) |-> IF r <= m THEN list[o[r]] ELSE x]
  <2>1. DOMAIN q = 1..(m + 1) BY <1>6
  <2>2. Entries(more, Q) = [r \in 1..(m + 1) |-> more[q[r]]] BY <1>4, <2>1 DEF Entries
  <2>3. ASSUME NEW r \in 1..(m + 1) PROVE more[q[r]] = IF r <= m THEN list[o[r]] ELSE x
    <3>1. CASE r <= m
      <4>1. r \in 1..m /\ q[r] = o[r] BY <1>6, <3>1
      <4> QED BY <1>11, <3>1, <4>1
    <3>2. CASE ~(r <= m) BY <1>6, <1>8, <3>2
    <3> QED BY <3>1, <3>2
  <2> QED BY <2>2, <2>3
<1>15. Append(Entries(list, P), x) = [r \in 1..(m + 1) |-> IF r <= m THEN list[o[r]] ELSE x]
  <2>1. PICK e : e = Entries(list, P) OBVIOUS
  <2>2. e \in Seq(S) /\ Len(e) = m /\ \A r \in 1..m : e[r] = list[o[r]] BY <1>9, <1>12, <2>1
  <2>3. PICK a : a = Append(e, x) OBVIOUS
  <2>4. /\ a \in Seq(S) /\ Len(a) = m + 1 /\ a[m + 1] = x /\ \A r \in 1..m : a[r] = e[r]
    BY <2>2, <2>3
  <2>5. a = [r \in 1..(m + 1) |-> a[r]] BY <2>4
  <2>6. \A r \in 1..(m + 1) : a[r] = IF r <= m THEN e[r] ELSE x BY <2>4
  <2> QED BY <2>1, <2>2, <2>3, <2>5, <2>6
<1> QED BY <1>2, <1>7, <1>12, <1>13, <1>14, <1>15

-----------------------------------------------------------------------------
(* Grounded causes *)

(* The investigations of an incident.                                       *)
Tries(s) == FoldLeft(LAMBDA a, x : Append(a, Investigate(a, x.search, x.answer)), <<>>, s)

TriesSteps(h, s, V) ==
  /\ h \in [0..Len(s) -> V] /\ h[0] = <<>>
  /\ \A i \in 1..Len(s) : i - 1 \in 0..Len(s) /\ h[i] = Append(h[i - 1], Investigate(h[i - 1], s[i].search, s[i].answer))

TriesRuns(s, V) == \E h : TriesSteps(h, s, V) /\ Tries(s) = h[Len(s)]

(* Such a fold goes through one step per entry of the list.                 *)
LEMMA TriesFold ==
  ASSUME NEW E, NEW s \in Seq(E), NEW V, <<>> \in V,
         \A a \in V, x \in E : Append(a, Investigate(a, x.search, x.answer)) \in V
  PROVE  TriesRuns(s, V)
<1> DEFINE base == <<>>
           g == [p \in V \X E |-> Append(p[1], Investigate(p[1], p[2].search, p[2].answer))]
           Iter(f) == f = [S \in SUBSET DOMAIN s |->
             IF S = {} THEN base ELSE Append(f[S \ {Max(S)}], Investigate(f[S \ {Max(S)}], s[Max(S)].search, s[Max(S)].answer))]
           it == CHOOSE f : Iter(f)
<1>1. base \in V /\ g \in [V \X E -> V] OBVIOUS
<1>2. \A a \in V, x \in E : g[<<a, x>>] = Append(a, Investigate(a, x.search, x.answer)) OBVIOUS
<1>3. Tries(s) = it[DOMAIN s] BY DEF Tries, FoldLeft, MapThenFoldSet
<1> HIDE DEF g, base
<1>4. PICK f : Folds(f, s, E, V, base, g) BY <1>1, FoldExists
<1>5. \A S \in SUBSET DOMAIN s : S # {} =>
        f[S] = Append(f[S \ {Max(S)}], Investigate(f[S \ {Max(S)}], s[Max(S)].search, s[Max(S)].answer))
  BY <1>2, <1>4 DEF Folds
<1>6. Iter(f) BY <1>4, <1>5 DEF Folds
<1>7. Iter(it) BY <1>6
<1> HIDE DEF it
<1>8. Unfolds(it, s, E, V, base, g) BY <1>2, <1>7 DEF Unfolds
<1>9. PICK h : FoldRun(h, s, E, V, base, g) /\ it[DOMAIN s] = h[Len(s)]
  <2>1. Reaches(it, s, E, V, base, g) BY <1>1, <1>8, FoldRuns
  <2> QED BY <2>1 DEF Reaches
<1>10. TriesSteps(h, s, V) BY <1>2, <1>9 DEF FoldRun, TriesSteps, base
<1> QED BY <1>3, <1>9, <1>10 DEF TriesRuns

Outcomes(E) ==
  [causes : {<<>>} \cup {o.answer.causes : o \in E}, overall : {0} \cup {o.answer.overall : o \in E},
   review : {TRUE} \cup {o.answer.review : o \in E}, passed : BOOLEAN,
   why : {"exhausted", "retrieval_failed", "no_context", "broken", "unsafe", "unparsable",
          "invalid", "none"},
   strategy : {"exhausted", "original", "rewritten", "broadened"}, retrieved : Nat]

(* What one investigation says: it cites what it retrieved.                 *)
Cites(r, search) ==
  /\ \A c \in DOMAIN r.causes : r.causes[c].chunk \in ToSet(search)
  /\ r.causes = <<>> => r.review

Follows(r, prior) ==
  /\ r.strategy = "exhausted" => Exhausted(prior) /\ r.retrieved = 0
  /\ r.strategy # "exhausted" => r.strategy = NextStrategy(prior)

(* The strategies are tried in turn, and the last one is kept.             *)
LEMMA StrategyIs ==
  ASSUME NEW i \in Nat \ {0}
  PROVE  /\ Min({i, MaxQueryAttempts}) = (IF i <= MaxQueryAttempts THEN i ELSE MaxQueryAttempts)
         /\ Strategies[Min({i, MaxQueryAttempts})] \in {"original", "rewritten", "broadened"}
<1>1. PICK q \in 1..3 : q = MaxQueryAttempts
  <2>1. Len(Strategies) = 3 BY DEF Strategies
  <2> QED BY <2>1, GroundedCausesAssumption
<1>2. Min({i, q}) = IF i <= q THEN i ELSE q BY OfTwo
<1>3. Min({i, q}) \in 1..3 BY <1>2
<1>4. \A k \in 1..3 : Strategies[k] \in {"original", "rewritten", "broadened"} BY DEF Strategies
<1> QED BY <1>1, <1>2, <1>3, <1>4

(* One investigation: its causes cite chunks it retrieved, and it follows  *)
(* the attempts before it (rag_agent.py:345).                              *)
LEMMA InvestigateIs ==
  ASSUME NEW E, NEW f, NEW o \in E, IsList(o.search), NEW prior, prior = PriorAttempts(f),
         Len(prior) \in Nat, NEW r, r = Investigate(f, o.search, o.answer)
  PROVE  r \in Outcomes(E) /\ Cites(r, o.search) /\ Follows(r, prior)
<1>1. PICK search, said : search = o.search /\ said = o.answer OBVIOUS
<1>2. PICK n \in Nat : n = Len(search) /\ DOMAIN search = 1..n BY <1>1 DEF IsList
<1>3. PICK chunks : chunks = IF search = Broken THEN <<>> ELSE SubSeq(search, 1, Min({RAGTopK, Len(search)}))
  OBVIOUS
<1>4. Len(chunks) \in Nat /\ ToSet(chunks) \subseteq ToSet(search)
  <2>1. CASE search = Broken BY <1>3, <2>1 DEF ToSet
  <2>2. CASE search # Broken
    <3>1. RAGTopK \in Nat BY GroundedCausesAssumption
    <3>2. search \in Seq({search[i] : i \in DOMAIN search}) BY <1>1 DEF IsList
    <3>3. chunks = TopOf(search, RAGTopK) BY <1>3, <2>2 DEF TopOf
    <3>4. PICK S : S = {search[i] : i \in DOMAIN search} OBVIOUS
    <3>5. search \in Seq(S) BY <3>2, <3>4
    <3>6. TopOf(search, RAGTopK) \in Seq(S) /\ Tops(TopOf(search, RAGTopK), search, RAGTopK)
      BY <3>1, <3>5, TopIs
    <3>7. PICK m \in 0..n : DOMAIN chunks = 1..m /\ \A i \in 1..m : chunks[i] = search[i]
      BY <1>2, <3>3, <3>6 DEF Tops
    <3>8. Len(chunks) \in Nat BY <3>3, <3>6
    <3>9. \A i \in 1..m : i \in 1..n BY <3>7
    <3> QED BY <1>2, <3>7, <3>8, <3>9 DEF ToSet
  <2> QED BY <2>1, <2>2
<1>5. PICK strategy : strategy = NextStrategy(prior) OBVIOUS
<1>6. strategy \in {"original", "rewritten", "broadened"}
  <2>1. PICK k \in Nat \ {0} : k = Len(prior) + 1 OBVIOUS
  <2> QED BY <1>5, <2>1, StrategyIs DEF NextStrategy
<1>7. \/ r = NoResult("exhausted", "exhausted", 0) /\ Exhausted(prior)
      \/ \E why \in {"retrieval_failed", "no_context", "broken", "unsafe", "unparsable", "invalid"} :
           r = NoResult(why, strategy, Len(chunks))
      \/ /\ ValidAnswer(said, ToSet(chunks))
         /\ r = [causes |-> said.causes, overall |-> said.overall,
                 review |-> said.review, passed |-> TRUE, why |-> "none",
                 strategy |-> strategy, retrieved |-> Len(chunks)]
  <2>1. CASE Exhausted(prior) BY <1>1, <1>3, <1>5, <2>1 DEF Investigate
  <2>2. CASE ~Exhausted(prior) /\ search = Broken BY <1>1, <1>3, <1>5, <2>2 DEF Investigate
  <2>3. CASE ~Exhausted(prior) /\ search = <<>>
    <3>1. search # Broken
      <4>1. <<>> # <<"broken">> OBVIOUS
      <4> QED BY <2>3, <4>1 DEF Broken
    <3> QED BY <1>1, <1>3, <1>5, <2>3, <3>1 DEF Investigate
  <2>4. CASE ~Exhausted(prior) /\ search # Broken /\ search # <<>>
    <3>1. r = IF said.is \in {"broken", "unsafe", "unparsable"}
              THEN NoResult(said.is, strategy, Len(chunks))
              ELSE IF ~ValidAnswer(said, ToSet(chunks))
                   THEN NoResult("invalid", strategy, Len(chunks))
                   ELSE [causes |-> said.causes, overall |-> said.overall,
                         review |-> said.review, passed |-> TRUE, why |-> "none",
                         strategy |-> strategy, retrieved |-> Len(chunks)]
      BY <1>1, <1>3, <1>5, <2>4 DEF Investigate
    <3> QED BY <3>1
  <2> QED BY <2>1, <2>2, <2>3, <2>4
<1>8. CASE r = NoResult("exhausted", "exhausted", 0) /\ Exhausted(prior)
  BY <1>8 DEF NoResult, Outcomes, Cites, Follows
<1>9. ASSUME NEW why \in {"retrieval_failed", "no_context", "broken", "unsafe", "unparsable", "invalid"},
             r = NoResult(why, strategy, Len(chunks))
      PROVE  r \in Outcomes(E) /\ Cites(r, o.search) /\ Follows(r, prior)
  BY <1>4, <1>5, <1>6, <1>9 DEF NoResult, Outcomes, Cites, Follows
<1>10. CASE /\ ValidAnswer(said, ToSet(chunks))
            /\ r = [causes |-> said.causes, overall |-> said.overall,
                    review |-> said.review, passed |-> TRUE, why |-> "none",
                    strategy |-> strategy, retrieved |-> Len(chunks)]
  <2>1. r.causes = said.causes /\ r.strategy = strategy BY <1>10
  <2>2. said.causes # <<>> /\ \A c \in DOMAIN said.causes : said.causes[c].chunk \in ToSet(search)
    BY <1>4, <1>10 DEF ValidAnswer, ValidCauses
  <2>3. r \in Outcomes(E)
    <3>1. PICK C : C = {<<>>} \cup {x.answer.causes : x \in E} OBVIOUS
    <3>2. PICK O : O = {0} \cup {x.answer.overall : x \in E} OBVIOUS
    <3>3. PICK R : R = {TRUE} \cup {x.answer.review : x \in E} OBVIOUS
    <3>4. said.causes \in C /\ said.overall \in O /\ said.review \in R
      BY <1>1, <3>1, <3>2, <3>3
    <3>5. Outcomes(E) = [causes : C, overall : O, review : R, passed : BOOLEAN,
            why : {"exhausted", "retrieval_failed", "no_context", "broken", "unsafe", "unparsable",
                   "invalid", "none"},
            strategy : {"exhausted", "original", "rewritten", "broadened"}, retrieved : Nat]
      BY <3>1, <3>2, <3>3 DEF Outcomes
    <3> QED BY <1>4, <1>6, <1>10, <3>4, <3>5
  <2> QED BY <1>1, <1>5, <1>6, <2>1, <2>2, <2>3 DEF Cites, Follows
<1> QED BY <1>7, <1>8, <1>9, <1>10

(* An investigation counts as an attempt unless it gave up.                *)
LEMMA PriorAppend ==
  ASSUME NEW S, NEW f \in Seq(S), NEW r \in S
  PROVE  /\ PriorAttempts(f) \in Seq(S)
         /\ PriorAttempts(Append(f, r)) =
              IF r.strategy # "exhausted" THEN Append(PriorAttempts(f), r) ELSE PriorAttempts(f)
<1>1. PICK n \in Nat : n = Len(f) /\ DOMAIN f = 1..n OBVIOUS
<1>2. PICK more : more = Append(f, r) OBVIOUS
<1>3. DOMAIN more = 1..(n + 1) /\ more[n + 1] = r /\ \A i \in 1..n : more[i] = f[i] BY <1>1, <1>2
<1>4. PICK P : P = {i \in 1..n : f[i].strategy # "exhausted"} OBVIOUS
<1>5. P \in SUBSET (1..n) BY <1>4
<1>6. PriorAttempts(f) = Entries(f, P) BY <1>1, <1>4 DEF PriorAttempts, Keeping
<1>7. PriorAttempts(more) = Entries(more, {i \in 1..(n + 1) : more[i].strategy # "exhausted"})
  BY <1>3 DEF PriorAttempts, Keeping
<1>8. {i \in 1..(n + 1) : more[i].strategy # "exhausted"} =
        IF r.strategy # "exhausted" THEN P \cup {n + 1} ELSE P
  <2>1. \A i : i \in 1..(n + 1) <=> i \in 1..n \/ i = n + 1 OBVIOUS
  <2> QED BY <1>3, <1>4, <2>1
<1>9. /\ Entries(f, P) \in Seq(S) /\ Entries(more, P) = Entries(f, P)
      /\ Entries(more, P \cup {n + 1}) = Append(Entries(f, P), r)
  <2>1. n = Len(f) BY <1>1
  <2>2. /\ Entries(f, P) \in Seq(S) /\ Entries(Append(f, r), P) = Entries(f, P)
        /\ Entries(Append(f, r), P \cup {n + 1}) = Append(Entries(f, P), r)
    BY <1>5, <2>1, EntriesAppend
  <2> QED BY <1>2, <2>2
<1> QED BY <1>2, <1>6, <1>7, <1>8, <1>9

(* The prior attempts are the investigations that did not give up.         *)
LEMMA PriorAre ==
  ASSUME NEW S, NEW f \in Seq(S), NEW prior, prior = PriorAttempts(f)
  PROVE  /\ \A j \in DOMAIN prior : \E i \in DOMAIN f : prior[j] = f[i]
         /\ \A i \in DOMAIN f : f[i].strategy # "exhausted" =>
              \E j \in DOMAIN prior : prior[j] = f[i]
<1>1. PICK n \in Nat : n = Len(f) /\ DOMAIN f = 1..n OBVIOUS
<1>2. PICK P : P = {i \in 1..n : f[i].strategy # "exhausted"} OBVIOUS
<1>3. P \in SUBSET (1..n) BY <1>2
<1>4. prior = Entries(f, P) BY <1>1, <1>2 DEF PriorAttempts, Keeping
<1>5. Picks(Entries(f, P), f, P) BY <1>3, EntriesAre
<1>6. PICK o : Lists(o, P) /\ prior = [r \in 1..Cardinality(P) |-> f[o[r]]] BY <1>4, <1>5 DEF Picks
<1>7. ASSUME NEW j \in DOMAIN prior PROVE \E i \in DOMAIN f : prior[j] = f[i]
  <2>1. j \in 1..Cardinality(P) BY <1>6
  <2>2. o[j] \in P /\ prior[j] = f[o[j]] BY <1>6, <2>1 DEF Lists
  <2> QED BY <1>1, <1>3, <2>2
<1>8. ASSUME NEW i \in DOMAIN f, f[i].strategy # "exhausted" PROVE \E j \in DOMAIN prior : prior[j] = f[i]
  <2>1. i \in P BY <1>1, <1>2, <1>8
  <2>2. PICK j \in 1..Cardinality(P) : o[j] = i BY <1>6, <2>1 DEF Lists
  <2>3. j \in DOMAIN prior /\ prior[j] = f[i] BY <1>6, <2>2
  <2> QED BY <2>3
<1> QED BY <1>7, <1>8

(* The attempts so far took the strategies in turn.                         *)
Tracks(f) ==
  /\ \A i \in DOMAIN f : f[i].strategy = "exhausted" => f[i].retrieved = 0
  /\ \A j \in 1..Len(PriorAttempts(f)) :
       PriorAttempts(f)[j].strategy = Strategies[Min({j, MaxQueryAttempts})]

(* Before the first investigation nothing was attempted.                   *)
LEMMA TracksNone == Tracks(<<>>)
<1>1. PriorAttempts(<<>>) = <<>>
  <2>1. PICK f : f = <<>> OBVIOUS
  <2>2. PICK P : P = {i \in DOMAIN f : f[i].strategy # "exhausted"} OBVIOUS
  <2>3. P = {} BY <2>1, <2>2
  <2>4. Cardinality(P) = 0 BY <2>3, FS_EmptySet
  <2>5. Increasing(P) = <<>> BY <2>4 DEF Increasing, InOrder
  <2>6. Entries(f, P) = <<>> BY <2>5 DEF Entries
  <2> QED BY <2>1, <2>2, <2>6 DEF PriorAttempts, Keeping
<1> QED BY <1>1 DEF Tracks

(* The strategies stay in turn as investigations follow each other.        *)
LEMMA TracksNext ==
  ASSUME NEW S, NEW f \in Seq(S), Tracks(f), NEW r \in S, Follows(r, PriorAttempts(f))
  PROVE  Tracks(Append(f, r))
<1>1. PICK n \in Nat : n = Len(f) /\ DOMAIN f = 1..n OBVIOUS
<1>2. PICK more : more = Append(f, r) OBVIOUS
<1>3. DOMAIN more = 1..(n + 1) /\ more[n + 1] = r /\ \A i \in 1..n : more[i] = f[i] BY <1>1, <1>2
<1>4. PICK prior : prior = PriorAttempts(f) OBVIOUS
<1>5. PICK next : next = PriorAttempts(more) OBVIOUS
<1>6. prior \in Seq(S) /\ next = IF r.strategy # "exhausted" THEN Append(prior, r) ELSE prior
  BY <1>2, <1>4, <1>5, PriorAppend
<1>7. ASSUME NEW i \in DOMAIN more, more[i].strategy = "exhausted" PROVE more[i].retrieved = 0
  <2>1. CASE i \in 1..n BY <1>1, <1>3, <1>7, <2>1 DEF Tracks
  <2>2. CASE i = n + 1 BY <1>3, <1>7, <2>2 DEF Follows
  <2> QED BY <1>3, <2>1, <2>2
<1>8. ASSUME NEW j \in 1..Len(next) PROVE next[j].strategy = Strategies[Min({j, MaxQueryAttempts})]
  <2>1. CASE r.strategy = "exhausted" BY <1>4, <1>6, <2>1 DEF Tracks
  <2>2. CASE r.strategy # "exhausted"
    <3>1. PICK m \in Nat : m = Len(prior) BY <1>6
    <3>2. next = Append(prior, r) BY <1>6, <2>2
    <3>3. Len(next) = m + 1 /\ next[m + 1] = r /\ \A k \in 1..m : next[k] = prior[k]
      BY <1>6, <3>1, <3>2
    <3>4. r.strategy = Strategies[Min({m + 1, MaxQueryAttempts})]
      BY <1>4, <2>2, <3>1 DEF Follows, NextStrategy
    <3>5. CASE j = m + 1 BY <3>3, <3>4, <3>5
    <3>6. CASE j # m + 1
      <4>1. j \in 1..m BY <3>3, <3>6
      <4> QED BY <1>4, <3>1, <3>3, <4>1 DEF Tracks
    <3> QED BY <3>5, <3>6
  <2> QED BY <2>1, <2>2
<1>9. Tracks(more) BY <1>5, <1>7, <1>8 DEF Tracks
<1> QED BY <1>2, <1>9

(* When the attempts are exhausted, every strategy was tried and none      *)
(* found anything.                                                         *)
LEMMA ExhaustedTracks ==
  ASSUME NEW S, NEW f \in Seq(S), Tracks(f), Exhausted(PriorAttempts(f))
  PROVE  /\ {Strategies[s] : s \in 1..MaxQueryAttempts} \subseteq {f[i].strategy : i \in DOMAIN f}
         /\ \A i \in DOMAIN f : f[i].retrieved = 0
<1>1. PICK prior : prior = PriorAttempts(f) OBVIOUS
<1>2. \A j \in DOMAIN prior : \E i \in DOMAIN f : prior[j] = f[i] BY <1>1, PriorAre
<1>3. \A i \in DOMAIN f : f[i].strategy # "exhausted" => \E j \in DOMAIN prior : prior[j] = f[i]
  BY <1>1, PriorAre
<1>4. Len(prior) >= MaxQueryAttempts /\ \A j \in DOMAIN prior : prior[j].retrieved = 0
  BY <1>1 DEF Exhausted
<1>5. PICK q \in 1..3 : q = MaxQueryAttempts
  <2>1. Len(Strategies) = 3 BY DEF Strategies
  <2> QED BY <2>1, GroundedCausesAssumption
<1>6. prior \in Seq(S)
  <2>1. PICK P : P = {i \in DOMAIN f : f[i].strategy # "exhausted"} OBVIOUS
  <2>2. P \in SUBSET DOMAIN f BY <2>1
  <2>3. prior = Entries(f, P) BY <1>1, <2>1 DEF PriorAttempts, Keeping
  <2> QED BY <2>2, <2>3, EntriesIn
<1>7. ASSUME NEW s \in 1..MaxQueryAttempts PROVE Strategies[s] \in {f[i].strategy : i \in DOMAIN f}
  <2>1. s \in 1..q /\ s \in Nat \ {0} BY <1>5
  <2>2. s \in 1..Len(prior) /\ s \in DOMAIN prior BY <1>4, <1>5, <1>6, <2>1
  <2>3. prior[s].strategy = Strategies[Min({s, MaxQueryAttempts})] BY <1>1, <2>2 DEF Tracks
  <2>4. Min({s, MaxQueryAttempts}) = s BY <1>5, <2>1, StrategyIs
  <2>5. PICK i \in DOMAIN f : prior[s] = f[i] BY <1>2, <2>2
  <2>6. f[i].strategy = Strategies[s] BY <2>3, <2>4, <2>5
  <2> QED BY <2>6
<1>8. ASSUME NEW i \in DOMAIN f PROVE f[i].retrieved = 0
  <2>1. CASE f[i].strategy = "exhausted" BY <2>1 DEF Tracks
  <2>2. CASE f[i].strategy # "exhausted" BY <1>3, <1>4, <2>2
  <2> QED BY <2>1, <2>2
<1> QED BY <1>7, <1>8

Grounded(in, done) ==
  \A n \in DOMAIN done :
    LET r == done[n]
        before == SubSeq(done, 1, n - 1)
        search == in[n].search
    IN /\ \A c \in DOMAIN r.causes : r.causes[c].chunk \in ToSet(search)
       /\ r.causes = <<>> => r.review
       /\ r.strategy = "exhausted" =>
            {Strategies[s] : s \in 1..MaxQueryAttempts}
              \subseteq {before[i].strategy : i \in DOMAIN before}
       /\ r.strategy = "exhausted" => \A i \in DOMAIN before : before[i].retrieved = 0

(* Every cause of every investigation is grounded, and none gives up       *)
(* early.                                                                  *)
LEMMA CausesHold ==
  ASSUME NEW in, CauseInput(in), NEW done, done = Attempts(in)
  PROVE  Grounded(in, done)
<1>1. PICK E : E = {in[i] : i \in DOMAIN in} OBVIOUS
<1>2. PICK s : s = in OBVIOUS
<1>3. s \in Seq(E) /\ \A o \in E : IsList(o.search) BY ZenonT(60), <1>1, <1>2 DEF CauseInput, IsList
<1>4. PICK S : S = Outcomes(E) OBVIOUS
<1>5. ASSUME NEW f \in Seq(S), NEW o \in E
      PROVE  /\ Investigate(f, o.search, o.answer) \in S
             /\ Cites(Investigate(f, o.search, o.answer), o.search)
             /\ Follows(Investigate(f, o.search, o.answer), PriorAttempts(f))
  <2>1. PICK prior, r : prior = PriorAttempts(f) /\ r = Investigate(f, o.search, o.answer) OBVIOUS
  <2>2. prior \in Seq(S)
    <3>1. PICK P : P = {i \in DOMAIN f : f[i].strategy # "exhausted"} OBVIOUS
    <3>2. P \in SUBSET DOMAIN f BY <3>1
    <3>3. prior = Entries(f, P) BY <2>1, <3>1 DEF PriorAttempts, Keeping
    <3> QED BY <3>2, <3>3, EntriesIn
  <2>3. Len(prior) \in Nat /\ IsList(o.search) BY <1>3, <2>2
  <2>4. r \in Outcomes(E) /\ Cites(r, o.search) /\ Follows(r, prior) BY <2>1, <2>3, InvestigateIs
  <2> QED BY <1>4, <2>1, <2>4
<1>6. TriesRuns(s, Seq(S))
  <2>1. <<>> \in Seq(S) OBVIOUS
  <2>2. \A a \in Seq(S), x \in E : Append(a, Investigate(a, x.search, x.answer)) \in Seq(S)
    <3> SUFFICES ASSUME NEW a \in Seq(S), NEW x \in E
                 PROVE  Append(a, Investigate(a, x.search, x.answer)) \in Seq(S)
      OBVIOUS
    <3>1. PICK r \in S : r = Investigate(a, x.search, x.answer) BY <1>5
    <3> QED BY <3>1
  <2> QED BY <1>3, <2>1, <2>2, TriesFold
<1>7. PICK h : TriesSteps(h, s, Seq(S)) /\ Tries(s) = h[Len(s)] BY <1>6 DEF TriesRuns
<1>8. done = Tries(s) BY <1>2 DEF Attempts, Tries
<1>9. PICK n \in Nat : n = Len(s) /\ DOMAIN s = 1..n BY <1>3
<1>10. /\ h[0] = <<>> /\ \A i \in 0..n : h[i] \in Seq(S)
       /\ \A i \in 1..n : /\ i - 1 \in 0..n
                          /\ h[i] = Append(h[i - 1], Investigate(h[i - 1], s[i].search, s[i].answer))
  BY <1>7, <1>9 DEF TriesSteps
<1>11. ASSUME NEW i \in 1..n
       PROVE  \E r \in S : /\ Cites(r, s[i].search) /\ Follows(r, PriorAttempts(h[i - 1]))
                           /\ h[i] = Append(h[i - 1], r)
  <2>1. h[i - 1] \in Seq(S) /\ s[i] \in E BY <1>3, <1>9, <1>10
  <2>2. PICK r : r = Investigate(h[i - 1], s[i].search, s[i].answer) OBVIOUS
  <2>3. r \in S /\ Cites(r, s[i].search) /\ Follows(r, PriorAttempts(h[i - 1]))
    BY <1>5, <2>1, <2>2
  <2> QED BY <1>10, <2>2, <2>3
<1> DEFINE T == {i \in 0..n : Len(h[i]) = i /\ Tracks(h[i])}
<1>12. 0 \in T BY <1>10, TracksNone
<1>13. ASSUME NEW i \in 1..n, i - 1 \in T PROVE i \in T
  <2>1. PICK r \in S : Follows(r, PriorAttempts(h[i - 1])) /\ h[i] = Append(h[i - 1], r) BY <1>11
  <2>2. h[i - 1] \in Seq(S) /\ Len(h[i - 1]) = i - 1 /\ Tracks(h[i - 1]) BY <1>10, <1>13
  <2>3. Tracks(h[i]) BY <2>1, <2>2, TracksNext
  <2>4. Len(h[i]) = i BY <2>1, <2>2
  <2> QED BY <2>3, <2>4
<1>14. \A i \in 0..n : Len(h[i]) = i /\ Tracks(h[i])
  <2> HIDE DEF T
  <2>1. 0..n \subseteq T BY <1>12, <1>13, UpTo
  <2> QED BY <2>1 DEF T
<1> DEFINE U == {i \in 0..n : \A k \in 0..i : \A j \in 1..k : h[i][j] = h[k][j]}
<1>15. 0 \in U OBVIOUS
<1>16. ASSUME NEW i \in 1..n, i - 1 \in U PROVE i \in U
  <2>1. PICK r \in S : h[i] = Append(h[i - 1], r) BY <1>11
  <2>2. h[i - 1] \in Seq(S) /\ Len(h[i - 1]) = i - 1 BY <1>10, <1>14
  <2>3. \A j \in 1..(i - 1) : h[i][j] = h[i - 1][j] BY <2>1, <2>2
  <2>4. ASSUME NEW k \in 0..i, NEW j \in 1..k PROVE h[i][j] = h[k][j]
    <3>1. CASE k = i BY <3>1
    <3>2. CASE k # i
      <4>1. k \in 0..(i - 1) /\ j \in 1..(i - 1) BY <3>2
      <4>2. h[i - 1][j] = h[k][j] BY <1>16, <4>1
      <4> QED BY <2>3, <4>1, <4>2
    <3> QED BY <3>1, <3>2
  <2> QED BY <2>4
<1>17. \A k \in 0..n : \A j \in 1..k : h[n][j] = h[k][j]
  <2> HIDE DEF U
  <2>1. 0..n \subseteq U BY <1>15, <1>16, UpTo
  <2>2. n \in U BY <2>1
  <2> QED BY <2>2 DEF U
<1>18. done = h[n] /\ done \in Seq(S) /\ Len(done) = n BY <1>7, <1>8, <1>9, <1>10, <1>14
<1>19. ASSUME NEW i \in DOMAIN done
       PROVE  /\ Cites(done[i], in[i].search)
              /\ done[i].strategy = "exhausted" =>
                   /\ {Strategies[q] : q \in 1..MaxQueryAttempts}
                        \subseteq {SubSeq(done, 1, i - 1)[j].strategy : j \in DOMAIN SubSeq(done, 1, i - 1)}
                   /\ \A j \in DOMAIN SubSeq(done, 1, i - 1) : SubSeq(done, 1, i - 1)[j].retrieved = 0
  <2>1. i \in 1..n /\ i \in 0..n /\ i - 1 \in 0..n BY <1>18
  <2>2. PICK r \in S : /\ Cites(r, s[i].search) /\ Follows(r, PriorAttempts(h[i - 1]))
                       /\ h[i] = Append(h[i - 1], r)
    BY <1>11, <2>1
  <2>3. h[i - 1] \in Seq(S) /\ Len(h[i - 1]) = i - 1 /\ Tracks(h[i - 1]) BY <1>10, <1>14, <2>1
  <2>4. done[i] = r
    <3>1. h[i][i] = r
      <4>1. PICK m \in Nat : m = i - 1 BY <2>1
      <4>2. PICK g \in Seq(S) : g = h[i - 1] BY <2>3
      <4>3. Len(g) = m /\ i = m + 1 BY <2>1, <2>3, <4>1, <4>2
      <4>4. Append(g, r)[m + 1] = r BY <4>3
      <4> QED BY <2>2, <4>2, <4>3, <4>4
    <3>2. h[n][i] = h[i][i] BY <1>17, <2>1
    <3> QED BY <1>18, <3>1, <3>2
  <2>5. SubSeq(done, 1, i - 1) = h[i - 1]
    <3>1. PICK before : before = SubSeq(done, 1, i - 1) OBVIOUS
    <3>2. PICK m \in Nat : m = i - 1 BY <2>1
    <3>3. \A j \in 1..m : done[j] = h[m][j] BY <1>17, <1>18, <2>1, <3>2
    <3>4. before \in Seq(S) /\ Len(before) = m /\ \A j \in 1..m : before[j] = done[j]
      BY <1>18, <2>1, <3>1, <3>2
    <3>5. h[m] \in Seq(S) /\ Len(h[m]) = m BY <2>3, <3>2
    <3>6. before = h[m] BY <3>3, <3>4, <3>5
    <3> QED BY <3>1, <3>2, <3>6
  <2>6. r.strategy = "exhausted" => Exhausted(PriorAttempts(h[i - 1])) BY <2>2 DEF Follows
  <2>7. ASSUME r.strategy = "exhausted"
        PROVE  /\ {Strategies[q] : q \in 1..MaxQueryAttempts}
                    \subseteq {h[i - 1][j].strategy : j \in DOMAIN h[i - 1]}
               /\ \A j \in DOMAIN h[i - 1] : h[i - 1][j].retrieved = 0
    BY <2>3, <2>6, <2>7, ExhaustedTracks
  <2>8. Cites(done[i], in[i].search) BY <1>2, <2>2, <2>4
  <2> QED BY <2>4, <2>5, <2>7, <2>8
<1> HIDE DEF T, U
<1> QED BY <1>19 DEF Cites, Grounded

-----------------------------------------------------------------------------
(* Retrieval answers soundly *)

(* Every call is one of the inputs, and what it is answered is what the code returns for it. *)
KnowledgeAnswers ==
  /\ \E op \in DOMAIN KnowledgeInputs : \E in \in KnowledgeInputs[op] :
       call = [op |-> op, in |-> in]
  /\ answer # <<>> =>
       /\ call.op = "corpus" => answer = <<ValidateCorpus(call.in)>>
       /\ call.op = "match" => answer = <<MatchForIncident(call.in.policies, call.in.metric, TRUE)>>
       /\ call.op = "split" => answer = <<SplitSentence(call.in)>>
       /\ call.op = "fuse" => answer = <<Fuse(call.in)>>
       /\ call.op = "diverse" => answer = <<DiversityFilter(call.in.candidates, call.in.k)>>
       /\ call.op = "advanced" =>
            answer = <<AdvancedSearch(call.in.points, call.in.queries,
                                      FilterCriteria(call.in.entities), call.in.k)>>
       /\ call.op = "causes" => answer = <<Attempts(call.in)>>
       /\ call.op = "walk" =>
            answer = <<Neighborhood(call.in.graph, call.in.origin, call.in.budget, {})>>
       /\ call.op = "derive" => answer = <<Derivations(call.in)>>

(* The two steps of a call keep this: an input, and the answer of the code *)
(* to it.                                                                  *)
LEMMA KnowledgeAnswersHold == KnowledgeSpec => []KnowledgeAnswers
<1>1. AskingKnowledge => KnowledgeAnswers BY DEF AskingKnowledge, Ask, KnowledgeAnswers
<1>2. KnowledgeAnswers /\ [AnsweringKnowledge]_analysisVars => KnowledgeAnswers'
  <2> SUFFICES ASSUME KnowledgeAnswers, [AnsweringKnowledge]_analysisVars PROVE KnowledgeAnswers'
    OBVIOUS
  <2>1. /\ \E op \in DOMAIN KnowledgeInputs : \E in \in KnowledgeInputs[op] :
             call = [op |-> op, in |-> in]
        /\ call' = call
    BY DEF KnowledgeAnswers, AnsweringKnowledge, AskCorpus, AskMatch, AskSplit, AskFuse, AskDiverse,
           AskAdvanced, AskCauses, AskWalk, AskDerive, Answers, analysisVars
  <2>2. CASE AskCorpus BY <2>1, <2>2 DEF AskCorpus, Asked, Answers, KnowledgeAnswers
  <2>3. CASE AskMatch BY <2>1, <2>3 DEF AskMatch, Asked, Answers, KnowledgeAnswers
  <2>4. CASE AskSplit BY <2>1, <2>4 DEF AskSplit, Asked, Answers, KnowledgeAnswers
  <2>5. CASE AskFuse BY <2>1, <2>5 DEF AskFuse, Asked, Answers, KnowledgeAnswers
  <2>6. CASE AskDiverse BY <2>1, <2>6 DEF AskDiverse, Asked, Answers, KnowledgeAnswers
  <2>7. CASE AskAdvanced BY <2>1, <2>7 DEF AskAdvanced, Asked, Answers, KnowledgeAnswers
  <2>8. CASE AskCauses BY <2>1, <2>8 DEF AskCauses, Asked, Answers, KnowledgeAnswers
  <2>9. CASE AskWalk BY <2>1, <2>9 DEF AskWalk, Asked, Answers, KnowledgeAnswers
  <2>10. CASE AskDerive BY <2>1, <2>10 DEF AskDerive, Asked, Answers, KnowledgeAnswers
  <2>11. CASE UNCHANGED analysisVars BY <2>11 DEF analysisVars, KnowledgeAnswers
  <2> QED BY <2>2, <2>3, <2>4, <2>5, <2>6, <2>7, <2>8, <2>9, <2>10, <2>11 DEF AnsweringKnowledge
<1> QED BY <1>1, <1>2, PTL DEF KnowledgeSpec

(* What is answered has the properties of retrieval, for every input of    *)
(* the assumed form.                                                       *)
LEMMA RetrievalAnswers == KnowledgeAnswers => RetrievalSound
<1> SUFFICES ASSUME KnowledgeAnswers PROVE RetrievalSound OBVIOUS
<1>0. PICK op \in DOMAIN KnowledgeInputs :
        \E in \in KnowledgeInputs[op] : call = [op |-> op, in |-> in]
  BY DEF KnowledgeAnswers
<1>1. PICK in \in KnowledgeInputs[op] : call = [op |-> op, in |-> in] BY <1>0
<1>2. call.op = op /\ call.in = in BY <1>1
<1>3. ChunksCoverText
  <2> SUFFICES ASSUME op = "split", answer # <<>> PROVE ChunksCoverText
    BY <1>2 DEF ChunksCoverText, Answered
  <2>1. SplitInput(in) BY KnowledgeInputsAssumption
  <2>2. SplitInput(call.in) /\ answer[1] = SplitSentence(call.in)
    BY <1>2, <2>1 DEF KnowledgeAnswers
  <2>3. PICK chunks : chunks = SplitSentence(call.in) OBVIOUS
  <2>4. /\ FlattenSeq([c \in DOMAIN chunks |-> chunks[c].parts]) =
             [i \in DOMAIN call.in.lengths |-> i]
        /\ \A c \in DOMAIN chunks : Whole(call.in.lengths, chunks[c].parts)
        /\ \A c \in DOMAIN chunks :
             /\ c = 1 => chunks[c].tail = 0
             /\ c > 1 => /\ chunks[c].tail <=
                               JoinedLength(call.in.lengths, chunks[c - 1].parts) + 1
                         /\ Overlap > 0 =>
                              LET before == chunks[c - 1].parts
                              IN chunks[c].tail <=
                                   Overlap + 1 + call.in.snaps[before[Len(before)]]
    BY <2>2, <2>3, SplitHolds
  <2>5. DOMAIN chunks = 1..Len(SentencesOfChunks(call.in.lengths))
        /\ Len(SentencesOfChunks(call.in.lengths)) \in Nat
    <3>1. call.in.lengths \in Seq(Nat) BY <2>2 DEF SplitInput
    <3>2. SentencesOfChunks(call.in.lengths) \in Seq(Seq(DOMAIN call.in.lengths))
      BY <3>1, ChunksHold
    <3>3. DOMAIN chunks = DOMAIN SentencesOfChunks(call.in.lengths) BY <2>3 DEF SplitSentence
    <3> QED BY <3>2, <3>3
  <2>6. ASSUME NEW c \in DOMAIN chunks
        PROVE  /\ Len(chunks[c].parts) > 1 =>
                    JoinedLength(call.in.lengths, chunks[c].parts) <= ChunkSize
               /\ Overlap > 0 =>
                    chunks[c].tail <=
                      (IF c = 1 THEN 0
                       ELSE Overlap + 1
                            + call.in.snaps[chunks[c - 1].parts[Len(chunks[c - 1].parts)]])
               /\ c > 1 => chunks[c].tail <=
                             JoinedLength(call.in.lengths, chunks[c - 1].parts) + 1
    <3>1. Len(chunks[c].parts) > 1 => JoinedLength(call.in.lengths, chunks[c].parts) <= ChunkSize
      BY <2>4 DEF Whole, TotalLength, JoinedLength
    <3>2. c = 1 \/ c > 1 BY <2>5
    <3>3. CASE c = 1
      <4>1. chunks[c].tail = 0 BY <2>4, <3>3
      <4> QED BY <3>1, <3>3, <4>1
    <3>4. CASE c > 1 BY <2>4, <3>1, <3>4
    <3> QED BY <3>2, <3>3, <3>4
  <2> QED BY <2>2, <2>3, <2>4, <2>6 DEF ChunksCoverText
<1>4. AgreedOrderKept
  <2> SUFFICES ASSUME op = "fuse", answer # <<>> PROVE AgreedOrderKept
    BY <1>2 DEF AgreedOrderKept, Answered
  <2>1. FuseInput(in) BY KnowledgeInputsAssumption
  <2>2. PICK out : out = answer[1] OBVIOUS
  <2>3. PICK a, b : a = in[1] /\ b = in[2] OBVIOUS
  <2>4. in = <<a, b>> /\ Ranked(a) /\ Ranked(b)
    <3>1. in \in Seq(Seq([id : Int, found_by : {{}}])) /\ Len(in) = 2 BY <2>1 DEF FuseInput
    <3>2. Ranked(in[1]) /\ Ranked(in[2]) BY SMTT(30), <2>1 DEF FuseInput, Ranked
    <3> QED BY <2>3, <3>1, <3>2
  <2>5. out = Fuse(<<a, b>>) BY <1>2, <2>2, <2>4 DEF KnowledgeAnswers
  <2>6. LET Ids(l) == [i \in DOMAIN l |-> l[i].id]
         IN /\ Ids(out) = Ids(Fuse(<<b, a>>))
            /\ \A i, j \in DOMAIN out : i < j =>
                 ~(/\ Place(a, out[j].id) < Place(a, out[i].id)
                   /\ Place(b, out[j].id) < Place(b, out[i].id))
    BY <2>4, <2>5, AgreedOrder
  <2> QED BY <1>2, <2>2, <2>3, <2>6 DEF AgreedOrderKept, Place
<1>5. DiverseAndFull
  <2> SUFFICES ASSUME op = "diverse", answer # <<>> PROVE DiverseAndFull
    BY <1>2 DEF DiverseAndFull, Answered
  <2>1. DiverseInput(in) BY KnowledgeInputsAssumption
  <2>2. PICK kept, candidates, k : kept = answer[1] /\ candidates = in.candidates /\ k = in.k OBVIOUS
  <2>3. kept = DiversityFilter(candidates, k) BY <1>2, <2>2 DEF KnowledgeAnswers
  <2>4. IsList(candidates) /\ k \in Nat BY <2>1, <2>2 DEF DiverseInput
  <2>5. /\ Distinct(kept)
        /\ Len(kept) < k => \A i \in DOMAIN candidates :
             candidates[i] \in ToSet(kept) \/ DuplicateOf(candidates[i], kept)
    BY <2>3, <2>4, DiverseHolds
  <2> QED BY <1>2, <2>2, <2>5 DEF DiverseAndFull, Distinct
<1>6. RelaxedOnlyWhenEmpty
  <2> SUFFICES ASSUME op = "advanced", answer # <<>> PROVE RelaxedOnlyWhenEmpty
    BY <1>2 DEF RelaxedOnlyWhenEmpty, Answered
  <2>1. AdvancedInput(in) BY KnowledgeInputsAssumption
  <2>2. PICK criteria : criteria = FilterCriteria(in.entities) OBVIOUS
  <2>3. PICK found : found = answer[1] OBVIOUS
  <2>4. found = AdvancedSearch(in.points, in.queries, criteria, in.k)
    BY <1>2, <2>2, <2>3 DEF KnowledgeAnswers
  <2>5. LET strict == MultiQuerySearch(in.points, in.queries, criteria, Max({2 * in.k, 10}))
        IN \A i \in DOMAIN found :
             /\ found[i].relaxed <=> strict = <<>>
             /\ \A j \in DOMAIN found : found[j].score > found[i].score => j < i
    BY <2>1, <2>2, <2>4, RelaxedHolds
  <2> QED BY <1>2, <2>2, <2>3, <2>5 DEF RelaxedOnlyWhenEmpty
<1>7. CausesAreGrounded
  <2> SUFFICES ASSUME op = "causes", answer # <<>> PROVE CausesAreGrounded
    BY <1>2 DEF CausesAreGrounded, Answered
  <2>1. CauseInput(in) BY KnowledgeInputsAssumption
  <2>2. CauseInput(call.in) /\ answer[1] = Attempts(call.in) BY <1>2, <2>1 DEF KnowledgeAnswers
  <2>3. Grounded(call.in, answer[1]) BY <2>2, CausesHold
  <2> QED BY <2>3 DEF CausesAreGrounded, Grounded
<1> QED BY <1>3, <1>4, <1>5, <1>6, <1>7 DEF RetrievalSound

(* Retrieval is sound, from the chunks of a document to the causes that    *)
(* cite them, for every set of inputs: nothing is lost in chunking,        *)
(* ranking or filtering, and nothing is said that no retrieved chunk says  *)
(* (chunking.py:243, hybrid_retrieval.py:401, evidence_diversity.py:118,   *)
(* advanced_retrieval.py:398, rag_agent.py:345).                           *)
THEOREM RetrievalIsSound == KnowledgeSpec => []RetrievalSound
BY KnowledgeAnswersHold, RetrievalAnswers, PTL

-----------------------------------------------------------------------------
(* Policies *)

(* How many entries there are at some positions of a list without repetition. *)
Differ(o, m) == \A i, j \in 1..m : o[i] = o[j] => i = j

(* A list without repetition has as many entries as there are positions.   *)
LEMMA OnceEach ==
  ASSUME NEW m \in Nat, NEW o, NEW S, S = {o[r] : r \in 1..m}, Differ(o, m)
  PROVE  IsFiniteSet(S) /\ Cardinality(S) = m
<1> DEFINE f == [r \in 1..m |-> o[r]]
<1>1. f \in Bijection(1..m, S) BY DEF Differ, Bijection, Injection, Surjection, IsInjective
<1>2. IsFiniteSet(1..m) /\ Cardinality(1..m) = m BY FS_Interval
<1> HIDE DEF f
<1>3. ExistsBijection(1..m, S) BY <1>1 DEF ExistsBijection
<1> QED BY <1>2, <1>3, FS_Bijection

Naming(policies, metric) ==
  {i \in DOMAIN policies : metric \in ToSet(policies[i].metrics)}

(* The policies that name the metric are matched before all others.        *)
LEMMA NamedComeFirst ==
  ASSUME NEW policies, NEW n \in Nat, DOMAIN policies = 1..n, NEW metric,
         NEW out, out = MatchForIncident(policies, metric, TRUE),
         NEW named \in SUBSET (1..n), named = Naming(policies, metric), named # {}
  PROVE  /\ ToSet(out) # {} /\ ToSet(out) \subseteq named
         /\ ToSet(out) = named \/ Cardinality(ToSet(out)) = TopK
<1>1. PICK at : at = [i \in 1..n |-> i] OBVIOUS
<1>2. at \in Seq(Int) /\ DOMAIN at = 1..n BY <1>1
<1>3. PICK l : l = Entries(at, named) OBVIOUS
<1>4. named \subseteq 1..n OBVIOUS
<1>5. l \in Seq(Int) BY <1>2, <1>3, <1>4, EntriesIn
<1>6. IsFiniteSet(named) /\ Cardinality(named) \in 0..n /\ Picks(l, at, named)
  BY <1>3, <1>4, EntriesAre
<1>7. PICK c \in Nat : c = Cardinality(named)
  <2>1. Cardinality(named) \in Nat BY <1>6
  <2> QED BY <2>1
<1>8. PICK o : /\ o \in [1..c -> named] /\ \A x \in named : \E r \in 1..c : o[r] = x
               /\ \A i, j \in 1..c : i < j <=> o[i] < o[j]
               /\ l = [r \in 1..c |-> at[o[r]]]
  BY <1>6, <1>7 DEF Picks, Lists
<1>9. \A r \in 1..c : o[r] \in named /\ l[r] = o[r] BY <1>1, <1>4, <1>8
<1>10. Len(l) = c /\ c > 0
  <2>1. DOMAIN l = 1..c BY <1>8
  <2>2. Len(l) = c BY <1>5, <2>1
  <2>3. 1..c # {} BY <1>8
  <2> QED BY <2>2, <2>3
<1>11. l # <<>> BY <1>10
<1>12. out = TopOf(l, TopK)
  <2>1. Keeping(at, LAMBDA i : metric \in ToSet(policies[i].metrics)) = l
    <3>1. {i \in DOMAIN at : metric \in ToSet(policies[at[i]].metrics)} = named BY <1>1 DEF Naming
    <3> QED BY <1>3, <3>1 DEF Keeping
  <2>2. at = [i \in DOMAIN policies |-> i] BY <1>1
  <2>3. out = SubSeq(l, 1, Min({TopK, Len(l)})) BY <1>11, <2>1, <2>2 DEF MatchForIncident
  <2> QED BY <2>3 DEF TopOf
<1>13. PICK k \in Nat : k = TopK /\ k > 0 BY PolicyRulesAssumption
<1>14. PICK m \in 0..c : /\ m = IF k <= c THEN k ELSE c
                         /\ DOMAIN out = 1..m /\ \A i \in 1..m : out[i] = l[i]
  <2>1. Tops(TopOf(l, k), l, k) BY <1>5, TopIs
  <2> QED BY <1>10, <1>12, <1>13, <2>1 DEF Tops
<1>15. \A r \in 1..m : r \in 1..c
  <2>1. m \in Int /\ c \in Int /\ m <= c /\ 0 <= m OBVIOUS
  <2> QED BY ONLY <2>1
<1>16. ToSet(out) = {o[r] : r \in 1..m}
  <2>1. \A i \in 1..m : i \in 1..c /\ out[i] = o[i] BY <1>9, <1>14, <1>15
  <2> QED BY <1>14, <2>1 DEF ToSet
<1>17. m > 0 /\ \A r \in 1..m : r \in 1..c BY <1>10, <1>13, <1>14, <1>15
<1>18. ToSet(out) # {} /\ ToSet(out) \subseteq named
  <2>1. 1 \in 1..m BY <1>17
  <2> QED BY <1>9, <1>16, <1>17, <2>1
<1>19. CASE k <= c
  <2>1. Differ(o, m)
    <3> SUFFICES ASSUME NEW i \in 1..m, NEW j \in 1..m, i # j PROVE o[i] # o[j] BY DEF Differ
    <3>1. i \in 1..c /\ j \in 1..c /\ (i < j \/ j < i) BY <1>17
    <3>2. o[i] \in Int /\ o[j] \in Int BY <1>4, <1>9, <3>1
    <3>3. o[i] < o[j] \/ o[j] < o[i] BY <1>8, <3>1
    <3> QED BY <3>2, <3>3
  <2>2. PICK T : T = {o[r] : r \in 1..m} OBVIOUS
  <2>4. m \in Nat OBVIOUS
  <2>3. Cardinality(T) = m BY <2>4, <2>1, <2>2, OnceEach
  <2> QED BY <1>13, <1>14, <1>16, <1>18, <1>19, <2>2, <2>3
<1>20. CASE ~(k <= c)
  <2>1. m = c BY <1>14, <1>20
  <2>2. named \subseteq ToSet(out) BY <1>8, <1>16, <2>1
  <2> QED BY <1>18, <2>2
<1> QED BY <1>19, <1>20

(* A policy that does not name the metric never displaces one that does    *)
(* (policy_registry.py:130).                                               *)
LEMMA NamedHolds == KnowledgeAnswers => NamedBeforeSimilar
<1> SUFFICES ASSUME KnowledgeAnswers, Answered("match") PROVE NamedBeforeSimilar
  BY DEF NamedBeforeSimilar
<1>0. PICK op \in DOMAIN KnowledgeInputs :
        \E in \in KnowledgeInputs[op] : call = [op |-> op, in |-> in]
  BY DEF KnowledgeAnswers
<1>1. PICK in \in KnowledgeInputs[op] : call = [op |-> op, in |-> in] BY <1>0
<1>2. op = "match" /\ call.op = op /\ call.in = in /\ answer # <<>> BY <1>1 DEF Answered
<1>3. MatchInput(in) BY <1>2, KnowledgeInputsAssumption
<1>4. answer = <<MatchForIncident(in.policies, in.metric, TRUE)>> BY <1>2 DEF KnowledgeAnswers
<1>5. PICK p, metric, out : p = in.policies /\ metric = in.metric /\ out = answer[1] OBVIOUS
<1>6. out = MatchForIncident(p, metric, TRUE) BY <1>4, <1>5
<1>7. PICK n \in Nat : DOMAIN p = 1..n BY <1>3, <1>5 DEF MatchInput, IsList
<1>8. PICK named : named = Naming(p, metric) OBVIOUS
<1>9. named \in SUBSET (1..n) BY <1>7, <1>8 DEF Naming
<1>10. ASSUME named # {}
       PROVE  /\ ToSet(out) # {} /\ ToSet(out) \subseteq named
              /\ ToSet(out) = named \/ Cardinality(ToSet(out)) = TopK
  BY <1>6, <1>7, <1>8, <1>9, <1>10, NamedComeFirst
<1>11. \A i \in DOMAIN p : i \in named <=> metric \in ToSet(p[i].metrics) BY <1>8 DEF Naming
<1>12. named \subseteq DOMAIN p BY <1>8 DEF Naming
<1> QED BY <1>2, <1>5, <1>10, <1>11, <1>12 DEF NamedBeforeSimilar

(* The last of the picked entries is the one at the last position.         *)
LEMMA LastKept ==
  ASSUME NEW S, NEW list \in Seq(S), NEW n \in Nat, n = Len(list), NEW P \in SUBSET (1..n),
         NEW m \in P, \A x \in P : x <= m
  PROVE  Entries(list, P) # <<>> /\ Last(Entries(list, P)) = list[m]
<1>1. PICK e : e = Entries(list, P) OBVIOUS
<1>2. e \in Seq(S)
  <2>1. P \in SUBSET DOMAIN list OBVIOUS
  <2> QED BY <1>1, <2>1, EntriesIn
<1>3. IsFiniteSet(P) /\ Cardinality(P) \in 0..n /\ Picks(e, list, P) BY <1>1, EntriesAre
<1>4. PICK c \in Nat : c = Cardinality(P)
  <2>1. Cardinality(P) \in Nat BY <1>3
  <2> QED BY <2>1
<1>5. PICK o : /\ o \in [1..c -> P] /\ \A x \in P : \E r \in 1..c : o[r] = x
               /\ \A i, j \in 1..c : i < j <=> o[i] < o[j]
               /\ e = [r \in 1..c |-> list[o[r]]]
  BY <1>3, <1>4 DEF Picks, Lists
<1>6. PICK r \in 1..c : o[r] = m BY <1>5
<1>7. r = c
  <2>1. c \in 1..c /\ (r < c \/ r = c) BY <1>6
  <2>2. o[c] \in P BY <1>5, <2>1
  <2>3. o[c] <= m BY <2>2
  <2>4. ~(o[r] < o[c])
    <3>1. o[c] \in 1..n /\ m \in 1..n BY <2>2
    <3> QED BY <1>6, <2>3, <3>1
  <2>5. ~(r < c) BY <1>5, <1>6, <2>1, <2>4
  <2> QED BY <2>1, <2>5
<1>8. Len(e) = c /\ e[c] = list[m]
  <2>1. DOMAIN e = 1..c BY <1>5
  <2>2. Len(e) = c BY <1>2, <2>1
  <2> QED BY <1>5, <1>6, <1>7, <2>2
<1>9. e # <<>> /\ Last(e) = list[m]
  <2>1. e # <<>> BY <1>6, <1>8
  <2> QED BY <1>8, <2>1 DEF Last
<1> QED BY <1>1, <1>9

(* A rule that is in force for something.                                   *)
InForce(r) == r.domain # "none" /\ r.key # "none"

KeyOf(r) == <<r.domain, r.key>>

(* What ordered rules add up to.                                            *)
Overrides(ordered) ==
  LET named == Keeping(ordered, LAMBDA r : r.domain # "none" /\ r.key # "none")
      keys == {<<named[i].domain, named[i].key>> : i \in DOMAIN named}
  IN [k \in keys |-> Last(Keeping(named, LAMBDA r : <<r.domain, r.key>> = k)).value]

(* A later rule of the same key replaces an earlier one.                    *)
Decides(f, ordered, n) ==
  /\ f = [k \in DOMAIN f |-> f[k]]
  /\ DOMAIN f = {KeyOf(ordered[i]) : i \in {j \in 1..n : InForce(ordered[j])}}
  /\ \A i \in 1..n :
       InForce(ordered[i]) /\ (\A j \in 1..n : j > i => KeyOf(ordered[j]) # KeyOf(ordered[i]))
         => f[KeyOf(ordered[i])] = ordered[i].value

(* The overrides are what the last rule of each key says                   *)
(* (policy_agent.py:296).                                                  *)
LEMMA LastDecides ==
  ASSUME NEW S, NEW ordered \in Seq(S), NEW n \in Nat, n = Len(ordered),
         NEW f, f = Overrides(ordered)
  PROVE  Decides(f, ordered, n)
<1>1. PICK Q : Q = {i \in 1..n : InForce(ordered[i])} OBVIOUS
<1>2. Q \in SUBSET (1..n) /\ DOMAIN ordered = 1..n BY <1>1
<1>3. PICK named : named = Entries(ordered, Q) OBVIOUS
<1>4. named = Keeping(ordered, LAMBDA r : r.domain # "none" /\ r.key # "none")
  BY <1>1, <1>2, <1>3 DEF Keeping, InForce
<1>5. named \in Seq(S)
  <2>1. Q \in SUBSET DOMAIN ordered BY <1>2
  <2> QED BY <1>3, <2>1, EntriesIn
<1>6. IsFiniteSet(Q) /\ Cardinality(Q) \in 0..n /\ Picks(named, ordered, Q)
  BY <1>2, <1>3, EntriesAre
<1>7. PICK c \in Nat : c = Cardinality(Q)
  <2>1. Cardinality(Q) \in Nat BY <1>6
  <2> QED BY <2>1
<1>8. PICK o : /\ o \in [1..c -> Q] /\ \A x \in Q : \E r \in 1..c : o[r] = x
               /\ \A i, j \in 1..c : i < j <=> o[i] < o[j]
               /\ named = [r \in 1..c |-> ordered[o[r]]]
  BY <1>6, <1>7 DEF Picks, Lists
<1>9. DOMAIN named = 1..c /\ Len(named) = c
  <2>1. DOMAIN named = 1..c BY <1>8
  <2> QED BY <1>5, <2>1
<1>10. PICK keys : keys = {KeyOf(named[i]) : i \in 1..c} OBVIOUS
<1>11. f = [k \in keys |-> Last(Entries(named, {i \in 1..c : KeyOf(named[i]) = k})).value]
  <2>1. f = [k \in {<<named[i].domain, named[i].key>> : i \in DOMAIN named} |->
               Last(Entries(named, {i \in DOMAIN named : <<named[i].domain, named[i].key>> = k})).value]
    BY <1>4 DEF Overrides, Keeping
  <2> QED BY <1>9, <1>10, <2>1 DEF KeyOf
<1>12. keys = {KeyOf(ordered[i]) : i \in Q}
  <2>1. ASSUME NEW k \in keys PROVE k \in {KeyOf(ordered[i]) : i \in Q}
    <3>1. PICK r \in 1..c : k = KeyOf(named[r]) BY <1>10
    <3>2. o[r] \in Q /\ named[r] = ordered[o[r]] BY <1>8
    <3> QED BY <3>1, <3>2
  <2>2. ASSUME NEW i \in Q PROVE KeyOf(ordered[i]) \in keys
    <3>1. PICK r \in 1..c : o[r] = i BY <1>8
    <3>2. named[r] = ordered[i] BY <1>8, <3>1
    <3> QED BY <1>10, <3>2
  <2> QED BY <2>1, <2>2
<1>13. ASSUME NEW i \in 1..n, InForce(ordered[i]),
              \A j \in 1..n : j > i => KeyOf(ordered[j]) # KeyOf(ordered[i])
       PROVE  f[KeyOf(ordered[i])] = ordered[i].value
  <2>1. i \in Q BY <1>1, <1>13
  <2>2. PICK r \in 1..c : o[r] = i BY <1>8, <2>1
  <2>3. PICK k : k = KeyOf(ordered[i]) OBVIOUS
  <2>4. PICK P : P = {q \in 1..c : KeyOf(named[q]) = k} OBVIOUS
  <2>5. named[r] = ordered[i] BY <1>8, <2>2
  <2>6. r \in P BY <2>3, <2>4, <2>5
  <2>7. ASSUME NEW q \in P PROVE q <= r
    <3>1. q \in 1..c /\ KeyOf(named[q]) = k BY <2>4
    <3>2. o[q] \in Q /\ named[q] = ordered[o[q]] BY <1>8, <3>1
    <3>3. o[q] \in 1..n BY <1>2, <3>2
    <3>4. ~(o[q] > i) BY <1>13, <2>3, <3>1, <3>2, <3>3
    <3>5. ~(o[r] < o[q]) BY <2>2, <3>3, <3>4
    <3>6. ~(r < q) BY <1>8, <3>1, <3>5
    <3> QED BY <3>1, <3>6
  <2>8. P \in SUBSET (1..c) BY <2>4
  <2>9. Last(Entries(named, P)) = named[r] BY <1>5, <1>9, <2>6, <2>7, <2>8, LastKept
  <2>10. k \in keys BY <1>12, <2>1, <2>3
  <2>11. f[k] = Last(Entries(named, P)).value BY <1>11, <2>4, <2>10
  <2> QED BY <2>3, <2>5, <2>9, <2>11
<1>14. DOMAIN f = {KeyOf(ordered[i]) : i \in {j \in 1..n : InForce(ordered[j])}} BY <1>1, <1>11, <1>12
<1> QED BY <1>11, <1>13, <1>14 DEF Decides

(* How many there are of two.                                              *)
LEMMA PairSize ==
  ASSUME NEW a, NEW b
  PROVE  IsFiniteSet({a, b}) /\ Cardinality({a, b}) = IF a = b THEN 1 ELSE 2
<1>1. IsFiniteSet({a}) /\ Cardinality({a}) = 1 BY FS_Singleton
<1>2. CASE a = b
  <2>1. {a, b} = {a} BY <1>2
  <2> QED BY <1>1, <1>2, <2>1
<1>3. CASE a # b
  <2>1. {a, b} = {a} \cup {b} OBVIOUS
  <2>2. b \notin {a} BY <1>3
  <2>3. IsFiniteSet({a} \cup {b}) /\ Cardinality({a} \cup {b}) = 2 BY <1>1, <2>2, FS_AddElement
  <2> QED BY <1>3, <2>1, <2>3
<1> QED BY <1>2, <1>3

Compiled(r) ==
  /\ DOMAIN r = {"domain", "key", "value"}
  /\ \/ r.domain = "none" /\ r.key = "none"
     \/ r.domain \in CuratedDomains /\ r.key \in KnownRuleKeys[r.domain]

(* A policy's shape yields a known key of its domain, or none.             *)
LEMMA KeyedByShape ==
  ASSUME NEW d \in CuratedDomains, NEW marks, NEW own, RuleKey(d, marks, own) # "none"
  PROVE  RuleKey(d, marks, own) \in KnownRuleKeys[d]
<1>1. CASE d = "sales" BY <1>1 DEF RuleKey, KnownRuleKeys
<1>2. CASE d = "complaints" BY <1>2 DEF RuleKey, KnownRuleKeys
<1>3. CASE d = "inventory" BY <1>3 DEF RuleKey, KnownRuleKeys
<1> QED BY <1>1, <1>2, <1>3 DEF CuratedDomains

(* What a policy compiles to has a known domain and key, or none.          *)
LEMMA CompileIs ==
  ASSUME NEW p, IsList(p.metrics)
  PROVE  Compiled(Compile(p))
<1>1. Compiled(NotCompilable) BY DEF Compiled, NotCompilable
<1> DEFINE domains == Keeping(p.metrics, LAMBDA m : m \in CuratedDomains)
           texts == <<p.threshold, p.condition, p.raw>>
           value == ExtractedValue(texts)
           marks == UNION {texts[i].marks : i \in DOMAIN texts}
           key == RuleKey(domains[1], marks, p.threshold.marks)
<1>2. Compile(p) = IF domains = <<>> \/ value = <<>> THEN NotCompilable
                   ELSE IF key = "none" THEN NotCompilable
                        ELSE [domain |-> domains[1], key |-> key, value |-> value[1]]
  BY DEF Compile
<1> HIDE DEF value, marks, texts
<1>3. ASSUME domains # <<>> PROVE domains[1] \in CuratedDomains
  <2>1. PICK n \in Nat : DOMAIN p.metrics = 1..n BY DEF IsList
  <2>2. PICK P : P = {i \in DOMAIN p.metrics : p.metrics[i] \in CuratedDomains} OBVIOUS
  <2>3. P \in SUBSET (1..n) /\ P \in SUBSET DOMAIN p.metrics BY <2>1, <2>2
  <2>4. domains = Entries(p.metrics, P) BY <2>2 DEF Keeping
  <2>5. IsFiniteSet(P) /\ Cardinality(P) \in 0..n /\ Picks(Entries(p.metrics, P), p.metrics, P)
    BY <2>3, EntriesAre
  <2>6. PICK c \in Nat : c = Cardinality(P)
    <3>1. Cardinality(P) \in Nat BY <2>5
    <3> QED BY <3>1
  <2>7. PICK o : o \in [1..c -> P] /\ domains = [r \in 1..c |-> p.metrics[o[r]]]
    BY <2>4, <2>5, <2>6 DEF Picks, Lists
  <2> HIDE DEF domains
  <2>8. c # 0
    <3>1. CASE c = 0
      <4>1. domains = <<>> BY <2>7, <3>1
      <4> QED BY <1>3, <4>1
    <3> QED BY <3>1
  <2>9. 1 \in 1..c BY <2>8
  <2>10. o[1] \in P /\ domains[1] = p.metrics[o[1]] BY <2>7, <2>9
  <2> QED BY <2>2, <2>10
<1> HIDE DEF domains, key
<1>4. CASE domains = <<>> \/ value = <<>> \/ key = "none" BY <1>1, <1>2, <1>4
<1>5. CASE domains # <<>> /\ value # <<>> /\ key # "none"
  <2>1. domains[1] \in CuratedDomains BY <1>3, <1>5
  <2>2. key \in KnownRuleKeys[domains[1]] BY <1>5, <2>1, KeyedByShape DEF key
  <2>3. Compile(p) = [domain |-> domains[1], key |-> key, value |-> value[1]] BY <1>2, <1>5
  <2> QED BY <2>1, <2>2, <2>3 DEF Compiled
<1> QED BY <1>4, <1>5

(* A rule is in force exactly when its domain and key are known.           *)
LEMMA ForceIsKnown ==
  ASSUME NEW r, Compiled(r)
  PROVE  InForce(r) <=> r.domain \in CuratedDomains /\ r.key \in KnownRuleKeys[r.domain]
BY DEF Compiled, InForce, CuratedDomains, KnownRuleKeys

(* A rule as it is adopted.                                                  *)
Adopts(r, at) == [domain |-> r.domain, key |-> r.key, value |-> r.value, decided_at |-> at]

(* Rules are applied in the order they were adopted.                       *)
LEMMA AdoptedInTurn ==
  ASSUME NEW x, NEW y, NEW p \in 1..2, NEW q \in 1..2, p # q, NEW rules, rules = <<x, y>>,
         rules[p].decided_at = 1, rules[q].decided_at = 2
  PROVE  ActiveOverrides(rules) = Overrides(<<rules[p], rules[q]>>)
<1> DEFINE S == {x, y}
           B == {z \in (1..2) \X (1..2) : rules[z[1]].decided_at < rules[z[2]].decided_at}
<1>1. rules \in Seq(S) /\ DOMAIN rules = 1..2 BY Z3
<1>2. PICK f : f = Ranking(rules, LAMBDA r, s : r.decided_at < s.decided_at) OBVIOUS
<1>3. ActiveOverrides(rules) = Overrides(f) BY <1>2 DEF ActiveOverrides, Overrides
<1>4. f = SortBy(rules, B)
  <2>1. {z \in (1..2) \X (1..2) :
           \/ rules[z[1]].decided_at < rules[z[2]].decided_at
           \/ ~(rules[z[2]].decided_at < rules[z[1]].decided_at) /\ z[1] < z[2]} =
        {z \in (1..2) \X (1..2) : z \in B \/ (<<z[2], z[1]>> \notin B /\ z[1] < z[2])}
    OBVIOUS
  <2> HIDE DEF B
  <2> QED BY <1>1, <1>2, <2>1 DEF Ranking, SortBy
<1>5. <<p, q>> \in B BY DEF B
<1>6. 1..2 = {p, q} OBVIOUS
<1>7. WeakOrder(1..2, B)
  <2>1. \A i \in 1..2 : rules[i].decided_at \in Int BY <1>6
  <2> DEFINE a == [i \in 1..2 |-> 0 - rules[i].decided_at]
  <2>2. \A i \in 1..2 : a[i] \in Int BY <2>1
  <2>3. \A i, j \in 1..2 : <<i, j>> \in B <=> a[i] > a[j] \/ (a[i] = a[j] /\ a[i] > a[j])
    BY <2>1
  <2> HIDE DEF a, B
  <2> QED BY <2>2, <2>3, KeyedIsWeak
<1> HIDE DEF S, B
<1>8. Sorts(f, rules, B, 2) BY <1>1, <1>4, <1>7, SortByIs
<1>9. PICK o : /\ o \in [1..2 -> 1..2] /\ \A i \in 1..2 : \E r \in 1..2 : o[r] = i
               /\ \A i, j \in 1..2 : i < j => <<o[j], o[i]>> \notin B
               /\ f = [r \in 1..2 |-> rules[o[r]]]
  BY <1>8 DEF Sorts
<1>10. o[1] = p /\ o[2] = q
  <2>1. o[1] \in 1..2 /\ o[2] \in 1..2 BY <1>9
  <2>2. <<o[2], o[1]>> \notin B BY <1>9
  <2>3. ~(o[2] = p /\ o[1] = q) BY <1>5, <2>2
  <2>4. (o[1] = p \/ o[2] = p) /\ (o[1] = q \/ o[2] = q)
    <3>1. \A i \in 1..2 : o[1] = i \/ o[2] = i
      <4>1. TAKE i \in 1..2
      <4>2. PICK r \in 1..2 : o[r] = i BY <1>9
      <4>3. r = 1 \/ r = 2 OBVIOUS
      <4> QED BY <4>2, <4>3
    <3> QED BY <3>1
  <2> QED BY <2>3, <2>4
<1>11. f = <<rules[p], rules[q]>> BY <1>9, <1>10
<1> QED BY <1>3, <1>11

(* What two rules add up to.                                                *)
Adds(f, x, y) ==
  /\ f = [k \in DOMAIN f |-> f[k]]
  /\ \A k : k \in DOMAIN f <=> (InForce(x) /\ k = KeyOf(x)) \/ (InForce(y) /\ k = KeyOf(y))
  /\ InForce(y) => f[KeyOf(y)] = y.value
  /\ InForce(x) /\ KeyOf(x) # KeyOf(y) => f[KeyOf(x)] = x.value

(* Of two rules of the same key the later one decides.                     *)
LEMMA LaterOfTwo ==
  ASSUME NEW x, NEW y, NEW f, f = Overrides(<<x, y>>)
  PROVE  Adds(f, x, y)
<1>1. PICK rules : rules = <<x, y>> OBVIOUS
<1>2. PICK S : S = {x, y} OBVIOUS
<1>3. rules \in Seq(S) /\ Len(rules) = 2 /\ rules[1] = x /\ rules[2] = y BY <1>1, <1>2, Z3
<1>4. f = Overrides(rules) BY <1>1
<1>4b. Decides(f, rules, 2)
  <2>1. 2 \in Nat /\ 2 = Len(rules) BY <1>3
  <2> QED BY <1>3, <1>4, <2>1, LastDecides
<1>5. /\ f = [k \in DOMAIN f |-> f[k]]
      /\ DOMAIN f = {KeyOf(rules[i]) : i \in {j \in 1..2 : InForce(rules[j])}}
      /\ \A i \in 1..2 :
           InForce(rules[i]) /\ (\A j \in 1..2 : j > i => KeyOf(rules[j]) # KeyOf(rules[i]))
             => f[KeyOf(rules[i])] = rules[i].value
  BY <1>4b DEF Decides
<1>6. \A k : k \in DOMAIN f <=> \E i \in 1..2 : InForce(rules[i]) /\ k = KeyOf(rules[i]) BY <1>5
<1>7. 1..2 = {1, 2} OBVIOUS
<1>8. \A k : k \in DOMAIN f <=> (InForce(x) /\ k = KeyOf(x)) \/ (InForce(y) /\ k = KeyOf(y))
  BY <1>3, <1>6, <1>7
<1>9. ASSUME InForce(y) PROVE f[KeyOf(y)] = y.value
  <2>1. \A j \in 1..2 : ~(j > 2) OBVIOUS
  <2>2. 2 \in 1..2 /\ InForce(rules[2]) BY <1>3, <1>9
  <2> QED BY <1>3, <1>5, <2>1, <2>2
<1>10. ASSUME InForce(x), KeyOf(x) # KeyOf(y) PROVE f[KeyOf(x)] = x.value
  <2>1. \A j \in 1..2 : j > 1 => j = 2 OBVIOUS
  <2>2. 1 \in 1..2 /\ InForce(rules[1]) BY <1>3, <1>10
  <2>3. \A j \in 1..2 : j > 1 => KeyOf(rules[j]) # KeyOf(rules[1]) BY <1>3, <1>10, <2>1
  <2> QED BY <1>3, <1>5, <2>2, <2>3
<1> QED BY <1>5, <1>8, <1>9, <1>10 DEF Adds

(* The order of two adoptions matters exactly when both set the same       *)
(* threshold to different values.                                          *)
LEMMA OverridesDiffer ==
  ASSUME NEW a, NEW c, NEW one, one = ActiveOverrides(<<Adopts(a, 1), Adopts(c, 2)>>),
         NEW other, other = ActiveOverrides(<<Adopts(a, 2), Adopts(c, 1)>>)
  PROVE  one # other <=> InForce(a) /\ KeyOf(a) = KeyOf(c) /\ a.value # c.value
<1>1. one = Overrides(<<Adopts(a, 1), Adopts(c, 2)>>)
  <2>1. PICK x, y : x = Adopts(a, 1) /\ y = Adopts(c, 2) OBVIOUS
  <2>2. PICK rules : rules = <<x, y>> OBVIOUS
  <2>3. rules[1].decided_at = 1 /\ rules[2].decided_at = 2 BY <2>1, <2>2 DEF Adopts
  <2>4. ActiveOverrides(rules) = Overrides(<<rules[1], rules[2]>>)
    BY <2>2, <2>3, AdoptedInTurn
  <2> QED BY <2>1, <2>2, <2>4
<1>2. other = Overrides(<<Adopts(c, 1), Adopts(a, 2)>>)
  <2>1. PICK x, y : x = Adopts(a, 2) /\ y = Adopts(c, 1) OBVIOUS
  <2>2. PICK rules : rules = <<x, y>> OBVIOUS
  <2>3. rules[1].decided_at = 2 /\ rules[2].decided_at = 1 BY <2>1, <2>2 DEF Adopts
  <2>4. ActiveOverrides(rules) = Overrides(<<rules[2], rules[1]>>)
    BY <2>2, <2>3, AdoptedInTurn
  <2> QED BY <2>1, <2>2, <2>4
<1>3. \A at : /\ (InForce(Adopts(a, at)) <=> InForce(a)) /\ KeyOf(Adopts(a, at)) = KeyOf(a)
              /\ (InForce(Adopts(c, at)) <=> InForce(c)) /\ KeyOf(Adopts(c, at)) = KeyOf(c)
              /\ Adopts(a, at).value = a.value /\ Adopts(c, at).value = c.value
  BY DEF InForce, KeyOf, Adopts
<1>4. /\ one = [k \in DOMAIN one |-> one[k]]
      /\ \A k : k \in DOMAIN one <=> (InForce(a) /\ k = KeyOf(a)) \/ (InForce(c) /\ k = KeyOf(c))
      /\ InForce(c) => one[KeyOf(c)] = c.value
      /\ InForce(a) /\ KeyOf(a) # KeyOf(c) => one[KeyOf(a)] = a.value
  <2>1. PICK x, y : x = Adopts(a, 1) /\ y = Adopts(c, 2) OBVIOUS
  <2>2. /\ (InForce(x) <=> InForce(a)) /\ KeyOf(x) = KeyOf(a) /\ x.value = a.value
        /\ (InForce(y) <=> InForce(c)) /\ KeyOf(y) = KeyOf(c) /\ y.value = c.value
    BY <1>3, <2>1
  <2>3. one = Overrides(<<x, y>>) BY <1>1, <2>1
  <2>4. Adds(one, x, y) BY <2>3, LaterOfTwo
  <2> QED BY <2>2, <2>4 DEF Adds
<1>5. /\ other = [k \in DOMAIN other |-> other[k]]
      /\ \A k : k \in DOMAIN other <=> (InForce(c) /\ k = KeyOf(c)) \/ (InForce(a) /\ k = KeyOf(a))
      /\ InForce(a) => other[KeyOf(a)] = a.value
      /\ InForce(c) /\ KeyOf(c) # KeyOf(a) => other[KeyOf(c)] = c.value
  <2>1. PICK x, y : x = Adopts(c, 1) /\ y = Adopts(a, 2) OBVIOUS
  <2>2. /\ (InForce(x) <=> InForce(c)) /\ KeyOf(x) = KeyOf(c) /\ x.value = c.value
        /\ (InForce(y) <=> InForce(a)) /\ KeyOf(y) = KeyOf(a) /\ y.value = a.value
    BY <1>3, <2>1
  <2>3. other = Overrides(<<x, y>>) BY <1>2, <2>1
  <2>4. Adds(other, x, y) BY <2>3, LaterOfTwo
  <2> QED BY <2>2, <2>4 DEF Adds
<1>6. KeyOf(a) = KeyOf(c) => (InForce(a) <=> InForce(c)) BY DEF InForce, KeyOf
<1>7. DOMAIN one = DOMAIN other
  <2>1. \A k : k \in DOMAIN one <=> k \in DOMAIN other BY <1>4, <1>5
  <2> QED BY <2>1
<1>8. CASE InForce(a) /\ KeyOf(a) = KeyOf(c)
  <2>1. one[KeyOf(a)] = c.value /\ other[KeyOf(a)] = a.value BY <1>4, <1>5, <1>6, <1>8
  <2>2. a.value # c.value => one # other BY <2>1
  <2>3. \A k \in DOMAIN one : k = KeyOf(a) BY <1>4, <1>8
  <2>4. a.value = c.value => \A k \in DOMAIN one : one[k] = other[k] BY <2>1, <2>3
  <2>5. a.value = c.value => one = other BY <1>4, <1>5, <1>7, <2>4
  <2> QED BY <1>8, <2>2, <2>5
<1>9. CASE ~(InForce(a) /\ KeyOf(a) = KeyOf(c))
  <2>1. ASSUME NEW k \in DOMAIN one PROVE one[k] = other[k]
    <3>1. CASE InForce(a) /\ k = KeyOf(a) BY <1>4, <1>5, <1>9, <3>1
    <3>2. CASE InForce(c) /\ k = KeyOf(c) BY <1>4, <1>5, <1>6, <1>9, <3>2
    <3> QED BY <1>4, <3>1, <3>2
  <2>2. one = other BY <1>4, <1>5, <1>7, <2>1
  <2> QED BY <1>9, <2>2
<1> QED BY <1>8, <1>9

(* The validator reports a threshold collision exactly then.               *)
LEMMA CollisionReported ==
  ASSUME NEW ps, DOMAIN ps = 1..2, NEW a, a = Compile(ps[1]), Compiled(a),
         NEW c, c = Compile(ps[2]), Compiled(c)
  PROVE  (\E z \in ValidateCorpus(ps) : z.type = "threshold_collision")
           <=> InForce(a) /\ KeyOf(a) = KeyOf(c) /\ a.value # c.value
<1> DEFINE On(d, k) == {i \in 1..2 : Compile(ps[i]).domain = d /\ Compile(ps[i]).key = k}
           Values(d, k) == {Compile(ps[i]).value : i \in On(d, k)}
           K == CuratedDomains \X UNION {KnownRuleKeys[d] : d \in CuratedDomains}
           Shared == {x \in K : Cardinality(On(x[1], x[2])) >= 2}
<1>1. 1..2 = {1, 2} OBVIOUS
<1>2. ThresholdConflicts(ps) =
        {[type |-> IF Cardinality(Values(x[1], x[2])) = 1 THEN "unreachable" ELSE "threshold_collision",
          policies |-> On(x[1], x[2])] : x \in Shared}
  BY DEF ThresholdConflicts
<1>3. \A z \in ActionConflicts(ps) : z.type = "action_conflict"
  <2>1. PICK Both : ActionConflicts(ps) =
                      {[type |-> "action_conflict", policies |-> {both[1], both[2]}] : both \in Both}
    BY DEF ActionConflicts
  <2> QED BY <2>1
<1>4. (\E z \in ValidateCorpus(ps) : z.type = "threshold_collision") <=>
        \E x \in Shared : Cardinality(Values(x[1], x[2])) # 1
  <2> HIDE DEF Shared, Values, On
  <2>1. (\E z \in ThresholdConflicts(ps) : z.type = "threshold_collision") <=>
          \E x \in Shared : Cardinality(Values(x[1], x[2])) # 1
    <3>1. ASSUME NEW z \in ThresholdConflicts(ps), z.type = "threshold_collision"
          PROVE  \E x \in Shared : Cardinality(Values(x[1], x[2])) # 1
      <4>1. PICK x \in Shared :
              z = [type |-> IF Cardinality(Values(x[1], x[2])) = 1 THEN "unreachable"
                            ELSE "threshold_collision", policies |-> On(x[1], x[2])]
        BY <1>2
      <4>2. Cardinality(Values(x[1], x[2])) # 1 BY <3>1, <4>1
      <4> QED BY <4>2
    <3>2. ASSUME NEW x \in Shared, Cardinality(Values(x[1], x[2])) # 1
          PROVE  \E z \in ThresholdConflicts(ps) : z.type = "threshold_collision"
      <4>1. PICK z : z = [type |-> IF Cardinality(Values(x[1], x[2])) = 1 THEN "unreachable"
                                   ELSE "threshold_collision", policies |-> On(x[1], x[2])]
        OBVIOUS
      <4>2. z.type = "threshold_collision" BY <3>2, <4>1
      <4>3. z \in ThresholdConflicts(ps) BY <1>2, <4>1
      <4> QED BY <4>2, <4>3
    <3> QED BY <3>1, <3>2
  <2> QED BY <1>3, <2>1 DEF ValidateCorpus
<1>5. ASSUME NEW d, NEW k
      PROVE  Cardinality(On(d, k)) >= 2 <=> a.domain = d /\ a.key = k /\ c.domain = d /\ c.key = k
  <2>1. On(d, k) \subseteq {1, 2} /\ (1 \in On(d, k) <=> a.domain = d /\ a.key = k)
        /\ (2 \in On(d, k) <=> c.domain = d /\ c.key = k)
    OBVIOUS
  <2> HIDE DEF On
  <2>2. Cardinality({}) = 0 /\ Cardinality({1}) = 1 /\ Cardinality({2}) = 1
    BY FS_EmptySet, FS_Singleton
  <2>3. Cardinality({1, 2}) = 2 BY PairSize
  <2>4. On(d, k) = {} \/ On(d, k) = {1} \/ On(d, k) = {2} \/ On(d, k) = {1, 2} BY <2>1
  <2> QED BY SMTT(30), <2>1, <2>2, <2>3, <2>4
<1>6. ASSUME NEW d, NEW k, a.domain = d, a.key = k, c.domain = d, c.key = k
      PROVE  Cardinality(Values(d, k)) = 1 <=> a.value = c.value
  <2>1. On(d, k) = {1, 2} BY <1>6
  <2>2. Values(d, k) = {a.value, c.value}
    <3> HIDE DEF On
    <3> QED BY <2>1
  <2> HIDE DEF Values
  <2>3. PICK v, w : v = a.value /\ w = c.value OBVIOUS
  <2>4. Cardinality({v, w}) = IF v = w THEN 1 ELSE 2 BY PairSize
  <2> QED BY <2>2, <2>3, <2>4
<1>7. <<a.domain, a.key>> \in K <=> InForce(a)
  <2>1. ASSUME InForce(a) PROVE <<a.domain, a.key>> \in K
    <3>1. a.domain \in CuratedDomains /\ a.key \in KnownRuleKeys[a.domain] BY <2>1, ForceIsKnown
    <3> QED BY <3>1
  <2>2. ASSUME <<a.domain, a.key>> \in K PROVE InForce(a)
    <3>1. a.domain \in CuratedDomains BY <2>2
    <3>2. a.domain # "none" BY <3>1 DEF CuratedDomains
    <3> QED BY <3>2 DEF Compiled, InForce, CuratedDomains, KnownRuleKeys
  <2> QED BY <2>1, <2>2
<1>8. ASSUME NEW x \in Shared, Cardinality(Values(x[1], x[2])) # 1
      PROVE  InForce(a) /\ KeyOf(a) = KeyOf(c) /\ a.value # c.value
  <2>1. x \in K /\ Cardinality(On(x[1], x[2])) >= 2 OBVIOUS
  <2> HIDE DEF On, Values, Shared
  <2>2. a.domain = x[1] /\ a.key = x[2] /\ c.domain = x[1] /\ c.key = x[2] BY <1>5, <2>1
  <2>3. a.value # c.value BY <1>6, <1>8, <2>2
  <2>4. x = <<a.domain, a.key>> BY <2>1, <2>2
  <2>5. InForce(a) BY <1>7, <2>1, <2>4
  <2> QED BY <2>2, <2>3, <2>5 DEF KeyOf
<1>9. ASSUME InForce(a), KeyOf(a) = KeyOf(c), a.value # c.value
      PROVE  \E x \in Shared : Cardinality(Values(x[1], x[2])) # 1
  <2>1. c.domain = a.domain /\ c.key = a.key BY <1>9 DEF KeyOf
  <2>2. PICK x : x = <<a.domain, a.key>> OBVIOUS
  <2>3. x \in K BY <1>7, <1>9, <2>2
  <2>4. x[1] = a.domain /\ x[2] = a.key BY <2>2
  <2> HIDE DEF On, Values, K
  <2>5. Cardinality(On(x[1], x[2])) >= 2 BY <1>5, <2>1, <2>4
  <2>6. Cardinality(Values(x[1], x[2])) # 1 BY <1>6, <1>9, <2>1, <2>4
  <2> QED BY <2>3, <2>5, <2>6
<1> HIDE DEF Shared, Values
<1> QED BY <1>4, <1>8, <1>9

(* Where the order of adoption decides, the validator foresaw it, and      *)
(* nowhere else (policy_validator.py:128, policy_agent.py:296).            *)
LEMMA CollisionsHold == KnowledgeAnswers => CollisionsForeseen
<1> SUFFICES ASSUME KnowledgeAnswers, Answered("corpus") PROVE CollisionsForeseen
  BY DEF CollisionsForeseen
<1>0. PICK op \in DOMAIN KnowledgeInputs :
        \E in \in KnowledgeInputs[op] : call = [op |-> op, in |-> in]
  BY DEF KnowledgeAnswers
<1>1. PICK in \in KnowledgeInputs[op] : call = [op |-> op, in |-> in] BY <1>0
<1>2. op = "corpus" /\ call.op = op /\ call.in = in /\ answer # <<>> BY <1>1 DEF Answered
<1>3. CorpusInput(in) BY <1>2, KnowledgeInputsAssumption
<1>4. answer[1] = ValidateCorpus(in) BY <1>2 DEF KnowledgeAnswers
<1>5. PICK a, c : a = Compile(in[1]) /\ c = Compile(in[2]) OBVIOUS
<1>6. DOMAIN in = 1..2 /\ IsList(in[1].metrics) /\ IsList(in[2].metrics) BY <1>3 DEF CorpusInput
<1>7. Compiled(a) /\ Compiled(c) BY <1>5, <1>6, CompileIs
<1>8. PICK one, other : /\ one = ActiveOverrides(<<Adopts(a, 1), Adopts(c, 2)>>)
                        /\ other = ActiveOverrides(<<Adopts(a, 2), Adopts(c, 1)>>)
  OBVIOUS
<1>9. one # other <=> InForce(a) /\ KeyOf(a) = KeyOf(c) /\ a.value # c.value
  BY <1>8, OverridesDiffer
<1>10. (\E z \in ValidateCorpus(in) : z.type = "threshold_collision")
         <=> InForce(a) /\ KeyOf(a) = KeyOf(c) /\ a.value # c.value
  BY <1>5, <1>6, <1>7, CollisionReported
<1>11. one # other <=> \E z \in answer[1] : z.type = "threshold_collision" BY <1>4, <1>9, <1>10
<1> QED BY <1>2, <1>5, <1>8, <1>11 DEF CollisionsForeseen, Adopts

-----------------------------------------------------------------------------
(* The walk over the business graph *)

(* What a walk is over: its edges are strong enough, its nodes are theirs.   *)
Knots(in) == {in.origin} \cup UNION {{e[1], e[3]} : e \in DOMAIN in.graph.edges}

IsStrong(in, e) == in.graph.edges[e].confidence >= in.budget.min_confidence

Touches(in, F) == {e \in DOMAIN in.graph.edges : {e[1], e[3]} \cap F # {} /\ IsStrong(in, e)}

Strong(in, m, n) == \E e \in DOMAIN in.graph.edges : {e[1], e[3]} = {m, n} /\ IsStrong(in, e)

(* The edges a hop follows.                                                  *)
Followed(found, in, F, limit) ==
  /\ found \in Seq(Touches(in, F)) /\ Len(found) <= limit
  /\ Len(found) < limit => \A e \in Touches(in, F) : \E i \in 1..Len(found) : found[i] = e

(* The edges that touch the frontier are strong edges of the graph; when   *)
(* fewer than the limit were found, all of them were.                      *)
LEMMA TouchIs ==
  ASSUME NEW in, WalkInput(in), NEW F, NEW limit \in Nat,
         NEW found, found = ListTouching(in.graph, F, limit, in.budget.min_confidence, {})
  PROVE  Followed(found, in, F, limit)
<1>1. PICK at : at = Touches(in, F) OBVIOUS
<1> DEFINE x(e) == in.graph.edges[e]
           Before(d, e) == \/ x(d).confidence > x(e).confidence
                           \/ x(d).confidence = x(e).confidence /\ x(d).count > x(e).count
                           \/ /\ x(d).confidence = x(e).confidence
                              /\ x(d).count = x(e).count /\ x(d).id < x(e).id
           R == {p \in at \X at : Before(p[1], p[2])}
           o == InOrder(at, R)
<1>2. found = SubSeq(o, 1, Min({limit, Cardinality(at)}))
  BY <1>1 DEF ListTouching, Touches, IsStrong
<1>3. IsFiniteSet(at)
  <2>1. at \subseteq DOMAIN in.graph.edges /\ IsFiniteSet(DOMAIN in.graph.edges)
    BY <1>1 DEF Touches, WalkInput
  <2> QED BY <2>1, FS_Subset
<1>4. StrictOrder(at, R)
  <2>1. \A e \in at : x(e).confidence \in Int /\ x(e).count \in Int /\ x(e).id \in Int
    BY <1>1 DEF Touches, WalkInput
  <2>2. \A d, e \in at : x(d).id = x(e).id => d = e BY <1>1 DEF Touches, WalkInput
  <2>3. \A e \in at : ~Before(e, e) BY <2>1
  <2>4. ASSUME NEW c \in at, NEW d \in at, NEW e \in at, Before(c, d), Before(d, e)
        PROVE  Before(c, e)
    BY <2>1, <2>4
  <2>5. ASSUME NEW d \in at, NEW e \in at, d # e PROVE Before(d, e) \/ Before(e, d)
    BY <2>1, <2>2, <2>5
  <2>6. \A d, e \in at : <<d, e>> \in R <=> Before(d, e) OBVIOUS
  <2> HIDE DEF Before, R
  <2> QED BY <2>3, <2>4, <2>5, <2>6 DEF StrictOrder
<1> HIDE DEF R
<1>5. PICK c \in Nat : c = Cardinality(at)
  <2>1. Cardinality(at) \in Nat BY <1>3, FS_CardinalityType
  <2> QED BY <2>1
<1>6. o \in [1..c -> at] /\ \A e \in at : \E r \in 1..c : o[r] = e
  <2> HIDE DEF o
  <2>1. /\ o \in [1..Cardinality(at) -> at]
        /\ \A e \in at : \E r \in 1..Cardinality(at) : o[r] = e
    BY <1>3, <1>4, InOrderIs DEF o
  <2> QED BY <1>5, <2>1
<1> HIDE DEF o
<1>7. o \in Seq(at) /\ Len(o) = c BY <1>6
<1>8. found = TopOf(o, limit) BY <1>2, <1>5, <1>7 DEF TopOf
<1>9. found \in Seq(at) /\ Tops(found, o, limit) BY <1>7, <1>8, TopIs
<1>10. PICK m \in 0..c : /\ m = IF limit <= c THEN limit ELSE c
                         /\ DOMAIN found = 1..m /\ \A i \in 1..m : found[i] = o[i]
  BY <1>7, <1>9 DEF Tops
<1>11. Len(found) = m BY <1>9, <1>10
<1>12. Len(found) <= limit BY <1>5, <1>10, <1>11
<1>13. ASSUME Len(found) < limit, NEW e \in at PROVE \E i \in 1..Len(found) : found[i] = e
  <2>1. m = c BY <1>5, <1>10, <1>11, <1>13
  <2>2. PICK r \in 1..c : o[r] = e BY <1>6
  <2> QED BY <1>10, <1>11, <2>1, <2>2
<1> QED BY <1>1, <1>9, <1>12, <1>13 DEF Followed

(* How a node was reached, and what the walk knows.                          *)
Ways(in) == [confidence : Int, depth : Nat, path : Seq(Knots(in))]

Bests(in) == UNION {[S -> Ways(in)] : S \in SUBSET Knots(in)}

States(in) ==
  [best : Bests(in), next : SUBSET Knots(in), edges : Nat, depth : Nat, full : BOOLEAN,
   over : BOOLEAN, why : {"none", "edges", "nodes", "depth"}]

(* What a walk knows, node by node.                                        *)
LEMMA BestIs ==
  ASSUME NEW in, NEW f
  PROVE  f \in Bests(in) <=> /\ DOMAIN f \subseteq Knots(in) /\ f = [n \in DOMAIN f |-> f[n]]
                             /\ \A n \in DOMAIN f : f[n] \in Ways(in)
BY DEF Bests

(* A node more, and how it was reached.                                      *)
Meets(in, f, best, n, way) ==
  /\ f \in Bests(in) /\ DOMAIN f = DOMAIN best \cup {n} /\ f[n] = way
  /\ \A m \in DOMAIN best \ {n} : f[m] = best[m]

(* A walk knows one node more, or what it knew.                            *)
LEMMA MeetingIs ==
  ASSUME NEW in, NEW best \in Bests(in), NEW n \in Knots(in), NEW way \in Ways(in),
         NEW f, f = Meeting(best, n, way)
  PROVE  Meets(in, f, best, n, way)
<1>1. DOMAIN f = DOMAIN best \cup {n} /\ f = [m \in DOMAIN f |-> f[m]] BY DEF Meeting
<1>2. f[n] = way /\ \A m \in DOMAIN best \ {n} : f[m] = best[m] BY DEF Meeting
<1>3. \A m \in DOMAIN f : f[m] \in Ways(in) BY <1>1, <1>2, BestIs
<1>4. DOMAIN f \subseteq Knots(in) BY <1>1, BestIs
<1> QED BY <1>1, <1>2, <1>3, <1>4, BestIs DEF Meets

(* The states a hop that starts at a frontier goes through.                  *)
Around(in, F) == {w \in States(in) : F \subseteq DOMAIN w.best /\ w.next \subseteq DOMAIN w.best}

(* What following one edge does.                                             *)
Moves(w, v, e) ==
  /\ DOMAIN w.best \subseteq DOMAIN v.best /\ DOMAIN v.best \ v.next \subseteq DOMAIN w.best \ w.next
  /\ v.why = w.why /\ v.over = w.over /\ v.depth = w.depth /\ v.edges <= w.edges + 1
  /\ ~v.full => ~w.full /\ e[1] \in DOMAIN v.best /\ e[3] \in DOMAIN v.best

Through(in, w, d, from, to, e) ==
  [confidence |-> w.best[from].confidence * in.graph.edges[e].confidence, depth |-> d,
   path |-> Append(w.best[from].path, to)]

(* The four things following an edge can come to.                            *)
Crosses(in, d, w, v, e, from, to) ==
  \/ w.full /\ v = w
  \/ ~w.full /\ to \in DOMAIN w.best /\ v = [w EXCEPT !.edges = @ + 1]
  \/ /\ ~w.full /\ to \notin DOMAIN w.best
     /\ Cardinality(DOMAIN w.best) >= in.budget.max_nodes
     /\ v = [w EXCEPT !.edges = @ + 1, !.full = TRUE]
  \/ /\ ~w.full /\ to \notin DOMAIN w.best
     /\ ~(Cardinality(DOMAIN w.best) >= in.budget.max_nodes)
     /\ v = [w EXCEPT !.edges = @ + 1, !.next = @ \cup {to},
                      !.best = Meeting(w.best, to, Through(in, w, d, from, to, e))]

(* Crossing an edge leaves the walk as it was, or meets the other end.     *)
LEMMA CrossIs ==
  ASSUME NEW in, NEW F, NEW w, NEW e \in Touches(in, F), NEW d,
         NEW v, v = Cross(in.graph, in.budget, d, F, w, e)
  PROVE  \E from \in F, to \in Knots(in) :
           /\ from \in Knots(in) /\ {from, to} = {e[1], e[3]} /\ Crosses(in, d, w, v, e, from, to)
<1>1. PICK ends : ends = Crossing(e, F) OBVIOUS
<1>2. PICK from, to : from = ends[1] /\ to = ends[2] OBVIOUS
<1>3. ends = <<from, to>> /\ from \in F /\ {from, to} = {e[1], e[3]}
  <2>1. e[1] \in F \/ (e[1] \notin F /\ e[3] \in F) BY DEF Touches
  <2>2. CASE e[1] \in F
    <3>1. ends = <<e[1], e[3]>> BY <1>1, <2>2 DEF Crossing
    <3> QED BY <1>2, <2>2, <3>1
  <2>3. CASE e[1] \notin F /\ e[3] \in F
    <3>1. ends = <<e[3], e[1]>> BY <1>1, <2>3 DEF Crossing
    <3> QED BY <1>2, <2>3, <3>1
  <2> QED BY <2>1, <2>2, <2>3
<1>4. from \in Knots(in) /\ to \in Knots(in)
  <2>1. e \in DOMAIN in.graph.edges BY DEF Touches
  <2> QED BY <1>3, <2>1 DEF Knots
<1>5. ends # <<>> BY <1>3
<1>6. Crosses(in, d, w, v, e, from, to)
  <2>1. CASE w.full
    <3>1. v = w BY <1>1, <2>1 DEF Cross
    <3> QED BY <2>1, <3>1 DEF Crosses
  <2>2. CASE ~w.full /\ to \in DOMAIN w.best
    <3>1. v = [w EXCEPT !.edges = @ + 1] BY <1>1, <1>2, <2>2 DEF Cross
    <3> QED BY <2>2, <3>1 DEF Crosses
  <2>3. CASE ~w.full /\ to \notin DOMAIN w.best
    <3>1. v = LET over == [w EXCEPT !.edges = @ + 1]
              IN IF Cardinality(DOMAIN w.best) >= in.budget.max_nodes THEN [over EXCEPT !.full = TRUE]
                 ELSE LET prev == w.best[from]
                          reached == [confidence |-> prev.confidence * in.graph.edges[e].confidence,
                                      depth |-> d, path |-> Append(prev.path, to)]
                      IN [over EXCEPT !.best = Meeting(@, to, reached), !.next = @ \cup {to}]
      <4>1. ends[1] = from /\ ends[2] = to /\ ends # <<>> BY <1>2, <1>5
      <4>2. ~(w.full) /\ ~(ends = <<>> \/ ends[2] \in DOMAIN w.best) BY <2>3, <4>1
      <4> QED BY <1>1, <4>1, <4>2 DEF Cross
    <3>2. CASE Cardinality(DOMAIN w.best) >= in.budget.max_nodes
      BY <2>3, <3>1, <3>2 DEF Crosses
    <3>3. CASE ~(Cardinality(DOMAIN w.best) >= in.budget.max_nodes)
      BY <2>3, <3>1, <3>3 DEF Crosses, Through
    <3> QED BY <3>2, <3>3
  <2> QED BY <2>1, <2>2, <2>3
<1> QED BY <1>3, <1>4, <1>6

(* A state with other ways and another frontier, one edge later.             *)
Becomes(v, w, f, x, full) ==
  v = [w EXCEPT !.edges = @ + 1, !.full = full, !.next = x, !.best = f]

Later(in, v, w, f, x, full) ==
  /\ v \in States(in) /\ v.best = f /\ v.next = x /\ v.why = w.why /\ v.over = w.over
  /\ v.depth = w.depth /\ v.edges = w.edges + 1 /\ v.full = full

(* Such a change stays within the states of a walk.                        *)
LEMMA NextState ==
  ASSUME NEW in, NEW w \in States(in), NEW f \in Bests(in), NEW x \in SUBSET Knots(in),
         NEW full \in BOOLEAN, NEW v, Becomes(v, w, f, x, full)
  PROVE  Later(in, v, w, f, x, full)
<1>1. w.edges + 1 \in Nat BY DEF States
<1>2. v = [best |-> f, next |-> x, edges |-> w.edges + 1, depth |-> w.depth, full |-> full,
           over |-> w.over, why |-> w.why]
  BY DEF States, Becomes
<1> QED BY <1>1, <1>2 DEF States, Later

(* Crossing an edge stays within the budget and forgets nothing.           *)
LEMMA CrossMoves ==
  ASSUME NEW in, WalkInput(in), NEW F, NEW w \in Around(in, F), NEW e \in Touches(in, F),
         NEW d \in Nat, NEW v, v = Cross(in.graph, in.budget, d, F, w, e)
  PROVE  v \in Around(in, F) /\ Moves(w, v, e)
<1>1. PICK from \in F, to \in Knots(in) :
        from \in Knots(in) /\ {from, to} = {e[1], e[3]} /\ Crosses(in, d, w, v, e, from, to)
  BY CrossIs
<1>2. PICK b \in Bests(in), x \in SUBSET Knots(in), k \in Nat :
        b = w.best /\ x = w.next /\ k = w.edges
  BY DEF Around, States
<1>3. /\ w \in States(in) /\ F \subseteq DOMAIN b /\ x \subseteq DOMAIN b /\ from \in DOMAIN b
      /\ w.full \in BOOLEAN
  BY <1>2 DEF Around, States
<1>4. e[1] \in {from, to} /\ e[3] \in {from, to} BY <1>1
<1>5. CASE w.full /\ v = w
  <2>1. v.edges <= w.edges + 1 BY <1>2, <1>5
  <2> QED BY <1>5, <2>1 DEF Moves
<1>6. ASSUME NEW f \in Bests(in), NEW y \in SUBSET Knots(in), NEW full \in BOOLEAN,
             Becomes(v, w, f, y, full),
             DOMAIN b \subseteq DOMAIN f, y \subseteq DOMAIN f, DOMAIN f \ y \subseteq DOMAIN b \ x,
             ~full => ~w.full /\ to \in DOMAIN f
      PROVE  v \in Around(in, F) /\ Moves(w, v, e)
  <2>1. /\ v \in States(in) /\ v.best = f /\ v.next = y /\ v.why = w.why /\ v.over = w.over
        /\ v.depth = w.depth /\ v.edges = w.edges + 1 /\ v.full = full
    <3>1. Later(in, v, w, f, y, full) BY <1>3, <1>6, NextState
    <3> QED BY <3>1 DEF Later
  <2>2. v \in Around(in, F)
    <3>2. F \subseteq DOMAIN v.best /\ v.next \subseteq DOMAIN v.best BY <1>3, <1>6, <2>1
    <3> QED BY <2>1, <3>2 DEF Around
  <2>3. ~full => e[1] \in DOMAIN f /\ e[3] \in DOMAIN f BY <1>3, <1>4, <1>6
  <2>4. v.edges <= w.edges + 1 BY <1>2, <2>1
  <2> QED BY <1>2, <1>6, <2>1, <2>2, <2>3, <2>4 DEF Moves
<1>7. CASE ~w.full /\ to \in DOMAIN w.best /\ v = [w EXCEPT !.edges = @ + 1]
  <2>1. Becomes(v, w, b, x, w.full) BY <1>2, <1>3, <1>7 DEF States, Becomes
  <2> QED BY <1>2, <1>3, <1>6, <1>7, <2>1
<1>8. CASE ~w.full /\ to \notin DOMAIN w.best /\ v = [w EXCEPT !.edges = @ + 1, !.full = TRUE]
  <2>1. Becomes(v, w, b, x, TRUE) BY <1>2, <1>3, <1>8 DEF States, Becomes
  <2> QED BY <1>2, <1>3, <1>6, <1>8, <2>1
<1>9. CASE /\ ~w.full /\ to \notin DOMAIN w.best
           /\ v = [w EXCEPT !.edges = @ + 1, !.next = @ \cup {to},
                            !.best = Meeting(w.best, to, Through(in, w, d, from, to, e))]
  <2>1. PICK way : way = Through(in, w, d, from, to, e) OBVIOUS
  <2>2. way \in Ways(in)
    <3>1. b[from] \in Ways(in) BY <1>3, BestIs
    <3>2. PICK old \in Ways(in) : old = w.best[from] BY <1>2, <3>1
    <3>3. old.confidence \in Int /\ old.path \in Seq(Knots(in)) BY DEF Ways
    <3>4. in.graph.edges[e].confidence \in Int BY DEF WalkInput, Touches
    <3>5. PICK m \in Int, n \in Int : m = old.confidence /\ n = in.graph.edges[e].confidence
      BY <3>3, <3>4
    <3>6. m * n \in Int /\ Append(old.path, to) \in Seq(Knots(in)) BY <3>3
    <3>7. way = [confidence |-> m * n, depth |-> d, path |-> Append(old.path, to)]
      BY <2>1, <3>2, <3>5 DEF Through
    <3> QED BY <3>6, <3>7 DEF Ways
  <2>3. PICK f : f = Meeting(b, to, way) OBVIOUS
  <2>4. f \in Bests(in) /\ DOMAIN f = DOMAIN b \cup {to}
    <3>1. Meets(in, f, b, to, way) BY <2>2, <2>3, MeetingIs
    <3> QED BY <3>1 DEF Meets
  <2>5. PICK y \in SUBSET Knots(in) : y = x \cup {to}
    <3>1. x \cup {to} \in SUBSET Knots(in) OBVIOUS
    <3> QED BY <3>1
  <2>6. Becomes(v, w, f, y, w.full) BY <1>2, <1>3, <1>9, <2>1, <2>3, <2>5 DEF States, Becomes
  <2>7. DOMAIN b \subseteq DOMAIN f /\ y \subseteq DOMAIN f /\ DOMAIN f \ y \subseteq DOMAIN b \ x
    BY <1>3, <2>4, <2>5
  <2> QED BY <1>3, <1>6, <1>9, <2>4, <2>6, <2>7
<1> QED BY <1>1, <1>5, <1>7, <1>8, <1>9 DEF Crosses

(* A way there really is.                                                    *)
Leads(in, way, n) ==
  /\ Len(way.path) > 0 /\ way.depth = Len(way.path) - 1
  /\ way.path[1] = in.origin /\ way.path[Len(way.path)] = n
  /\ \A i \in 2..Len(way.path) : Strong(in, way.path[i - 1], way.path[i])

(* What the walk knows after some hops: ways that lead there, no longer than *)
(* that, those met in the last hop exactly that long, and not too many.      *)
Knows(in, w, d) ==
  /\ in.origin \in DOMAIN w.best
  /\ \A n \in DOMAIN w.best : Leads(in, w.best[n], n) /\ w.best[n].depth <= d
  /\ \A n \in w.next : w.best[n].depth = d
  /\ IsFiniteSet(DOMAIN w.best) /\ Cardinality(DOMAIN w.best) <= in.budget.max_nodes

From(w, F, d) == \A n \in F : w.best[n].depth = d - 1

(* A path that leads to a node, with one strong edge more.                 *)
LEMMA WayExtends ==
  ASSUME NEW in, NEW way \in Ways(in), NEW m, Leads(in, way, m), NEW n \in Knots(in),
         Strong(in, m, n), NEW d \in Nat, way.depth = d - 1,
         NEW c, NEW longer, longer = [confidence |-> c, depth |-> d, path |-> Append(way.path, n)]
  PROVE  Leads(in, longer, n)
<1>1. PICK p \in Seq(Knots(in)) : p = way.path BY DEF Ways
<1>2. PICK k \in Nat : k = Len(p) OBVIOUS
<1>3. PICK q : q = Append(p, n) OBVIOUS
<1>4. /\ q \in Seq(Knots(in)) /\ Len(q) = k + 1 /\ q[k + 1] = n /\ \A i \in 1..k : q[i] = p[i]
  BY <1>1, <1>2, <1>3
<1>5. /\ k > 0 /\ d - 1 = k - 1 /\ p[1] = in.origin /\ p[k] = m
      /\ \A i \in 2..k : Strong(in, p[i - 1], p[i])
  BY <1>1, <1>2 DEF Leads
<1>6. ASSUME NEW i \in 2..(k + 1) PROVE Strong(in, q[i - 1], q[i])
  <2>1. CASE i \in 2..k
    <3>1. i - 1 \in 1..k /\ i \in 1..k BY <2>1
    <3> QED BY <1>4, <1>5, <2>1, <3>1
  <2>2. CASE i = k + 1
    <3>1. i - 1 = k /\ k \in 1..k BY <1>5, <2>2
    <3> QED BY <1>4, <1>5, <2>2, <3>1
  <2> QED BY <2>1, <2>2
<1>7. longer.path = q /\ longer.depth = d BY <1>1, <1>3
<1>8. q[1] = in.origin
  <2>1. 1 \in 1..k BY <1>5
  <2> QED BY <1>4, <1>5, <2>1
<1> QED BY <1>4, <1>5, <1>6, <1>7, <1>8 DEF Leads

(* Every path the walk knows still exists in the graph                     *)
(* (business_graph.py:274).                                                *)
LEMMA CrossKnows ==
  ASSUME NEW in, WalkInput(in), NEW F, NEW w \in Around(in, F), NEW e \in Touches(in, F),
         NEW d \in Nat, NEW v, v = Cross(in.graph, in.budget, d, F, w, e),
         Knows(in, w, d), From(w, F, d)
  PROVE  Knows(in, v, d) /\ From(v, F, d)
<1>1. PICK from \in F, to \in Knots(in) :
        from \in Knots(in) /\ {from, to} = {e[1], e[3]} /\ Crosses(in, d, w, v, e, from, to)
  BY CrossIs
<1>2. /\ w \in States(in) /\ F \subseteq DOMAIN w.best /\ w.next \subseteq DOMAIN w.best
      /\ w.best \in Bests(in)
  BY DEF Around, States
<1>3. from \in DOMAIN w.best BY <1>2
<1>4. CASE w.full /\ v = w BY <1>4
<1>5. CASE v = [w EXCEPT !.edges = @ + 1] \/ v = [w EXCEPT !.edges = @ + 1, !.full = TRUE]
  <2>1. v.best = w.best /\ v.next = w.next BY <1>2, <1>5 DEF States
  <2> QED BY <2>1 DEF Knows, From
<1>6. CASE /\ to \notin DOMAIN w.best /\ ~(Cardinality(DOMAIN w.best) >= in.budget.max_nodes)
           /\ v = [w EXCEPT !.edges = @ + 1, !.next = @ \cup {to},
                            !.best = Meeting(w.best, to, Through(in, w, d, from, to, e))]
  <2>1. PICK way : way = Through(in, w, d, from, to, e) OBVIOUS
  <2>2. PICK old : old = w.best[from] OBVIOUS
  <2>3. old \in Ways(in) /\ Leads(in, old, from) /\ old.depth = d - 1
    BY <1>2, <1>3, <2>2, BestIs DEF Knows, From
  <2>4. Strong(in, from, to) BY <1>1 DEF Touches, Strong
  <2>5. PICK c : c = old.confidence * in.graph.edges[e].confidence OBVIOUS
  <2>6. way = [confidence |-> c, depth |-> d, path |-> Append(old.path, to)]
    BY <2>1, <2>2, <2>5 DEF Through
  <2>7. Leads(in, way, to) BY <2>3, <2>4, <2>6, WayExtends
  <2>8. PICK f : f = Meeting(w.best, to, way) OBVIOUS
  <2>9. /\ DOMAIN f = DOMAIN w.best \cup {to} /\ f[to] = way
        /\ \A m \in DOMAIN w.best : f[m] = w.best[m]
    BY <1>6, <2>8 DEF Meeting
  <2>10. v.best = f /\ v.next = w.next \cup {to} BY <1>2, <1>6, <2>1, <2>8 DEF States
  <2>11. way.depth = d BY <2>6
  <2>12. /\ IsFiniteSet(DOMAIN f) /\ Cardinality(DOMAIN f) <= in.budget.max_nodes
    <3>1. IsFiniteSet(DOMAIN w.best) /\ Cardinality(DOMAIN w.best) \in Nat
      BY FS_CardinalityType DEF Knows
    <3>2. in.budget.max_nodes \in Nat BY DEF WalkInput
    <3>3. IsFiniteSet(DOMAIN f) /\ Cardinality(DOMAIN f) = Cardinality(DOMAIN w.best) + 1
      BY <1>6, <2>9, <3>1, FS_AddElement
    <3> QED BY <1>6, <3>1, <3>2, <3>3
  <2>13. \A n \in DOMAIN f : Leads(in, f[n], n) /\ f[n].depth <= d
    BY <2>7, <2>9, <2>11 DEF Knows
  <2>14. \A n \in w.next \cup {to} : f[n].depth = d BY <1>2, <2>9, <2>11 DEF Knows
  <2>15. \A n \in F : f[n].depth = d - 1 BY <1>2, <2>9 DEF From
  <2> QED BY <2>9, <2>10, <2>12, <2>13, <2>14, <2>15 DEF Knows, From
<1> QED BY <1>1, <1>4, <1>5, <1>6 DEF Crosses

(* The edges of a hop, one after the other.                                 *)
Crossed(in, d, F, begun, s) == FoldLeft(LAMBDA a, x : Cross(in.graph, in.budget, d, F, a, x), begun, s)

CrossedSteps(h, s, V, in, d, F, begun) ==
  /\ h \in [0..Len(s) -> V] /\ h[0] = begun
  /\ \A i \in 1..Len(s) : i - 1 \in 0..Len(s) /\ h[i] = Cross(in.graph, in.budget, d, F, h[i - 1], s[i])

CrossedRuns(s, V, in, d, F, begun) == \E h : CrossedSteps(h, s, V, in, d, F, begun) /\ Crossed(in, d, F, begun, s) = h[Len(s)]

(* Such a fold goes through one step per entry of the list.                 *)
LEMMA CrossedFold ==
  ASSUME NEW in, NEW d, NEW F, NEW begun, NEW E, NEW s \in Seq(E), NEW V, begun \in V,
         \A a \in V, x \in E : Cross(in.graph, in.budget, d, F, a, x) \in V
  PROVE  CrossedRuns(s, V, in, d, F, begun)
<1> DEFINE base == begun
           g == [p \in V \X E |-> Cross(in.graph, in.budget, d, F, p[1], p[2])]
           Iter(f) == f = [S \in SUBSET DOMAIN s |->
             IF S = {} THEN base ELSE Cross(in.graph, in.budget, d, F, f[S \ {Max(S)}], s[Max(S)])]
           it == CHOOSE f : Iter(f)
<1>1. base \in V /\ g \in [V \X E -> V] OBVIOUS
<1>2. \A a \in V, x \in E : g[<<a, x>>] = Cross(in.graph, in.budget, d, F, a, x) OBVIOUS
<1>3. Crossed(in, d, F, begun, s) = it[DOMAIN s] BY DEF Crossed, FoldLeft, MapThenFoldSet
<1> HIDE DEF g, base
<1>4. PICK f : Folds(f, s, E, V, base, g) BY <1>1, FoldExists
<1>5. \A S \in SUBSET DOMAIN s : S # {} =>
        f[S] = Cross(in.graph, in.budget, d, F, f[S \ {Max(S)}], s[Max(S)])
  BY <1>2, <1>4 DEF Folds
<1>6. Iter(f) BY <1>4, <1>5 DEF Folds
<1>7. Iter(it) BY <1>6
<1> HIDE DEF it
<1>8. Unfolds(it, s, E, V, base, g) BY <1>2, <1>7 DEF Unfolds
<1>9. PICK h : FoldRun(h, s, E, V, base, g) /\ it[DOMAIN s] = h[Len(s)]
  <2>1. Reaches(it, s, E, V, base, g) BY <1>1, <1>8, FoldRuns
  <2> QED BY <2>1 DEF Reaches
<1>10. CrossedSteps(h, s, V, in, d, F, begun) BY <1>2, <1>9 DEF FoldRun, CrossedSteps, base
<1> QED BY <1>3, <1>9, <1>10 DEF CrossedRuns

(* What following several edges does.                                        *)
Moved(w, v, s, n) ==
  /\ DOMAIN w.best \subseteq DOMAIN v.best /\ DOMAIN v.best \ v.next \subseteq DOMAIN w.best \ w.next
  /\ v.why = w.why /\ v.over = w.over /\ v.depth = w.depth /\ v.edges <= w.edges + n
  /\ ~v.full => ~w.full /\ \A i \in 1..n : s[i][1] \in DOMAIN v.best /\ s[i][3] \in DOMAIN v.best

(* Moving along several edges is moving along each in turn.                *)
LEMMA MovedOn ==
  ASSUME NEW in, NEW F, NEW w \in Around(in, F), NEW u \in Around(in, F), NEW v \in Around(in, F),
         NEW s, NEW n \in Nat \ {0}, Moved(w, u, s, n - 1), Moves(u, v, s[n])
  PROVE  Moved(w, v, s, n)
<1>1. PICK a \in Nat, b \in Nat, c \in Nat : a = w.edges /\ b = u.edges /\ c = v.edges
  BY DEF Around, States
<1>2. c <= a + n
  <2>1. b <= a + (n - 1) /\ c <= b + 1 BY <1>1 DEF Moved, Moves
  <2> QED BY <2>1
<1>3. /\ DOMAIN w.best \subseteq DOMAIN v.best /\ DOMAIN u.best \subseteq DOMAIN v.best
      /\ DOMAIN v.best \ v.next \subseteq DOMAIN w.best \ w.next
      /\ v.why = w.why /\ v.over = w.over /\ v.depth = w.depth
  BY DEF Moved, Moves
<1>4. ASSUME ~v.full, NEW i \in 1..n PROVE s[i][1] \in DOMAIN v.best /\ s[i][3] \in DOMAIN v.best
  <2>1. CASE i = n BY <1>4, <2>1 DEF Moves
  <2>2. CASE i # n
    <3>1. i \in 1..(n - 1) BY <2>2
    <3>2. ~u.full BY <1>4 DEF Moves
    <3> QED BY <1>3, <3>1, <3>2 DEF Moved
  <2> QED BY <2>1, <2>2
<1>5. ~v.full => ~w.full BY DEF Moved, Moves
<1> QED BY <1>1, <1>2, <1>3, <1>4, <1>5 DEF Moved

(* What holds after all edges of a hop were crossed.                       *)
LEMMA AfterEdges ==
  ASSUME NEW in, WalkInput(in), NEW F, NEW w \in Around(in, F), NEW d \in Nat,
         NEW s \in Seq(Touches(in, F)), NEW v, v = Crossed(in, d, F, w, s)
  PROVE  /\ v \in Around(in, F) /\ Moved(w, v, s, Len(s))
         /\ Knows(in, w, d) /\ From(w, F, d) => Knows(in, v, d)
<1> DEFINE V == Around(in, F)
           E == Touches(in, F)
<1>1. \A u \in V, e \in E : Cross(in.graph, in.budget, d, F, u, e) \in V
  <2> SUFFICES ASSUME NEW u \in V, NEW e \in E PROVE Cross(in.graph, in.budget, d, F, u, e) \in V
    OBVIOUS
  <2> QED BY CrossMoves
<1>2. CrossedRuns(s, V, in, d, F, w)
  <2> HIDE DEF V, E
  <2>1. s \in Seq(E) /\ w \in V BY DEF V, E
  <2> QED BY <1>1, <2>1, CrossedFold
<1>3. PICK n \in Nat : n = Len(s) OBVIOUS
<1>4. PICK h : CrossedSteps(h, s, V, in, d, F, w) /\ v = h[n]
  <2> HIDE DEF V
  <2> QED BY <1>2, <1>3 DEF CrossedRuns
<1>5. /\ h \in [0..n -> V] /\ h[0] = w
      /\ \A i \in 1..n : /\ i - 1 \in 0..n
                         /\ h[i] = Cross(in.graph, in.budget, d, F, h[i - 1], s[i])
  BY <1>3, <1>4 DEF CrossedSteps
<1> DEFINE T == {i \in 0..n : /\ Moved(w, h[i], s, i)
                              /\ Knows(in, w, d) /\ From(w, F, d) =>
                                   Knows(in, h[i], d) /\ From(h[i], F, d)}
<1>6. 0 \in T
  <2>1. Moved(w, w, s, 0)
    <3>1. w.edges \in Nat BY DEF Around, States
    <3> QED BY <3>1 DEF Moved
  <2> QED BY <1>5, <2>1
<1>7. ASSUME NEW i \in 1..n, i - 1 \in T PROVE i \in T
  <2>1. PICK u, x : u = h[i - 1] /\ x = h[i] OBVIOUS
  <2>2. i - 1 \in 0..n /\ i \in 0..n /\ u \in V /\ x \in V BY <1>5, <2>1
  <2>3. s[i] \in E BY <1>3
  <2>4. x = Cross(in.graph, in.budget, d, F, u, s[i]) BY <1>5, <2>1
  <2>5. Moves(u, x, s[i]) BY <2>2, <2>3, <2>4, CrossMoves
  <2>6. Moved(w, u, s, i - 1) BY <1>7, <2>1
  <2>7. i \in Nat \ {0} OBVIOUS
  <2>8. Moved(w, x, s, i) BY <2>2, <2>5, <2>6, <2>7, MovedOn
  <2>9. ASSUME Knows(in, w, d), From(w, F, d) PROVE Knows(in, x, d) /\ From(x, F, d)
    <3>1. Knows(in, u, d) /\ From(u, F, d) BY <1>7, <2>1, <2>9
    <3> QED BY <2>2, <2>3, <2>4, <3>1, CrossKnows
  <2> QED BY <2>1, <2>2, <2>8, <2>9
<1>8. 0..n \subseteq T
  <2> HIDE DEF T
  <2> QED BY <1>6, <1>7, UpTo
<1>9. n \in T BY <1>8
<1>10. v \in V BY <1>4, <1>5
<1> QED BY <1>3, <1>4, <1>9, <1>10

Walks(in) == {w \in States(in) : w.next \subseteq DOMAIN w.best}

(* How a hop that follows edges ends.                                        *)
Ends(in, d, after, v) ==
  \/ after.full /\ v = [after EXCEPT !.depth = d, !.over = TRUE, !.why = "nodes"]
  \/ /\ ~after.full /\ after.edges >= in.budget.max_edges
     /\ v = [after EXCEPT !.depth = d, !.over = TRUE, !.why = IF @ = "none" THEN "edges" ELSE @]
  \/ /\ ~after.full /\ ~(after.edges >= in.budget.max_edges)
     /\ v = [after EXCEPT !.depth = d]

Begun(w, found, limit) ==
  [w EXCEPT !.next = {}, !.why = IF Len(found) >= limit /\ @ = "none" THEN "edges" ELSE @]

(* A hop that looks for edges.                                               *)
Looks(in, d, w, v, limit, found) ==
  /\ limit \in Nat \ {0} /\ limit <= in.budget.max_edges - w.edges
  /\ Followed(found, in, w.next, limit)
  /\ \/ found = <<>> /\ v = [w EXCEPT !.over = TRUE]
     \/ Ends(in, d, Crossed(in, d, w.next, Begun(w, found, limit), found), v)

Hops(in, d, w, v) ==
  \/ (w.over \/ w.next = {}) /\ v = [w EXCEPT !.over = TRUE]
  \/ v = [w EXCEPT !.over = TRUE, !.why = "edges"]
  \/ ~w.over /\ \E limit, found : Looks(in, d, w, v, limit, found)

(* One hop, from its edges to the decision whether there is another.       *)
LEMMA HopIs ==
  ASSUME NEW in, WalkInput(in), NEW w \in Walks(in), NEW d \in Nat,
         NEW v, v = Hop(in.graph, in.budget, {}, w, d)
  PROVE  Hops(in, d, w, v)
<1>1. PICK left \in Int : left = in.budget.max_edges - w.edges
  <2>1. in.budget.max_edges \in Nat /\ w.edges \in Nat BY DEF WalkInput, Walks, States
  <2>2. in.budget.max_edges - w.edges \in Int BY <2>1
  <2> QED BY <2>2
<1>2. PICK limit : limit = Min({left, HopCeiling}) OBVIOUS
<1>3. PICK found : found = ListTouching(in.graph, w.next, limit, in.budget.min_confidence, {})
  OBVIOUS
<1>4. PICK begun, after : /\ begun = Begun(w, found, limit)
                          /\ after = Crossed(in, d, w.next, begun, found)
  OBVIOUS
<1>5. v = CASE w.over \/ w.next = {} -> [w EXCEPT !.over = TRUE]
            [] ~w.over /\ w.next # {} /\ left <= 0 -> [w EXCEPT !.over = TRUE, !.why = "edges"]
            [] OTHER ->
                 IF found = <<>> THEN [w EXCEPT !.over = TRUE]
                 ELSE IF after.full THEN [after EXCEPT !.depth = d, !.over = TRUE, !.why = "nodes"]
                 ELSE IF after.edges >= in.budget.max_edges
                      THEN [after EXCEPT !.depth = d, !.over = TRUE,
                                         !.why = IF @ = "none" THEN "edges" ELSE @]
                 ELSE [after EXCEPT !.depth = d]
  BY ZenonT(60), <1>1, <1>2, <1>3, <1>4 DEF Hop, Crossed, Begun
<1>6. CASE w.over \/ w.next = {} BY <1>5, <1>6 DEF Hops
<1>7. CASE ~w.over /\ w.next # {} /\ left <= 0 BY <1>5, <1>7 DEF Hops
<1>8. CASE ~w.over /\ w.next # {} /\ ~(left <= 0)
  <2>1. v = IF found = <<>> THEN [w EXCEPT !.over = TRUE]
            ELSE IF after.full THEN [after EXCEPT !.depth = d, !.over = TRUE, !.why = "nodes"]
            ELSE IF after.edges >= in.budget.max_edges
                 THEN [after EXCEPT !.depth = d, !.over = TRUE,
                                    !.why = IF @ = "none" THEN "edges" ELSE @]
            ELSE [after EXCEPT !.depth = d]
    BY <1>5, <1>8
  <2>2. HopCeiling \in Nat \ {0} BY GraphTraversalAssumption
  <2>3. limit = IF left <= HopCeiling THEN left ELSE HopCeiling BY <1>2, <2>2, OfTwo
  <2>4. limit \in Nat \ {0} /\ limit <= left BY <1>8, <2>2, <2>3
  <2>5. Followed(found, in, w.next, limit) BY <1>3, <2>4, TouchIs
  <2>6. (found = <<>> /\ v = [w EXCEPT !.over = TRUE]) \/ Ends(in, d, after, v)
    BY <2>1 DEF Ends
  <2>7. Looks(in, d, w, v, limit, found) BY <1>1, <1>4, <2>4, <2>5, <2>6 DEF Looks
  <2> QED BY <1>8, <2>7 DEF Hops
<1> QED BY <1>6, <1>7, <1>8

(* How a hop begins: its next frontier is empty, and it says so when the   *)
(* edges it looked at were too many.                                       *)
LEMMA BegunIs ==
  ASSUME NEW in, NEW w \in Walks(in), NEW found, NEW limit \in Nat, NEW b, b = Begun(w, found, limit)
  PROVE  /\ b \in Around(in, w.next) /\ b.next = {} /\ b.best = w.best /\ b.edges = w.edges
         /\ b.why = "none" => w.why = "none" /\ ~(Len(found) >= limit)
<1>1. b \in States(in) BY DEF Walks, States, Begun
<1>2. /\ b.next = {} /\ b.best = w.best /\ b.edges = w.edges
      /\ b.why = IF Len(found) >= limit /\ w.why = "none" THEN "edges" ELSE w.why
  BY DEF Walks, States, Begun
<1>3. w.next \subseteq DOMAIN w.best BY DEF Walks
<1> QED BY <1>1, <1>2, <1>3 DEF Around

(* How a hop ends: it says so when the nodes or the depth ran out.         *)
LEMMA EndsIs ==
  ASSUME NEW in, NEW F, NEW after \in Around(in, F), NEW d \in Nat, NEW v, Ends(in, d, after, v)
  PROVE  /\ v \in Walks(in) /\ v.best = after.best /\ v.next = after.next /\ v.edges = after.edges
         /\ v.why = "none" => ~v.over \/ after.over
         /\ v.why = "none" => ~after.full /\ after.why = "none"
<1>1. after \in States(in) /\ after.next \subseteq DOMAIN after.best BY DEF Around
<1>2. CASE after.full /\ v = [after EXCEPT !.depth = d, !.over = TRUE, !.why = "nodes"]
  BY <1>1, <1>2 DEF States, Walks
<1>3. CASE /\ ~after.full
           /\ v = [after EXCEPT !.depth = d, !.over = TRUE,
                                !.why = IF @ = "none" THEN "edges" ELSE @]
  <2>1. PICK why \in {"edges", "nodes", "depth"} :
          why = IF after.why = "none" THEN "edges" ELSE after.why
    BY <1>1 DEF States
  <2>2. v = [after EXCEPT !.depth = d, !.over = TRUE, !.why = why] BY <1>3, <2>1
  <2> QED BY <1>1, <2>2 DEF States, Walks
<1>4. CASE ~after.full /\ v = [after EXCEPT !.depth = d]
  BY <1>1, <1>4 DEF States, Walks
<1> QED BY <1>2, <1>3, <1>4 DEF Ends

(* A hop stays within the states of a walk.                                *)
LEMMA HopTyped ==
  ASSUME NEW in, WalkInput(in), NEW w \in Walks(in), NEW d \in Nat,
         NEW v, v = Hop(in.graph, in.budget, {}, w, d)
  PROVE  v \in Walks(in)
<1>1. Hops(in, d, w, v) BY HopIs
<1>2. CASE v = [w EXCEPT !.over = TRUE] BY <1>2 DEF Walks, States
<1>3. CASE v = [w EXCEPT !.over = TRUE, !.why = "edges"] BY <1>3 DEF Walks, States
<1>4. ASSUME NEW limit, NEW found, Looks(in, d, w, v, limit, found) PROVE v \in Walks(in)
  <2>1. limit \in Nat /\ Followed(found, in, w.next, limit) BY <1>4 DEF Looks
  <2>2. PICK b, after : b = Begun(w, found, limit) /\ after = Crossed(in, d, w.next, b, found)
    OBVIOUS
  <2>3. CASE Ends(in, d, after, v)
    <3>1. b \in Around(in, w.next) BY <2>1, <2>2, BegunIs
    <3>2. found \in Seq(Touches(in, w.next)) BY <2>1 DEF Followed
    <3>3. after \in Around(in, w.next) BY <2>2, <3>1, <3>2, AfterEdges
    <3> QED BY <2>3, <3>3, EndsIs
  <2> QED BY <1>2, <1>4, <2>2, <2>3 DEF Looks
<1> QED BY <1>1, <1>2, <1>3, <1>4 DEF Hops

(* The invariant of the walk. What has been met is led to, within the hops   *)
(* so far; and unless the walk says otherwise, nothing next to what has been *)
(* met is missing, other than next to the frontier.                          *)
Sure(in, w, d) ==
  /\ in.origin \in DOMAIN w.best
  /\ \A n \in DOMAIN w.best : Leads(in, w.best[n], n) /\ w.best[n].depth <= d
  /\ IsFiniteSet(DOMAIN w.best) /\ Cardinality(DOMAIN w.best) <= in.budget.max_nodes

Covers(in, w, F) ==
  \A e \in DOMAIN in.graph.edges :
    IsStrong(in, e) /\ {e[1], e[3]} \cap (DOMAIN w.best \ F) # {} => {e[1], e[3]} \subseteq DOMAIN w.best

WalkInv(in, w, d) ==
  /\ Sure(in, w, d) /\ w.edges <= in.budget.max_edges
  /\ ~w.over => \A n \in w.next : w.best[n].depth = d
  /\ w.why = "none" => Covers(in, w, IF w.over THEN {} ELSE w.next)

(* What is known after fewer hops is known after more.                     *)
LEMMA SureLater ==
  ASSUME NEW in, NEW w \in Walks(in), NEW d \in Nat \ {0}, Sure(in, w, d - 1)
  PROVE  Sure(in, w, d)
<1>1. ASSUME NEW n \in DOMAIN w.best PROVE w.best[n].depth <= d
  <2>1. w.best \in Bests(in) BY DEF Walks, States
  <2>2. w.best[n] \in Ways(in) BY <2>1, BestIs
  <2>3. PICK k \in Nat : k = w.best[n].depth BY <2>2 DEF Ways
  <2>4. k <= d - 1 BY <2>3 DEF Sure
  <2> QED BY <2>3, <2>4
<1> QED BY <1>1 DEF Sure

(* A hop keeps the invariant of the walk: its paths exist, its budget is   *)
(* kept, and as long as it was not cut short every strong neighbour of     *)
(* what it left behind is known.                                           *)
LEMMA HopKeeps ==
  ASSUME NEW in, WalkInput(in), NEW w \in Walks(in), NEW d \in Nat \ {0},
         NEW v, v = Hop(in.graph, in.budget, {}, w, d), WalkInv(in, w, d - 1)
  PROVE  WalkInv(in, v, d)
<1>1. Hops(in, d, w, v) BY HopIs
<1>2. Sure(in, w, d) BY SureLater DEF WalkInv
<1>3. ASSUME v = [w EXCEPT !.over = TRUE], w.why = "none" => Covers(in, w, {})
      PROVE  WalkInv(in, v, d)
  <2>1. /\ v.best = w.best /\ v.next = w.next /\ v.edges = w.edges /\ v.why = w.why /\ v.over
    BY <1>3 DEF Walks, States
  <2>2. Sure(in, v, d) BY <1>2, <2>1 DEF Sure
  <2>3. v.why = "none" => Covers(in, v, {}) BY <1>3, <2>1 DEF Covers
  <2> QED BY <2>1, <2>2, <2>3 DEF WalkInv
<1>4. CASE (w.over \/ w.next = {}) /\ v = [w EXCEPT !.over = TRUE]
  <2>1. w.why = "none" => Covers(in, w, {}) BY <1>4 DEF WalkInv
  <2> QED BY <1>3, <1>4, <2>1
<1>5. CASE v = [w EXCEPT !.over = TRUE, !.why = "edges"]
  <2>1. /\ v.best = w.best /\ v.edges = w.edges /\ v.why = "edges" /\ v.over
    BY <1>5 DEF Walks, States
  <2>2. Sure(in, v, d) BY <1>2, <2>1 DEF Sure
  <2> QED BY <2>1, <2>2 DEF WalkInv
<1>6. ASSUME ~w.over, NEW limit, NEW found, Looks(in, d, w, v, limit, found)
      PROVE  WalkInv(in, v, d)
  <2>0. /\ w.edges <= in.budget.max_edges /\ \A n \in w.next : w.best[n].depth = d - 1
        /\ w.why = "none" => Covers(in, w, w.next)
    BY <1>6 DEF WalkInv
  <2>1. /\ limit \in Nat \ {0} /\ limit <= in.budget.max_edges - w.edges
        /\ found \in Seq(Touches(in, w.next)) /\ Len(found) <= limit
        /\ Len(found) < limit =>
             \A e \in Touches(in, w.next) : \E i \in 1..Len(found) : found[i] = e
    BY <1>6 DEF Looks, Followed
  <2>2. PICK b, after : b = Begun(w, found, limit) /\ after = Crossed(in, d, w.next, b, found)
    OBVIOUS
  <2>3. CASE found = <<>> /\ v = [w EXCEPT !.over = TRUE]
    <3>1. \A e \in Touches(in, w.next) : FALSE BY <2>1, <2>3
    <3>2. ASSUME w.why = "none", NEW e \in DOMAIN in.graph.edges, IsStrong(in, e),
                 {e[1], e[3]} \cap DOMAIN w.best # {}
          PROVE  {e[1], e[3]} \subseteq DOMAIN w.best
      <4>1. {e[1], e[3]} \cap w.next = {} BY <3>1, <3>2 DEF Touches
      <4>2. {e[1], e[3]} \cap (DOMAIN w.best \ w.next) # {} BY <3>2, <4>1
      <4> QED BY <2>0, <3>2, <4>2 DEF Covers
    <3>3. w.why = "none" => Covers(in, w, {}) BY <3>2 DEF Covers
    <3> QED BY <1>3, <2>3, <3>3
  <2>4. CASE Ends(in, d, after, v)
    <3>1. /\ b \in Around(in, w.next) /\ b.next = {} /\ b.best = w.best /\ b.edges = w.edges
          /\ b.why = "none" => w.why = "none" /\ ~(Len(found) >= limit)
      BY <2>1, <2>2, BegunIs
    <3>2. Knows(in, b, d) /\ From(b, w.next, d)
      BY <1>2, <2>0, <3>1 DEF Sure, Knows, From
    <3>3. /\ after \in Around(in, w.next) /\ Moved(b, after, found, Len(found))
          /\ Knows(in, after, d)
      BY <2>1, <2>2, <3>1, <3>2, AfterEdges
    <3>4. /\ v \in Walks(in) /\ v.best = after.best /\ v.next = after.next /\ v.edges = after.edges
          /\ v.why = "none" => ~v.over \/ after.over
          /\ v.why = "none" => ~after.full /\ after.why = "none"
      BY <2>4, <3>3, EndsIs
    <3>5. Sure(in, v, d) /\ \A n \in v.next : v.best[n].depth = d
      BY <3>3, <3>4 DEF Sure, Knows
    <3>6. v.edges <= in.budget.max_edges
      <4>1. PICK x \in Nat, y \in Nat : x = w.edges /\ y = after.edges
        BY <3>3 DEF Around, Walks, States
      <4>2. PICK k \in Nat : k = Len(found) BY <2>1
      <4>3. in.budget.max_edges \in Nat BY DEF WalkInput
      <4>4. y <= x + k BY <3>1, <3>3, <4>1, <4>2 DEF Moved
      <4>5. k <= limit /\ limit <= in.budget.max_edges - x BY <2>1, <4>1, <4>2
      <4> QED BY <2>1, <3>4, <4>1, <4>3, <4>4, <4>5
    <3>7. ~after.over
      <4>1. b.over = w.over BY <2>2 DEF Begun, Walks, States
      <4> QED BY <1>6, <3>3, <4>1 DEF Moved
    <3>8. ASSUME v.why = "none", NEW e \in DOMAIN in.graph.edges, IsStrong(in, e),
                 {e[1], e[3]} \cap (DOMAIN v.best \ v.next) # {}
          PROVE  {e[1], e[3]} \subseteq DOMAIN v.best
      <4>1. ~after.full /\ b.why = "none" BY <3>3, <3>4, <3>8 DEF Moved
      <4>2. w.why = "none" /\ Len(found) < limit
        <5>1. Len(found) \in Nat BY <2>1
        <5> QED BY <2>1, <3>1, <4>1, <5>1
      <4>3. DOMAIN v.best \ v.next \subseteq DOMAIN w.best /\ DOMAIN w.best \subseteq DOMAIN v.best
        BY <3>1, <3>3, <3>4 DEF Moved
      <4>4. {e[1], e[3]} \cap DOMAIN w.best # {} BY <3>8, <4>3
      <4>5. CASE {e[1], e[3]} \cap w.next # {}
        <5>1. e \in Touches(in, w.next) BY <3>8, <4>5 DEF Touches
        <5>2. PICK i \in 1..Len(found) : found[i] = e BY <2>1, <4>2, <5>1
        <5> QED BY <3>3, <3>4, <4>1, <5>2 DEF Moved
      <4>6. CASE {e[1], e[3]} \cap w.next = {}
        <5>1. {e[1], e[3]} \cap (DOMAIN w.best \ w.next) # {} BY <4>4, <4>6
        <5>2. {e[1], e[3]} \subseteq DOMAIN w.best BY <2>0, <3>8, <4>2, <5>1 DEF Covers
        <5> QED BY <4>3, <5>2
      <4> QED BY <4>5, <4>6
    <3>9. v.why = "none" => Covers(in, v, v.next) BY <3>8 DEF Covers
    <3> QED BY <3>4, <3>5, <3>6, <3>7, <3>9 DEF WalkInv
  <2> QED BY <1>6, <2>2, <2>3, <2>4 DEF Looks
<1> QED BY <1>1, <1>4, <1>5, <1>6 DEF Hops

(* The hops of a walk.                                                      *)
Hopping(in, start, s) == FoldLeft(LAMBDA a, x : Hop(in.graph, in.budget, {}, a, x), start, s)

HoppingSteps(h, s, V, in, start) ==
  /\ h \in [0..Len(s) -> V] /\ h[0] = start
  /\ \A i \in 1..Len(s) : i - 1 \in 0..Len(s) /\ h[i] = Hop(in.graph, in.budget, {}, h[i - 1], s[i])

HoppingRuns(s, V, in, start) == \E h : HoppingSteps(h, s, V, in, start) /\ Hopping(in, start, s) = h[Len(s)]

(* Such a fold goes through one step per entry of the list.                 *)
LEMMA HoppingFold ==
  ASSUME NEW in, NEW start, NEW E, NEW s \in Seq(E), NEW V, start \in V,
         \A a \in V, x \in E : Hop(in.graph, in.budget, {}, a, x) \in V
  PROVE  HoppingRuns(s, V, in, start)
<1> DEFINE base == start
           g == [p \in V \X E |-> Hop(in.graph, in.budget, {}, p[1], p[2])]
           Iter(f) == f = [S \in SUBSET DOMAIN s |->
             IF S = {} THEN base ELSE Hop(in.graph, in.budget, {}, f[S \ {Max(S)}], s[Max(S)])]
           it == CHOOSE f : Iter(f)
<1>1. base \in V /\ g \in [V \X E -> V] OBVIOUS
<1>2. \A a \in V, x \in E : g[<<a, x>>] = Hop(in.graph, in.budget, {}, a, x) OBVIOUS
<1>3. Hopping(in, start, s) = it[DOMAIN s] BY DEF Hopping, FoldLeft, MapThenFoldSet
<1> HIDE DEF g, base
<1>4. PICK f : Folds(f, s, E, V, base, g) BY <1>1, FoldExists
<1>5. \A S \in SUBSET DOMAIN s : S # {} =>
        f[S] = Hop(in.graph, in.budget, {}, f[S \ {Max(S)}], s[Max(S)])
  BY <1>2, <1>4 DEF Folds
<1>6. Iter(f) BY <1>4, <1>5 DEF Folds
<1>7. Iter(it) BY <1>6
<1> HIDE DEF it
<1>8. Unfolds(it, s, E, V, base, g) BY <1>2, <1>7 DEF Unfolds
<1>9. PICK h : FoldRun(h, s, E, V, base, g) /\ it[DOMAIN s] = h[Len(s)]
  <2>1. Reaches(it, s, E, V, base, g) BY <1>1, <1>8, FoldRuns
  <2> QED BY <2>1 DEF Reaches
<1>10. HoppingSteps(h, s, V, in, start) BY <1>2, <1>9 DEF FoldRun, HoppingSteps, base
<1> QED BY <1>3, <1>9, <1>10 DEF HoppingRuns

Start(in) ==
  [best |-> [n \in {in.origin} |-> [confidence |-> 1, depth |-> 0, path |-> <<n>>]],
   next |-> {in.origin}, edges |-> 0, depth |-> 0, full |-> FALSE, over |-> FALSE, why |-> "none"]

(* The invariant holds before the first hop.                               *)
LEMMA StartsWell ==
  ASSUME NEW in, WalkInput(in)
  PROVE  Start(in) \in Walks(in) /\ WalkInv(in, Start(in), 0)
<1>1. PICK o : o = in.origin OBVIOUS
<1>2. PICK way : way = [confidence |-> 1, depth |-> 0, path |-> <<o>>] OBVIOUS
<1>3. PICK f : f = [n \in {o} |-> way] OBVIOUS
<1>4. PICK w : w = Start(in) OBVIOUS
<1>5. o \in Knots(in) BY <1>1 DEF Knots
<1>6. way \in Ways(in)
  <2>1. <<o>> \in Seq(Knots(in)) BY <1>5
  <2> QED BY <1>2, <2>1 DEF Ways
<1>7. f \in Bests(in) /\ DOMAIN f = {o} /\ f[o] = way
  <2>1. DOMAIN f = {o} /\ f = [n \in DOMAIN f |-> f[n]] /\ f[o] = way BY <1>3
  <2> QED BY <1>5, <1>6, <2>1, BestIs
<1>8. w = [best |-> f, next |-> {o}, edges |-> 0, depth |-> 0, full |-> FALSE, over |-> FALSE,
           why |-> "none"]
  <2>1. [n \in {in.origin} |-> [confidence |-> 1, depth |-> 0, path |-> <<n>>]] = f
    BY <1>1, <1>2, <1>3
  <2> QED BY <1>1, <1>4, <2>1 DEF Start
<1>9. w \in Walks(in)
  <2>1. w \in States(in) BY <1>5, <1>7, <1>8 DEF States
  <2>2. w.next \subseteq DOMAIN w.best BY <1>7, <1>8
  <2> QED BY <2>1, <2>2 DEF Walks
<1>10. Leads(in, way, o)
  <2>1. /\ way.path = <<o>> /\ way.depth = 0 /\ Len(<<o>>) = 1 /\ <<o>>[1] = o BY <1>2
  <2>2. \A i \in 2..1 : FALSE OBVIOUS
  <2> QED BY <1>1, <2>1, <2>2 DEF Leads
<1>11. Sure(in, w, 0)
  <2>1. in.budget.max_nodes \in Nat \ {0} BY DEF WalkInput
  <2>2. IsFiniteSet({o}) /\ Cardinality({o}) = 1 BY FS_Singleton
  <2>3. way.depth = 0 BY <1>2
  <2>4. w.best = f BY <1>8
  <2> QED BY <1>1, <1>7, <1>10, <2>1, <2>2, <2>3, <2>4 DEF Sure
<1>12. WalkInv(in, w, 0)
  <2>1. in.budget.max_edges \in Nat \ {0} BY DEF WalkInput
  <2>2. w.best = f /\ w.next = {o} /\ w.edges = 0 /\ w.over = FALSE BY <1>8
  <2>3. \A n \in w.next : w.best[n].depth = 0 BY <1>2, <1>7, <2>2
  <2>4. Covers(in, w, w.next) BY <1>7, <2>2 DEF Covers
  <2> QED BY <1>11, <2>1, <2>2, <2>3, <2>4 DEF WalkInv
<1> QED BY <1>4, <1>9, <1>12

(* What a walk has found in the end.                                         *)
Found(in, w) ==
  /\ w \in Walks(in) /\ Sure(in, w, in.budget.max_depth) /\ w.edges <= in.budget.max_edges
  /\ w.why = "none" => Covers(in, w, {})

(* The invariant holds after the last hop, and a walk that was not cut     *)
(* short left nothing behind.                                              *)
LEMMA WalkFinds ==
  ASSUME NEW in, WalkInput(in),
         NEW s, s = [d \in 1..in.budget.max_depth |-> d],
         NEW w, w = Concluded(Hopping(in, Start(in), s))
  PROVE  Found(in, w)
<1>1. PICK m \in Nat \ {0} : m = in.budget.max_depth BY DEF WalkInput
<1>2. PICK start : start = Start(in) OBVIOUS
<1> DEFINE V == Walks(in)
           E == 1..m
<1>3. s \in Seq(E) /\ Len(s) = m /\ \A i \in 1..m : s[i] = i BY <1>1
<1>4. HoppingRuns(s, V, in, start)
  <2>1. \A u \in V, d \in E : Hop(in.graph, in.budget, {}, u, d) \in V
    <3> SUFFICES ASSUME NEW u \in V, NEW d \in E PROVE Hop(in.graph, in.budget, {}, u, d) \in V
      OBVIOUS
    <3>1. d \in Nat OBVIOUS
    <3> HIDE DEF E
    <3> QED BY <3>1, HopTyped
  <2>2. start \in V BY <1>2, StartsWell
  <2> HIDE DEF V, E
  <2> QED BY <1>3, <2>1, <2>2, HoppingFold
<1>5. PICK last : last = Hopping(in, start, s) OBVIOUS
<1>6. PICK h : HoppingSteps(h, s, V, in, start) /\ last = h[m]
  <2> HIDE DEF V
  <2> QED BY <1>3, <1>4, <1>5 DEF HoppingRuns
<1>7. /\ h \in [0..m -> V] /\ h[0] = start
      /\ \A i \in 1..m : i - 1 \in 0..m /\ h[i] = Hop(in.graph, in.budget, {}, h[i - 1], i)
  <2> HIDE DEF V
  <2> QED BY <1>3, <1>6 DEF HoppingSteps
<1> DEFINE T == {i \in 0..m : WalkInv(in, h[i], i)}
<1>8. 0 \in T BY <1>2, <1>7, StartsWell
<1>9. ASSUME NEW i \in 1..m, i - 1 \in T PROVE i \in T
  <2>1. PICK u, x : u = h[i - 1] /\ x = h[i] OBVIOUS
  <2>2. i - 1 \in 0..m /\ u \in V /\ x = Hop(in.graph, in.budget, {}, u, i) BY <1>7, <2>1
  <2>3. WalkInv(in, u, i - 1) BY <1>9, <2>1
  <2>4. i \in Nat \ {0} /\ i \in 0..m OBVIOUS
  <2>5. WalkInv(in, x, i) BY <2>2, <2>3, <2>4, HopKeeps
  <2> QED BY <2>1, <2>4, <2>5
<1>10. 0..m \subseteq T
  <2> HIDE DEF T
  <2>1. m \in Nat OBVIOUS
  <2> QED BY <1>8, <1>9, <2>1, UpTo
<1>11. m \in 0..m OBVIOUS
<1>12. last \in Walks(in) /\ WalkInv(in, last, m)
  <2>1. m \in T BY <1>10, <1>11
  <2> QED BY <1>6, <1>7, <1>11, <2>1
<1>13. w = Concluded(last) BY <1>2, <1>5
<1>14. /\ w \in Walks(in) /\ w.best = last.best /\ w.edges = last.edges
       /\ w.why = "none" => last.why = "none" /\ (last.over \/ last.next = {})
  BY <1>12, <1>13 DEF Concluded, Walks, States
<1>15. Sure(in, w, m) /\ w.edges <= in.budget.max_edges BY <1>12, <1>14 DEF WalkInv, Sure
<1>16. w.why = "none" => Covers(in, w, {})
  <2>1. w.why = "none" => Covers(in, last, {}) BY <1>12, <1>14 DEF WalkInv
  <2> QED BY <1>14, <2>1 DEF Covers
<1> QED BY <1>1, <1>14, <1>15, <1>16 DEF Found

(* What is connected to the origin.                                          *)
Ground(in) == {in.origin} \cup UNION {{e[1], e[3]} : e \in {d \in DOMAIN in.graph.edges : IsStrong(in, d)}}

Shuts(in, S) == \A e \in DOMAIN in.graph.edges : IsStrong(in, e) => (e[1] \in S <=> e[3] \in S)

Reachable(in) ==
  {n \in Ground(in) : \A S \in SUBSET Ground(in) : in.origin \in S /\ Shuts(in, S) => n \in S}

(* What the graph can reach at all, by the definition the property uses.   *)
LEMMA ReachableIs ==
  ASSUME NEW in
  PROVE  ReachableAt(in.graph, in.origin, in.budget.min_confidence) = Reachable(in)
<1>1. PICK strong : strong = {e \in DOMAIN in.graph.edges : IsStrong(in, e)} OBVIOUS
<1>2. PICK ground : ground = (UNION {{e[1], e[3]} : e \in strong}) \cup {in.origin} OBVIOUS
<1>3. ReachableAt(in.graph, in.origin, in.budget.min_confidence) =
        {n \in ground : \A S \in SUBSET ground :
           in.origin \in S /\ (\A e \in strong : e[1] \in S <=> e[3] \in S) => n \in S}
  BY <1>1, <1>2 DEF ReachableAt, IsStrong
<1>4. Ground(in) = ground BY <1>1, <1>2 DEF Ground
<1>5. \A S : Shuts(in, S) <=> \A e \in strong : e[1] \in S <=> e[3] \in S BY <1>1 DEF Shuts
<1> QED BY <1>3, <1>4, <1>5 DEF Reachable

(* Where a path leads is reachable.                                        *)
LEMMA LedIsReachable ==
  ASSUME NEW in, NEW way \in Ways(in), NEW n, Leads(in, way, n)
  PROVE  n \in Reachable(in)
<1>1. PICK p \in Seq(Knots(in)) : p = way.path BY DEF Ways
<1>2. PICK k \in Nat : k = Len(p) OBVIOUS
<1>3. /\ k > 0 /\ p[1] = in.origin /\ p[k] = n /\ \A i \in 2..k : Strong(in, p[i - 1], p[i])
  BY <1>1, <1>2 DEF Leads
<1>4. ASSUME NEW S, in.origin \in S, Shuts(in, S) PROVE n \in S
  <2> DEFINE T == {i \in 0..(k - 1) : p[i + 1] \in S}
  <2>1. k - 1 \in Nat BY <1>3
  <2>2. 0 \in T BY <1>3, <1>4
  <2>3. ASSUME NEW i \in 1..(k - 1), i - 1 \in T PROVE i \in T
    <3>1. p[i] \in S
      <4>1. (i - 1) + 1 = i OBVIOUS
      <4> QED BY <2>3, <4>1
    <3>2. i + 1 \in 2..k /\ (i + 1) - 1 = i /\ i \in 0..(k - 1) OBVIOUS
    <3>3. Strong(in, p[i], p[i + 1])
      <4>1. PICK j \in 2..k : j = i + 1 BY <3>2
      <4>2. Strong(in, p[j - 1], p[j]) BY <1>3
      <4>3. j - 1 = i BY <4>1
      <4> QED BY <4>1, <4>2, <4>3
    <3>4. PICK e \in DOMAIN in.graph.edges : {e[1], e[3]} = {p[i], p[i + 1]} /\ IsStrong(in, e)
      BY <3>3 DEF Strong
    <3>5. e[1] \in S <=> e[3] \in S BY <1>4, <3>4 DEF Shuts
    <3>6. p[i + 1] \in S BY <3>1, <3>4, <3>5
    <3> QED BY <3>2, <3>6
  <2>4. 0..(k - 1) \subseteq T
    <3> HIDE DEF T
    <3>1. PICK z \in Nat : z = k - 1 BY <2>1
    <3>2. \A i \in 1..z : i - 1 \in T => i \in T BY <2>3, <3>1
    <3>3. 0..z \subseteq T BY <2>2, <3>2, UpTo
    <3> QED BY <3>1, <3>3
  <2>5. k - 1 \in T /\ (k - 1) + 1 = k BY <2>1, <2>4
  <2> QED BY <1>3, <2>5
<1>5. n \in Ground(in)
  <2>1. CASE k = 1 BY <1>3, <2>1 DEF Ground
  <2>2. CASE k # 1
    <3>1. k \in 2..k BY <1>3, <2>2
    <3>2. PICK e \in DOMAIN in.graph.edges : {e[1], e[3]} = {p[k - 1], p[k]} /\ IsStrong(in, e)
      BY <1>3, <3>1 DEF Strong
    <3>3. n \in {e[1], e[3]} BY <1>3, <3>2
    <3> QED BY <3>2, <3>3 DEF Ground
  <2> QED BY <2>1, <2>2
<1> QED BY <1>4, <1>5 DEF Reachable

(* A walk that left nothing behind reached everything there is to reach.   *)
LEMMA ReachedIsAll ==
  ASSUME NEW in, NEW w \in Walks(in), NEW d, Sure(in, w, d), Covers(in, w, {})
  PROVE  DOMAIN w.best = Reachable(in)
<1>1. PICK B : B = DOMAIN w.best OBVIOUS
<1>2. B \subseteq Reachable(in)
  <2> SUFFICES ASSUME NEW n \in B PROVE n \in Reachable(in) OBVIOUS
  <2>1. w.best \in Bests(in) BY DEF Walks, States
  <2>2. w.best[n] \in Ways(in) BY <1>1, <2>1, BestIs
  <2>3. Leads(in, w.best[n], n) BY <1>1 DEF Sure
  <2> QED BY <2>2, <2>3, LedIsReachable
<1>3. B \in SUBSET Ground(in) BY <1>2 DEF Reachable
<1>4. in.origin \in B BY <1>1 DEF Sure
<1>5. Shuts(in, B)
  <2> SUFFICES ASSUME NEW e \in DOMAIN in.graph.edges, IsStrong(in, e) PROVE e[1] \in B <=> e[3] \in B
    BY DEF Shuts
  <2>1. {e[1], e[3]} \cap B # {} => {e[1], e[3]} \subseteq B BY <1>1 DEF Covers
  <2> QED BY <2>1
<1>6. Reachable(in) \subseteq B BY <1>3, <1>4, <1>5 DEF Reachable
<1> QED BY <1>1, <1>2, <1>6

(* The walk stays within its budget, every path it reports exists, and     *)
(* when it does not say that it was cut short it missed nothing            *)
(* (business_graph.py:274).                                                *)
LEMMA ReachHolds == KnowledgeAnswers => ReachIsHonest
<1> SUFFICES ASSUME KnowledgeAnswers, Answered("walk") PROVE ReachIsHonest
  BY DEF ReachIsHonest
<1>0. PICK op \in DOMAIN KnowledgeInputs :
        \E in \in KnowledgeInputs[op] : call = [op |-> op, in |-> in]
  BY DEF KnowledgeAnswers
<1>1. PICK in \in KnowledgeInputs[op] : call = [op |-> op, in |-> in] BY <1>0
<1>2. op = "walk" /\ call.op = op /\ call.in = in /\ answer # <<>> BY <1>1 DEF Answered
<1>3. WalkInput(in) BY <1>2, KnowledgeInputsAssumption
<1>4. PICK out : out = answer[1] OBVIOUS
<1>5. out = Neighborhood(in.graph, in.origin, in.budget, {}) BY <1>2, <1>4 DEF KnowledgeAnswers
<1>6. PICK s : s = [d \in 1..in.budget.max_depth |-> d] OBVIOUS
<1>7. PICK w : w = Concluded(Hopping(in, Start(in), s)) OBVIOUS
<1>8. Found(in, w) BY <1>3, <1>6, <1>7, WalkFinds
<1>9. out = IF in.origin \notin DOMAIN in.graph.nodes
            THEN [found |-> FALSE, related |-> [n \in {} |-> 0], why |-> "none", edges |-> 0]
            ELSE [found |-> TRUE, related |-> [n \in (DOMAIN w.best) \ {in.origin} |-> w.best[n]],
                  why |-> w.why, edges |-> w.edges]
  BY <1>5, <1>6, <1>7 DEF Neighborhood, Hopping, Start
<1>10. PICK r : r = out.related OBVIOUS
<1>11. in.budget.max_nodes \in Nat \ {0} /\ in.budget.max_edges \in Nat \ {0} BY <1>3 DEF WalkInput
<1>12. CASE in.origin \notin DOMAIN in.graph.nodes
  <2>1. DOMAIN r = {} /\ out.edges = 0 /\ out.found = FALSE BY <1>9, <1>10, <1>12
  <2>2. Cardinality({}) = 0 BY FS_EmptySet
  <2>3. Cardinality(DOMAIN r) < in.budget.max_nodes /\ out.edges <= in.budget.max_edges
    BY <1>11, <2>1, <2>2
  <2> QED BY <1>2, <1>4, <1>10, <2>1, <2>3 DEF ReachIsHonest
<1>13. CASE in.origin \in DOMAIN in.graph.nodes
  <2>1. /\ out.why = w.why /\ out.edges = w.edges
        /\ r = [n \in (DOMAIN w.best) \ {in.origin} |-> w.best[n]]
    BY <1>9, <1>10, <1>13
  <2>2. DOMAIN r = (DOMAIN w.best) \ {in.origin} /\ \A n \in DOMAIN r : r[n] = w.best[n] BY <2>1
  <2>3. /\ w \in Walks(in) /\ Sure(in, w, in.budget.max_depth)
        /\ w.edges <= in.budget.max_edges
        /\ w.why = "none" => Covers(in, w, {})
    BY <1>8 DEF Found
  <2>4. Cardinality(DOMAIN r) < in.budget.max_nodes
    <3>1. /\ IsFiniteSet(DOMAIN w.best) /\ in.origin \in DOMAIN w.best
          /\ Cardinality(DOMAIN w.best) <= in.budget.max_nodes
      BY <2>3 DEF Sure
    <3>2. Cardinality(DOMAIN w.best) \in Nat BY <3>1, FS_CardinalityType
    <3>3. Cardinality(DOMAIN r) = Cardinality(DOMAIN w.best) - 1 BY <2>2, <3>1, FS_RemoveElement
    <3> QED BY <1>11, <3>1, <3>2, <3>3
  <2>5. ASSUME NEW n \in DOMAIN r
        PROVE  /\ r[n].depth = Len(r[n].path) - 1 /\ r[n].depth <= in.budget.max_depth
               /\ r[n].path[1] = in.origin /\ Last(r[n].path) = n
               /\ \A i \in 2..Len(r[n].path) : Strong(in, r[n].path[i - 1], r[n].path[i])
    <3>1. Leads(in, w.best[n], n) /\ w.best[n].depth <= in.budget.max_depth BY <2>2, <2>3 DEF Sure
    <3> QED BY <2>2, <3>1 DEF Leads, Last
  <2>6. out.why = "none" =>
          {in.origin} \cup DOMAIN r = ReachableAt(in.graph, in.origin, in.budget.min_confidence)
    <3> SUFFICES ASSUME out.why = "none"
                 PROVE  {in.origin} \cup DOMAIN r =
                          ReachableAt(in.graph, in.origin, in.budget.min_confidence)
      OBVIOUS
    <3>1. DOMAIN w.best = Reachable(in) BY <2>1, <2>3, ReachedIsAll
    <3>2. in.origin \in DOMAIN w.best BY <2>3 DEF Sure
    <3> QED BY <2>2, <3>1, <3>2, ReachableIs
  <2>7. PICK g, o, b : g = in.graph /\ o = in.origin /\ b = in.budget OBVIOUS
  <2>8. \A m, n : Strong(in, m, n) <=>
          \E e \in DOMAIN g.edges : {e[1], e[3]} = {m, n} /\ g.edges[e].confidence >= b.min_confidence
    BY <2>7 DEF Strong, IsStrong
  <2>9. \A n \in DOMAIN r :
            /\ r[n].depth = Len(r[n].path) - 1 /\ r[n].depth <= b.max_depth
            /\ r[n].path[1] = o /\ Last(r[n].path) = n
            /\ \A i \in 2..Len(r[n].path) :
                 \E e \in DOMAIN g.edges : /\ {e[1], e[3]} = {r[n].path[i - 1], r[n].path[i]}
                                           /\ g.edges[e].confidence >= b.min_confidence
    <3> SUFFICES ASSUME NEW n \in DOMAIN r
                 PROVE  /\ r[n].depth = Len(r[n].path) - 1 /\ r[n].depth <= b.max_depth
                        /\ r[n].path[1] = o /\ Last(r[n].path) = n
                        /\ \A i \in 2..Len(r[n].path) :
                             \E e \in DOMAIN g.edges :
                               /\ {e[1], e[3]} = {r[n].path[i - 1], r[n].path[i]}
                               /\ g.edges[e].confidence >= b.min_confidence
      OBVIOUS
    <3>1. /\ r[n].depth = Len(r[n].path) - 1 /\ r[n].depth <= b.max_depth
          /\ r[n].path[1] = o /\ Last(r[n].path) = n
      BY <2>5, <2>7
    <3>2. ASSUME NEW i \in 2..Len(r[n].path)
          PROVE  \E e \in DOMAIN g.edges : /\ {e[1], e[3]} = {r[n].path[i - 1], r[n].path[i]}
                                           /\ g.edges[e].confidence >= b.min_confidence
      <4>1. Strong(in, r[n].path[i - 1], r[n].path[i]) BY <2>5
      <4> QED BY <2>8, <4>1
    <3> QED BY <3>1, <3>2
  <2>10. Cardinality(DOMAIN r) < b.max_nodes /\ out.edges <= b.max_edges BY <2>1, <2>3, <2>4, <2>7
  <2>11. out.found /\ out.why = "none" => {o} \cup DOMAIN r = ReachableAt(g, o, b.min_confidence)
    BY <2>6, <2>7
  <2>12. /\ r = answer[1].related /\ out = answer[1] /\ g = call.in.graph /\ o = call.in.origin
         /\ b = call.in.budget
    BY <1>2, <1>4, <1>10, <2>7
  <2> QED BY ONLY <2>9, <2>10, <2>11, <2>12 DEF ReachIsHonest
<1> QED BY <1>12, <1>13

-----------------------------------------------------------------------------
(* What the business graph is derived from *)

(* What a sum over a set takes next.                                       *)
Chosen(s) == CHOOSE x \in s : TRUE

(* The recursive function behind a sum over a set.                         *)
AddsUp(f, S, w) ==
  /\ f[{}] = 0
  /\ \A s \in SUBSET S : s # {} => f[s] = w[Chosen(s)] + f[s \ {Chosen(s)}]

(* It exists for every finite set.                                         *)
LEMMA SumExists ==
  ASSUME NEW S, IsFiniteSet(S), NEW w \in [S -> Int]
  PROVE  \E f \in [SUBSET S -> Int] : AddsUp(f, S, w)
<1> DEFINE n == Cardinality(S)
           Good(k) == \E f \in [SUBSET S -> Int] :
                        /\ f[{}] = 0
                        /\ \A s \in SUBSET S : s # {} /\ Cardinality(s) <= k =>
                             f[s] = w[Chosen(s)] + f[s \ {Chosen(s)}]
           T == {k \in 0..n : Good(k)}
<1>1. n \in Nat BY FS_CardinalityType
<1>2. ASSUME NEW s \in SUBSET S, s # {}
      PROVE  /\ Chosen(s) \in s /\ w[Chosen(s)] \in Int /\ s \ {Chosen(s)} \in SUBSET S
             /\ Cardinality(s) \in Nat /\ Cardinality(s) # 0
             /\ Cardinality(s \ {Chosen(s)}) = Cardinality(s) - 1
  <2>1. Chosen(s) \in s BY <1>2 DEF Chosen
  <2>2. IsFiniteSet(s) BY FS_Subset
  <2>3. Cardinality(s) \in Nat /\ Cardinality(s) # 0 BY <1>2, <2>2, FS_CardinalityType, FS_EmptySet
  <2>4. Cardinality(s \ {Chosen(s)}) = Cardinality(s) - 1 BY <2>1, <2>2, FS_RemoveElement
  <2> QED BY <2>1, <2>3, <2>4
<1>3. Good(0)
  <2> DEFINE f == [s \in SUBSET S |-> 0]
  <2>1. f \in [SUBSET S -> Int] /\ f[{}] = 0 OBVIOUS
  <2>2. ASSUME NEW s \in SUBSET S, s # {} PROVE ~(Cardinality(s) <= 0)
    <3>1. Cardinality(s) \in Nat /\ Cardinality(s) # 0 BY <1>2, <2>2
    <3> QED BY <3>1
  <2> QED BY <2>1, <2>2
<1>4. ASSUME NEW k \in 1..n, Good(k - 1) PROVE Good(k)
  <2>1. PICK f \in [SUBSET S -> Int] :
          /\ f[{}] = 0
          /\ \A s \in SUBSET S : s # {} /\ Cardinality(s) <= k - 1 =>
               f[s] = w[Chosen(s)] + f[s \ {Chosen(s)}]
    BY <1>4
  <2> DEFINE g == [s \in SUBSET S |-> IF s = {} THEN 0 ELSE w[Chosen(s)] + f[s \ {Chosen(s)}]]
  <2>2. g \in [SUBSET S -> Int]
    <3> SUFFICES ASSUME NEW s \in SUBSET S, s # {} PROVE w[Chosen(s)] + f[s \ {Chosen(s)}] \in Int
      OBVIOUS
    <3>1. w[Chosen(s)] \in Int /\ s \ {Chosen(s)} \in SUBSET S BY <1>2
    <3> QED BY <3>1
  <2>3. g[{}] = 0 OBVIOUS
  <2>4. \A s \in SUBSET S : s # {} => g[s] = w[Chosen(s)] + f[s \ {Chosen(s)}] OBVIOUS
  <2> HIDE DEF g
  <2>5. ASSUME NEW s \in SUBSET S, s # {}, Cardinality(s) <= k
        PROVE  g[s] = w[Chosen(s)] + g[s \ {Chosen(s)}]
    <3>1. PICK r \in SUBSET S : r = s \ {Chosen(s)} OBVIOUS
    <3>2. Cardinality(r) <= k - 1 BY <1>2, <2>5, <3>1
    <3>3. g[r] = f[r]
      <4>1. CASE r = {} BY <4>1, <2>1, <2>3
      <4>2. CASE r # {} BY <4>2, <2>1, <2>4, <3>2
      <4> QED BY <4>1, <4>2
    <3>4. g[s] = w[Chosen(s)] + f[r] BY <2>4, <2>5, <3>1
    <3> QED BY <3>1, <3>3, <3>4
  <2> QED BY <2>2, <2>3, <2>5
<1> HIDE DEF Good
<1>5. 0 \in T /\ \A k \in 1..n : k - 1 \in T => k \in T BY <1>1, <1>3, <1>4
<1> HIDE DEF T
<1>6. 0..n \subseteq T BY <1>1, <1>5, UpTo
<1>7. Good(n) BY <1>1, <1>6 DEF T
<1>8. \A s \in SUBSET S : Cardinality(s) <= n BY FS_Subset
<1>9. PICK f \in [SUBSET S -> Int] :
          /\ f[{}] = 0
          /\ \A s \in SUBSET S : s # {} /\ Cardinality(s) <= n =>
               f[s] = w[Chosen(s)] + f[s \ {Chosen(s)}]
  BY <1>7 DEF Good
<1>10. AddsUp(f, S, w) BY <1>8, <1>9 DEF AddsUp
<1> QED BY <1>10

(* Multiplication is repeated addition.                                    *)
LEMMA TimesStep ==
  ASSUME NEW k \in Int, NEW a \in Int
  PROVE  k * a = (k - 1) * a + a /\ 0 * a = 0 /\ 1 * a = a
OBVIOUS

(* A sum of n numbers between a and b is between n * a and n * b.          *)
LEMMA SumBetween ==
  ASSUME NEW S, IsFiniteSet(S), NEW w \in [S -> Int], NEW f, AddsUp(f, S, w),
         NEW a \in Int, NEW b \in Int, \A x \in S : a <= w[x] /\ w[x] <= b
  PROVE  f[S] \in Int /\ Cardinality(S) * a <= f[S] /\ f[S] <= Cardinality(S) * b
<1> DEFINE n == Cardinality(S)
           Good(k) == \A s \in SUBSET S : Cardinality(s) = k =>
                        f[s] \in Int /\ k * a <= f[s] /\ f[s] <= k * b
           T == {k \in 0..n : Good(k)}
<1>1. n \in Nat BY FS_CardinalityType
<1>3. Good(0)
  <2> SUFFICES ASSUME NEW s \in SUBSET S, Cardinality(s) = 0 PROVE f[s] \in Int /\ 0 * a <= f[s] /\ f[s] <= 0 * b
    OBVIOUS
  <2>1. s = {} BY FS_Subset, FS_EmptySet
  <2> QED BY <2>1, TimesStep DEF AddsUp
<1>4. ASSUME NEW k \in 1..n, Good(k - 1) PROVE Good(k)
  <2> SUFFICES ASSUME NEW s \in SUBSET S, Cardinality(s) = k PROVE f[s] \in Int /\ k * a <= f[s] /\ f[s] <= k * b
    OBVIOUS
  <2>1. IsFiniteSet(s) /\ s # {} BY <1>4, FS_Subset, FS_EmptySet
  <2>2. Chosen(s) \in s BY <2>1 DEF Chosen
  <2>3. PICK r \in SUBSET S : r = s \ {Chosen(s)} OBVIOUS
  <2>4. Cardinality(r) = k - 1 BY <2>1, <2>2, <2>3, FS_RemoveElement
  <2>5. f[r] \in Int /\ (k - 1) * a <= f[r] /\ f[r] <= (k - 1) * b BY <1>4, <2>4
  <2>6. f[s] = w[Chosen(s)] + f[r] BY <2>1, <2>3 DEF AddsUp
  <2>7. PICK c \in Int : c = w[Chosen(s)] /\ a <= c /\ c <= b BY <2>2
  <2>8. PICK p \in Int, q \in Int : p = (k - 1) * a /\ q = (k - 1) * b OBVIOUS
  <2>9. k * a = p + a /\ k * b = q + b BY <2>8, TimesStep
  <2> QED BY <2>5, <2>6, <2>7, <2>8, <2>9
<1> HIDE DEF Good
<1>5. 0 \in T /\ \A k \in 1..n : k - 1 \in T => k \in T BY <1>1, <1>3, <1>4
<1> HIDE DEF T
<1>6. 0..n \subseteq T BY <1>1, <1>5, UpTo
<1>7. Good(n) BY <1>1, <1>6 DEF T
<1> QED BY <1>7 DEF Good

CountTotal(S) == MapThenSumSet(LAMBDA o : o.count, S)

(* The same of the counts of observations.                                 *)
LEMMA CountedBetween ==
  ASSUME NEW S, IsFiniteSet(S), NEW a \in Int, NEW b \in Int,
         \A o \in S : o.count \in Int /\ a <= o.count /\ o.count <= b
  PROVE  CountTotal(S) \in Int /\ Cardinality(S) * a <= CountTotal(S) /\ CountTotal(S) <= Cardinality(S) * b
<1> DEFINE w == [o \in S |-> o.count]
           Iter(f) == f = [s \in SUBSET S |->
             IF s = {} THEN 0 ELSE (CHOOSE x \in s : TRUE).count + f[s \ {CHOOSE x \in s : TRUE}]]
           it == CHOOSE f : Iter(f)
<1>1. w \in [S -> Int] /\ \A o \in S : w[o] = o.count OBVIOUS
<1>2. CountTotal(S) = it[S] BY DEF CountTotal, MapThenSumSet, MapThenFoldSet
<1> HIDE DEF w
<1>3. PICK f \in [SUBSET S -> Int] : AddsUp(f, S, w) BY <1>1, SumExists
<1>4. \A s \in SUBSET S : s # {} => Chosen(s) \in S BY DEF Chosen
<1>5. Iter(f)
  <2>1. f = [s \in SUBSET S |-> f[s]] BY <1>3
  <2>2. ASSUME NEW s \in SUBSET S
        PROVE  f[s] = IF s = {} THEN 0
                      ELSE (CHOOSE x \in s : TRUE).count + f[s \ {CHOOSE x \in s : TRUE}]
    <3>1. s # {} => f[s] = w[Chosen(s)] + f[s \ {Chosen(s)}] BY <1>3 DEF AddsUp
    <3>2. s = {} => f[s] = 0 BY <1>3 DEF AddsUp
    <3>3. s # {} => w[Chosen(s)] = Chosen(s).count BY <1>1, <1>4
    <3> QED BY <3>1, <3>2, <3>3 DEF Chosen
  <2> QED BY <2>1, <2>2
<1>6. Iter(it) BY <1>5
<1> HIDE DEF it
<1>7. AddsUp(it, S, w)
  <2>1. it = [s \in SUBSET S |->
             IF s = {} THEN 0 ELSE (CHOOSE x \in s : TRUE).count + it[s \ {CHOOSE x \in s : TRUE}]]
    BY <1>6
  <2>2. it[{}] = 0 BY <2>1
  <2>3. ASSUME NEW s \in SUBSET S, s # {} PROVE it[s] = w[Chosen(s)] + it[s \ {Chosen(s)}]
    <3>1. it[s] = (CHOOSE x \in s : TRUE).count + it[s \ {CHOOSE x \in s : TRUE}] BY <2>1, <2>3
    <3>2. w[Chosen(s)] = Chosen(s).count BY <1>1, <1>4, <2>3
    <3> QED BY <3>1, <3>2 DEF Chosen
  <2> QED BY <2>2, <2>3 DEF AddsUp
<1> QED BY SMTT(30), <1>1, <1>2, <1>7, SumBetween

StrengthsLie(S, a, b) ==
  \A m \in S : /\ m[1].correlated[m[2]].strength \in Int
               /\ a <= m[1].correlated[m[2]].strength
               /\ m[1].correlated[m[2]].strength <= b

Strength(S) == MapThenSumSet(LAMBDA o : o[1].correlated[o[2]].strength, S)

(* The same of the strengths of measurements.                              *)
LEMMA StrengthBetween ==
  ASSUME NEW S, IsFiniteSet(S), NEW a \in Int, NEW b \in Int,
         StrengthsLie(S, a, b)
  PROVE  Strength(S) \in Int /\ Cardinality(S) * a <= Strength(S) /\ Strength(S) <= Cardinality(S) * b
<1> DEFINE w == [o \in S |-> o[1].correlated[o[2]].strength]
           Iter(f) == f = [s \in SUBSET S |->
             IF s = {} THEN 0 ELSE (CHOOSE x \in s : TRUE)[1].correlated[(CHOOSE x \in s : TRUE)[2]].strength + f[s \ {CHOOSE x \in s : TRUE}]]
           it == CHOOSE f : Iter(f)
<1>1. w \in [S -> Int] /\ \A o \in S : w[o] = o[1].correlated[o[2]].strength BY DEF StrengthsLie
<1>2. Strength(S) = it[S] BY DEF Strength, MapThenSumSet, MapThenFoldSet
<1> HIDE DEF w
<1>3. PICK f \in [SUBSET S -> Int] : AddsUp(f, S, w) BY <1>1, SumExists
<1>4. \A s \in SUBSET S : s # {} => Chosen(s) \in S BY DEF Chosen
<1>5. Iter(f)
  <2>1. f = [s \in SUBSET S |-> f[s]] BY <1>3
  <2>2. ASSUME NEW s \in SUBSET S
        PROVE  f[s] = IF s = {} THEN 0
                      ELSE (CHOOSE x \in s : TRUE)[1].correlated[(CHOOSE x \in s : TRUE)[2]].strength + f[s \ {CHOOSE x \in s : TRUE}]
    <3>1. s # {} => f[s] = w[Chosen(s)] + f[s \ {Chosen(s)}] BY <1>3 DEF AddsUp
    <3>2. s = {} => f[s] = 0 BY <1>3 DEF AddsUp
    <3>3. s # {} => w[Chosen(s)] = Chosen(s)[1].correlated[Chosen(s)[2]].strength BY <1>1, <1>4
    <3> QED BY <3>1, <3>2, <3>3 DEF Chosen
  <2> QED BY <2>1, <2>2
<1>6. Iter(it) BY <1>5
<1> HIDE DEF it
<1>7. AddsUp(it, S, w)
  <2>1. it = [s \in SUBSET S |->
             IF s = {} THEN 0 ELSE (CHOOSE x \in s : TRUE)[1].correlated[(CHOOSE x \in s : TRUE)[2]].strength + it[s \ {CHOOSE x \in s : TRUE}]]
    BY <1>6
  <2>2. it[{}] = 0 BY <2>1
  <2>3. ASSUME NEW s \in SUBSET S, s # {} PROVE it[s] = w[Chosen(s)] + it[s \ {Chosen(s)}]
    <3>1. it[s] = (CHOOSE x \in s : TRUE)[1].correlated[(CHOOSE x \in s : TRUE)[2]].strength + it[s \ {CHOOSE x \in s : TRUE}] BY <2>1, <2>3
    <3>2. w[Chosen(s)] = Chosen(s)[1].correlated[Chosen(s)[2]].strength BY <1>1, <1>4, <2>3
    <3> QED BY <3>1, <3>2 DEF Chosen
  <2> QED BY <2>2, <2>3 DEF AddsUp
<1>8. \A x \in S : a <= w[x] /\ w[x] <= b BY <1>1 DEF StrengthsLie
<1>9. it[S] \in Int /\ Cardinality(S) * a <= it[S] /\ it[S] <= Cardinality(S) * b
  BY <1>1, <1>7, <1>8, SumBetween
<1> QED BY <1>2, <1>9

(* A rounded mean is between the bounds of what it is the mean of.         *)
LEMMA MeanBetween ==
  ASSUME NEW n \in Nat \ {0}, NEW a \in Int, NEW b \in Int, NEW s \in Int,
         n * a <= s, s <= n * b
  PROVE  s \div n \in a..b
<1>1. PICK q \in Int : q = s \div n OBVIOUS
<1>2. PICK p \in Int : p = n * q OBVIOUS
<1>3. p <= s /\ s < p + n BY <1>1, <1>2
<1>4. ASSUME q < a PROVE FALSE
  <2>1. q + 1 <= a BY <1>4
  <2>2. n * (q + 1) <= n * a BY <2>1
  <2>3. n * (q + 1) = p + n BY <1>2
  <2> QED BY <1>3, <2>2, <2>3
<1>5. ASSUME b < q PROVE FALSE
  <2>1. b + 1 <= q BY <1>5
  <2>2. n * (b + 1) <= n * q BY <2>1
  <2>3. n * (b + 1) = n * b + n OBVIOUS
  <2> QED BY <1>2, <1>3, <2>2, <2>3
<1> QED BY <1>1, <1>4, <1>5

(* The mean strength of some measurements is between their weakest and     *)
(* their strongest.                                                        *)
LEMMA MeanWithin ==
  ASSUME NEW S, IsFiniteSet(S), S # {}, NEW a \in 0..100, NEW b \in 0..100, StrengthsLie(S, a, b)
  PROVE  Min({100, Strength(S) \div Cardinality(S)}) \in a..b
<1>1. Cardinality(S) \in Nat \ {0} BY FS_CardinalityType, FS_EmptySet
<1>2. PICK c \in Int, d \in Int : c = a /\ d = b OBVIOUS
<1>2a. StrengthsLie(S, c, d) BY <1>2
<1>2b. Strength(S) \in Int /\ Cardinality(S) * c <= Strength(S) /\ Strength(S) <= Cardinality(S) * d
  BY <1>2a, StrengthBetween
<1>3. PICK q \in a..b : q = Strength(S) \div Cardinality(S)
  <2>1. Strength(S) \div Cardinality(S) \in c..d BY <1>1, <1>2b, MeanBetween
  <2> QED BY <1>2, <2>1
<1>4. q \in {100, q} /\ {100, q} \subseteq Int /\ \A x \in {100, q} : q <= x BY <1>3
<1>5. Min({100, q}) = q BY <1>4, MinIs
<1> QED BY <1>3, <1>5

(* A function that repeats nothing has as many values as arguments.        *)
LEMMA ImageSize ==
  ASSUME NEW K, IsFiniteSet(K), NEW f, DOMAIN f = K, \A j, k \in K : f[j] = f[k] => j = k
  PROVE  IsFiniteSet({f[k] : k \in K}) /\ Cardinality({f[k] : k \in K}) = Cardinality(K)
<1> DEFINE T == {f[k] : k \in K}
           g == [k \in K |-> f[k]]
<1>1. g \in Surjection(K, T) BY DEF Surjection
<1>2. g \in Injection(K, T) BY DEF Injection, IsInjective
<1> HIDE DEF T, g
<1>3. IsFiniteSet(T) BY <1>1, FS_Surjection
<1>4. Cardinality(T) = Cardinality(K)
  <2>1. Cardinality(T) <= Cardinality(K) BY <1>1, FS_Surjection
  <2>2. Cardinality(K) <= Cardinality(T) BY <1>2, <1>3, FS_Injection
  <2> QED BY <1>3, <2>1, <2>2, FS_CardinalityType
<1> QED BY <1>3, <1>4 DEF T

Alike(observed, e, K) == {o \in observed : o.key = e} = {Observation(e, k) : k \in K}
Single(observed, e, o) == {x \in observed : x.key = e} = {o}
Sums(observed, e, count, confidence) ==
  /\ e \in DOMAIN PutEdges(observed)
  /\ PutEdges(observed)[e].count = count
  /\ PutEdges(observed)[e].confidence = confidence

(* Observations of an edge that only differ in their number count one      *)
(* each.                                                                   *)
LEMMA CountsAlike ==
  ASSUME NEW observed, NEW e, NEW K, IsFiniteSet(K), K # {},
         Alike(observed, e, K)
  PROVE  Sums(observed, e, Cardinality(K), 100)
<1> DEFINE f == [k \in K |-> Observation(e, k)]
           O == {o \in observed : o.key = e}
<1>1. \A k \in K : f[k] = Observation(e, k) OBVIOUS
<1>2. \A j, k \in K : f[j] = f[k] => j = k BY DEF Observation
<1>3. DOMAIN f = K OBVIOUS
<1>4. O = {f[k] : k \in K} BY DEF Alike
<1>5. \A o \in O : o.key = e /\ o.count = 1 /\ o.confidence = 100 BY DEF Observation, Alike
<1>6. O # {} BY DEF Alike
<1>7. e \in {o.key : o \in observed} BY <1>6
<1>8. PutEdges(observed)[e] = [count |-> CountTotal(O), confidence |-> Max({o.confidence : o \in O})]
  BY <1>7 DEF PutEdges, CountTotal
<1>9. e \in DOMAIN PutEdges(observed) BY <1>7 DEF PutEdges
<1> HIDE DEF f, O
<1>10. IsFiniteSet(O) /\ Cardinality(O) = Cardinality(K) BY <1>2, <1>3, <1>4, ImageSize
<1>11. Cardinality(O) * 1 <= CountTotal(O) /\ CountTotal(O) <= Cardinality(O) * 1 /\ CountTotal(O) \in Int
  BY <1>5, <1>10, CountedBetween
<1>12. CountTotal(O) = Cardinality(K) BY <1>10, <1>11, FS_CardinalityType
<1>13. {o.confidence : o \in O} = {100} BY <1>5, <1>6
<1>14. Max({100}) = 100 BY MaxIs
<1>15. PutEdges(observed)[e] = [count |-> Cardinality(K), confidence |-> 100]
  BY <1>8, <1>12, <1>13, <1>14
<1> QED BY <1>9, <1>15 DEF Sums

(* A single observation of an edge is what the edge shows.                 *)
LEMMA CountsOne ==
  ASSUME NEW observed, NEW e, NEW o, Single(observed, e, o),
         o.count \in Int, o.confidence \in Int
  PROVE  Sums(observed, e, o.count, o.confidence)
<1>1. e \in {x.key : x \in observed} BY DEF Single
<1>2. PutEdges(observed)[e] = [count |-> CountTotal({o}), confidence |-> Max({x.confidence : x \in {o}})]
  BY <1>1 DEF PutEdges, CountTotal, Single
<1>3. e \in DOMAIN PutEdges(observed) BY <1>1 DEF PutEdges
<1>4. IsFiniteSet({o}) /\ Cardinality({o}) = 1 BY FS_Singleton
<1>5. PICK c \in Int, d \in Int : c = o.count /\ d = o.confidence OBVIOUS
<1>6. 1 * c <= CountTotal({o}) /\ CountTotal({o}) <= 1 * c /\ CountTotal({o}) \in Int
  <2>1. \A x \in {o} : x.count \in Int /\ c <= x.count /\ x.count <= c BY <1>5
  <2> QED BY <1>4, <2>1, CountedBetween
<1>7. {x.confidence : x \in {o}} = {d} BY <1>5
<1>8. Max({d}) = d BY MaxIs
<1>9. PutEdges(observed)[e] = [count |-> c, confidence |-> d] BY <1>2, <1>6, <1>7, <1>8
<1> QED BY <1>3, <1>5, <1>9 DEF Sums

Strongly(I) == UNION {{<<i, k>> : k \in StrongCorrelations(i)} : i \in I}
PairOf(m) == {m[1].metric, m[1].correlated[m[2]].metric}
OnPair(I, pair) == {m \in Strongly(I) : PairOf(m) = pair}
EndsOf(m) == IF m[1].metric < m[1].correlated[m[2]].metric
             THEN <<m[1].metric, m[1].correlated[m[2]].metric>>
             ELSE <<m[1].correlated[m[2]].metric, m[1].metric>>
PairEdge(m, n) == Edge(Node("metric", m), "correlates_with", Node("metric", n))
CorrelationOf(I, m) ==
  [key |-> PairEdge(EndsOf(m)[1], EndsOf(m)[2]), nth |-> 0,
   count |-> Cardinality(OnPair(I, PairOf(m))),
   confidence |-> Min({100, Strength(OnPair(I, PairOf(m))) \div Cardinality(OnPair(I, PairOf(m)))})]

(* The correlations are one observation per measured pair of metrics.      *)
LEMMA CorrelationsAre ==
  ASSUME NEW I
  PROVE  Correlations(I) = {CorrelationOf(I, m) : m \in Strongly(I)}
BY DEF Correlations, CorrelationOf, Strongly, PairOf, OnPair, EndsOf, PairEdge, Strength

MetricAt(i, k) == IF k = 0 THEN i.metric ELSE i.cited[k]

Serves(d) == Observation(Edge(Node("dataset", d.id), "derived_from", Node("service", d.service)), 0)
Measures(d, k) == Observation(Edge(Node("metric", d.measures[k]), "derived_from", Node("dataset", d.id)), k)
Governs(p, k) == Observation(Edge(Node("metric", p.metrics[k]), "governed_by", Node("policy", p.id)), k)
Occurring(i, k) ==
  Observation(Edge(Node("incident", i.id), "co_occurred_in_incident", Node("metric", MetricAt(i, k))), k)

Serving(in, o) == \E d \in in.datasets : d.service # 0 /\ o = Serves(d)
Measuring(in, o) == \E d \in in.datasets : \E k \in DOMAIN d.measures : o = Measures(d, k)
Governing(in, o) == \E p \in in.policies : \E k \in DOMAIN p.metrics : o = Governs(p, k)
Correlating(in, o) == \E m \in Strongly(in.incidents) : o = CorrelationOf(in.incidents, m)
Cooccurring(in, o) == \E i \in in.incidents : \E k \in {0} \cup DOMAIN i.cited : o = Occurring(i, k)

ObservedIn(in) == UNION {DeriveDatasetStructure(in.datasets).edges, DerivePolicyGovernance(in.policies).edges,
                       DeriveIncidentEvidence(in.incidents).edges}
Known(in) == UNION {DeriveDatasetStructure(in.datasets).nodes, DerivePolicyGovernance(in.policies).nodes,
                    DeriveIncidentEvidence(in.incidents).nodes}

(* What is derived, in terms of what is known and observed.                *)
LEMMA DerivationsAre ==
  ASSUME NEW in
  PROVE  Derivations(in) = [nodes |-> Known(in), edges |-> PutEdges(ObservedIn(in))]
<1> DEFINE F == {DeriveDatasetStructure(in.datasets), DerivePolicyGovernance(in.policies),
                 DeriveIncidentEvidence(in.incidents)}
<1>1. Derivations(in) = [nodes |-> UNION {f.nodes : f \in F}, edges |-> PutEdges(UNION {f.edges : f \in F})]
  BY DEF Derivations
<1>2. UNION {f.nodes : f \in F} = Known(in) BY DEF Known
<1>3. UNION {f.edges : f \in F} = ObservedIn(in) BY DEF ObservedIn
<1> HIDE DEF F
<1> QED BY <1>1, <1>2, <1>3

(* What is observed of datasets: their service and their measures.         *)
LEMMA FromDatasets ==
  ASSUME NEW in, NEW o
  PROVE  o \in DeriveDatasetStructure(in.datasets).edges <=> Serving(in, o) \/ Measuring(in, o)
<1> DEFINE E1 == {Serves(d) : d \in {d \in in.datasets : d.service # 0}}
           E2 == UNION {{Measures(d, k) : k \in DOMAIN d.measures} : d \in in.datasets}
<1>1. DeriveDatasetStructure(in.datasets).edges = E1 \cup E2
  BY DEF DeriveDatasetStructure, Derived, Serves, Measures
<1>2. o \in E1 <=> Serving(in, o) BY DEF Serving
<1>3. o \in E2 <=> Measuring(in, o) BY DEF Measuring
<1> HIDE DEF E1, E2
<1> QED BY <1>1, <1>2, <1>3

(* What is observed of policies: the metrics they name.                    *)
LEMMA FromPolicies ==
  ASSUME NEW in, NEW o, \A p \in in.policies : p.metrics \in Seq(Int)
  PROVE  o \in DerivePolicyGovernance(in.policies).edges <=> Governing(in, o)
<1> DEFINE G == {p \in in.policies : p.metrics # <<>>}
           E == UNION {{Governs(p, k) : k \in DOMAIN p.metrics} : p \in G}
<1>1. DerivePolicyGovernance(in.policies).edges = E
  BY DEF DerivePolicyGovernance, Derived, Governs
<1>2. \A p \in in.policies : \A k \in DOMAIN p.metrics : p \in G OBVIOUS
<1>3. o \in E <=> \E p \in G : \E k \in DOMAIN p.metrics : o = Governs(p, k) OBVIOUS
<1>4. o \in E <=> Governing(in, o) BY <1>2, <1>3 DEF Governing
<1> HIDE DEF E
<1> QED BY <1>1, <1>4

(* What is observed of incidents: the correlations, the metric each was    *)
(* raised on and those it cites.                                           *)
LEMMA FromIncidents ==
  ASSUME NEW in, NEW o, \A i \in in.incidents : i.cited \in Seq(Int)
  PROVE  o \in DeriveIncidentEvidence(in.incidents).edges <=> Correlating(in, o) \/ Cooccurring(in, o)
<1> DEFINE Occurs(i, metric, nth) ==
             Observation(Edge(Node("incident", i.id), "co_occurred_in_incident", metric), nth)
           Some(i) == {Occurs(i, Node("metric", i.metric), 0)}
                        \cup {Occurs(i, Node("metric", i.cited[k]), k) : k \in DOMAIN i.cited}
           E == UNION {Some(i) : i \in in.incidents}
<1>1. DeriveIncidentEvidence(in.incidents).edges = Correlations(in.incidents) \cup E
  BY DEF DeriveIncidentEvidence, Derived
<1>2. o \in Correlations(in.incidents) <=> Correlating(in, o) BY CorrelationsAre DEF Correlating
<1>3. ASSUME NEW i \in in.incidents
      PROVE  o \in Some(i) <=> \E k \in {0} \cup DOMAIN i.cited : o = Occurring(i, k)
  <2>1. 0 \notin DOMAIN i.cited OBVIOUS
  <2>2. Occurring(i, 0) = Occurs(i, Node("metric", i.metric), 0) BY DEF Occurring, MetricAt
  <2>3. \A k \in DOMAIN i.cited : Occurring(i, k) = Occurs(i, Node("metric", i.cited[k]), k)
    BY <2>1 DEF Occurring, MetricAt
  <2> HIDE DEF Occurs
  <2> QED BY <2>2, <2>3
<1> HIDE DEF Some
<1>4. o \in E <=> \E i \in in.incidents : o \in Some(i) OBVIOUS
<1>5. o \in E <=> Cooccurring(in, o) BY <1>3, <1>4 DEF Cooccurring
<1> HIDE DEF E
<1> QED BY <1>1, <1>2, <1>5

(* Everything that is observed has one of five forms.                      *)
LEMMA ObservedIs ==
  ASSUME NEW in, DeriveInput(in), NEW o
  PROVE  o \in ObservedIn(in) <=>
           Serving(in, o) \/ Measuring(in, o) \/ Governing(in, o) \/ Correlating(in, o) \/ Cooccurring(in, o)
<1>1. /\ \A p \in in.policies : p.metrics \in Seq(Int)
      /\ \A i \in in.incidents : i.cited \in Seq(Int)
  BY DEF DeriveInput
<1>2. o \in ObservedIn(in) <=> \/ o \in DeriveDatasetStructure(in.datasets).edges
                             \/ o \in DerivePolicyGovernance(in.policies).edges
                             \/ o \in DeriveIncidentEvidence(in.incidents).edges
  BY DEF ObservedIn
<1> QED BY <1>1, <1>2, FromDatasets, FromPolicies, FromIncidents

KeyOf3(o, s, x, type, t, y) ==
  /\ o.key = <<<<s, x>>, type, <<t, y>>>>
  /\ o.key[1] = <<s, x>> /\ o.key[1][1] = s /\ o.key[1][2] = x /\ o.key[2] = type
  /\ o.key[3] = <<t, y>> /\ o.key[3][1] = t /\ o.key[3][2] = y

(* The keys of the five forms.                                             *)
LEMMA KeysAre ==
  /\ \A d : KeyOf3(Serves(d), "dataset", d.id, "derived_from", "service", d.service)
  /\ \A d, k : KeyOf3(Measures(d, k), "metric", d.measures[k], "derived_from", "dataset", d.id)
  /\ \A p, k : KeyOf3(Governs(p, k), "metric", p.metrics[k], "governed_by", "policy", p.id)
  /\ \A I, m : KeyOf3(CorrelationOf(I, m), "metric", EndsOf(m)[1], "correlates_with",
                      "metric", EndsOf(m)[2])
  /\ \A i, k : KeyOf3(Occurring(i, k), "incident", i.id, "co_occurred_in_incident",
                      "metric", MetricAt(i, k))
<1>1. ASSUME NEW o, NEW s, NEW x, NEW type, NEW t, NEW y, o.key = <<<<s, x>>, type, <<t, y>>>>
      PROVE  KeyOf3(o, s, x, type, t, y)
  BY <1>1 DEF KeyOf3
<1>2. /\ \A d : Serves(d).key = <<<<"dataset", d.id>>, "derived_from", <<"service", d.service>>>>
      /\ \A d, k : Measures(d, k).key = <<<<"metric", d.measures[k]>>, "derived_from", <<"dataset", d.id>>>>
      /\ \A p, k : Governs(p, k).key = <<<<"metric", p.metrics[k]>>, "governed_by", <<"policy", p.id>>>>
      /\ \A I, m : CorrelationOf(I, m).key =
           <<<<"metric", EndsOf(m)[1]>>, "correlates_with", <<"metric", EndsOf(m)[2]>>>>
      /\ \A i, k : Occurring(i, k).key =
           <<<<"incident", i.id>>, "co_occurred_in_incident", <<"metric", MetricAt(i, k)>>>>
  BY DEF Serves, Measures, Governs, CorrelationOf, Occurring, Observation, Edge, Node, PairEdge
<1> QED BY <1>1, <1>2

(* The type of an edge tells the form of its observations.                 *)
LEMMA TypesAre ==
  ASSUME NEW in, NEW o
  PROVE  /\ Serving(in, o) => o.key[2] = "derived_from" /\ o.key[1][1] = "dataset"
         /\ Measuring(in, o) => o.key[2] = "derived_from" /\ o.key[1][1] = "metric"
         /\ Governing(in, o) => o.key[2] = "governed_by"
         /\ Correlating(in, o) => o.key[2] = "correlates_with"
         /\ Cooccurring(in, o) => o.key[2] = "co_occurred_in_incident"
<1>1. ASSUME Serving(in, o) PROVE o.key[2] = "derived_from" /\ o.key[1][1] = "dataset"
  <2>1. PICK d \in in.datasets : o = Serves(d) BY <1>1 DEF Serving
  <2>2. KeyOf3(Serves(d), "dataset", d.id, "derived_from", "service", d.service) BY KeysAre
  <2> QED BY <2>1, <2>2 DEF KeyOf3
<1>2. ASSUME Measuring(in, o) PROVE o.key[2] = "derived_from" /\ o.key[1][1] = "metric"
  <2>1. PICK d \in in.datasets : \E k \in DOMAIN d.measures : o = Measures(d, k) BY <1>2 DEF Measuring
  <2>2. PICK k \in DOMAIN d.measures : o = Measures(d, k) BY <2>1
  <2>3. KeyOf3(Measures(d, k), "metric", d.measures[k], "derived_from", "dataset", d.id) BY KeysAre
  <2> QED BY <2>2, <2>3 DEF KeyOf3
<1>3. ASSUME Governing(in, o) PROVE o.key[2] = "governed_by"
  <2>1. PICK p \in in.policies : \E k \in DOMAIN p.metrics : o = Governs(p, k) BY <1>3 DEF Governing
  <2>2. PICK k \in DOMAIN p.metrics : o = Governs(p, k) BY <2>1
  <2>3. KeyOf3(Governs(p, k), "metric", p.metrics[k], "governed_by", "policy", p.id) BY KeysAre
  <2> QED BY <2>2, <2>3 DEF KeyOf3
<1>4. ASSUME Correlating(in, o) PROVE o.key[2] = "correlates_with"
  <2>1. PICK m \in Strongly(in.incidents) : o = CorrelationOf(in.incidents, m)
    BY <1>4 DEF Correlating
  <2>2. KeyOf3(CorrelationOf(in.incidents, m), "metric", EndsOf(m)[1], "correlates_with",
               "metric", EndsOf(m)[2])
    BY KeysAre
  <2> QED BY <2>1, <2>2 DEF KeyOf3
<1>5. ASSUME Cooccurring(in, o) PROVE o.key[2] = "co_occurred_in_incident"
  <2>1. PICK i \in in.incidents : \E k \in {0} \cup DOMAIN i.cited : o = Occurring(i, k)
    BY <1>5 DEF Cooccurring
  <2>2. PICK k \in {0} \cup DOMAIN i.cited : o = Occurring(i, k) BY <2>1
  <2>3. KeyOf3(Occurring(i, k), "incident", i.id, "co_occurred_in_incident", "metric", MetricAt(i, k))
    BY KeysAre
  <2> QED BY <2>2, <2>3 DEF KeyOf3
<1> QED BY <1>1, <1>2, <1>3, <1>4, <1>5

(* A list has finitely many positions.                                     *)
LEMMA FiniteDomain ==
  ASSUME NEW T, NEW s \in Seq(T)
  PROVE  IsFiniteSet(DOMAIN s)
<1>1. PICK n \in Nat : n = Len(s) /\ DOMAIN s = 1..n OBVIOUS
<1> QED BY <1>1, FS_Interval

CountsAll(in, e, facts) ==
  /\ PutEdges(ObservedIn(in))[e].count = Cardinality(facts)
  /\ PutEdges(ObservedIn(in))[e].confidence = 100

MetricsOf(p) == DOMAIN p.metrics
MeasuresOf(d) == DOMAIN d.measures
CitationsOf(i) == {0} \cup DOMAIN i.cited

Paired(F, x, K) == F = {<<x, k>> : k \in K}

(* An edge whose observations are numbered counts as many facts as there   *)
(* are numbers.                                                            *)
LEMMA CountedAll ==
  ASSUME NEW in, NEW e, NEW K, IsFiniteSet(K), K # {}, NEW x,
         Alike(ObservedIn(in), e, K), NEW F, Paired(F, x, K)
  PROVE  CountsAll(in, e, F)
<1> DEFINE f == [k \in K |-> <<x, k>>]
<1>1. \A j, k \in K : f[j] = f[k] => j = k OBVIOUS
<1>2. F = {f[k] : k \in K} BY DEF Paired
<1>3. DOMAIN f = K OBVIOUS
<1> HIDE DEF f
<1>4. Cardinality(F) = Cardinality(K) BY <1>1, <1>2, <1>3, ImageSize
<1>5. Sums(ObservedIn(in), e, Cardinality(K), 100) BY CountsAlike
<1> QED BY <1>4, <1>5 DEF CountsAll, Sums

(* An edge from a metric to a policy counts how often the policy names it. *)
LEMMA GovernedAll ==
  ASSUME NEW in, DeriveInput(in), NEW x \in in.policies, NEW at \in MetricsOf(x), NEW e, e = Governs(x, at).key
  PROVE  CountsAll(in, e, Facts(in, e))
<1> DEFINE K == {k \in MetricsOf(x) : x.metrics[k] = e[1][2]}
<1>0. KeyOf3(Governs(x, at), "metric", x.metrics[at], "governed_by", "policy", x.id) BY KeysAre
<1>1. KeyOf3(Governs(x, at), "metric", x.metrics[at], "governed_by", "policy", x.id) /\ e[2] = "governed_by" /\ e[1][1] = "metric" /\ e[1][2] = x.metrics[at] /\ e[3][2] = x.id
  BY <1>0 DEF KeyOf3
<1>2. \A y \in in.policies : y.id = x.id => y = x BY DEF DeriveInput
<1>3. \A k \in MetricsOf(x) : Governs(x, k) = Observation(Governs(x, k).key, k)
  BY DEF Governs, Observation
<1>4. ASSUME NEW k \in K PROVE Governs(x, k).key = e
  <2>1. KeyOf3(Governs(x, k), "metric", x.metrics[k], "governed_by", "policy", x.id) BY KeysAre
  <2>2. x.metrics[k] = x.metrics[at] BY <1>1
  <2> QED BY <1>1, <2>1, <2>2 DEF KeyOf3
<1>5. ASSUME NEW o \in ObservedIn(in), o.key = e PROVE \E k \in K : o = Observation(e, k)
  <2>1. Governing(in, o)
    <3> QED BY <1>1, <1>5, TypesAre, ObservedIs
  <2>2. PICK y \in in.policies : \E k \in MetricsOf(y) : o = Governs(y, k) BY <2>1 DEF Governing, MetricsOf
  <2>3. PICK k \in MetricsOf(y) : o = Governs(y, k) BY <2>2
  <2>4. y.id = x.id /\ y.metrics[k] = e[1][2]
    <3>1. KeyOf3(Governs(y, k), "metric", y.metrics[k], "governed_by", "policy", y.id) BY KeysAre
    <3> QED BY <1>1, <1>5, <2>3, <3>1 DEF KeyOf3
  <2>5. y = x BY <1>2, <2>4
  <2>6. k \in K BY <2>3, <2>4, <2>5
  <2>7. o = Observation(e, k) BY <1>3, <1>4, <2>3, <2>5, <2>6
  <2> QED BY <2>6, <2>7
<1>6. ASSUME NEW k \in K PROVE Observation(e, k) \in ObservedIn(in) /\ Observation(e, k).key = e
  <2>1. Observation(e, k) = Governs(x, k) BY <1>3, <1>4
  <2>2. Governing(in, Governs(x, k)) BY DEF Governing, MetricsOf
  <2> QED BY <1>4, <2>1, <2>2, ObservedIs
<1>7. Alike(ObservedIn(in), e, K) BY <1>5, <1>6 DEF Alike
<1>8. IsFiniteSet(K) /\ K # {}
  <2>1. IsFiniteSet(MetricsOf(x)) BY FiniteDomain DEF DeriveInput, MetricsOf
  <2>2. at \in K BY <1>1
  <2>3. K \in SUBSET MetricsOf(x) OBVIOUS
  <2> HIDE DEF K
  <2> QED BY <2>1, <2>2, <2>3, FS_Subset
<1>9. Paired(Facts(in, e), x, K)
  <2>1. {y \in in.policies : y.id = e[3][2]} = {x} BY <1>1, <1>2
  <2>2. Facts(in, e) = UNION {{<<y, k>> : k \in {k \in MetricsOf(y) : y.metrics[k] = e[1][2]}} :
                          y \in {y \in in.policies : y.id = e[3][2]}}
    BY <1>1 DEF Facts, MetricsOf
  <2> HIDE DEF K
  <2>3. Facts(in, e) = UNION {{<<y, k>> : k \in {k \in MetricsOf(y) : y.metrics[k] = e[1][2]}} : y \in {x}} BY <2>1, <2>2
  <2> QED BY <2>3 DEF K, Paired
<1> HIDE DEF K
<1> QED BY <1>7, <1>8, <1>9, CountedAll

(* An edge from a metric to a dataset counts how often the dataset names   *)
(* it.                                                                     *)
LEMMA MeasuredAll ==
  ASSUME NEW in, DeriveInput(in), NEW x \in in.datasets, NEW at \in MeasuresOf(x), NEW e, e = Measures(x, at).key
  PROVE  CountsAll(in, e, Facts(in, e))
<1> DEFINE K == {k \in MeasuresOf(x) : x.measures[k] = e[1][2]}
<1>0. KeyOf3(Measures(x, at), "metric", x.measures[at], "derived_from", "dataset", x.id) BY KeysAre
<1>1. KeyOf3(Measures(x, at), "metric", x.measures[at], "derived_from", "dataset", x.id) /\ e[2] = "derived_from" /\ e[1][1] = "metric" /\ e[1][2] = x.measures[at] /\ e[3][2] = x.id
  BY <1>0 DEF KeyOf3
<1>2. \A y \in in.datasets : y.id = x.id => y = x BY DEF DeriveInput
<1>3. \A k \in MeasuresOf(x) : Measures(x, k) = Observation(Measures(x, k).key, k)
  BY DEF Measures, Observation
<1>4. ASSUME NEW k \in K PROVE Measures(x, k).key = e
  <2>1. KeyOf3(Measures(x, k), "metric", x.measures[k], "derived_from", "dataset", x.id) BY KeysAre
  <2>2. x.measures[k] = x.measures[at] BY <1>1
  <2> QED BY <1>1, <2>1, <2>2 DEF KeyOf3
<1>5. ASSUME NEW o \in ObservedIn(in), o.key = e PROVE \E k \in K : o = Observation(e, k)
  <2>1. Measuring(in, o)
    <3> QED BY <1>1, <1>5, TypesAre, ObservedIs
  <2>2. PICK y \in in.datasets : \E k \in MeasuresOf(y) : o = Measures(y, k) BY <2>1 DEF Measuring, MeasuresOf
  <2>3. PICK k \in MeasuresOf(y) : o = Measures(y, k) BY <2>2
  <2>4. y.id = x.id /\ y.measures[k] = e[1][2]
    <3>1. KeyOf3(Measures(y, k), "metric", y.measures[k], "derived_from", "dataset", y.id) BY KeysAre
    <3> QED BY <1>1, <1>5, <2>3, <3>1 DEF KeyOf3
  <2>5. y = x BY <1>2, <2>4
  <2>6. k \in K BY <2>3, <2>4, <2>5
  <2>7. o = Observation(e, k) BY <1>3, <1>4, <2>3, <2>5, <2>6
  <2> QED BY <2>6, <2>7
<1>6. ASSUME NEW k \in K PROVE Observation(e, k) \in ObservedIn(in) /\ Observation(e, k).key = e
  <2>1. Observation(e, k) = Measures(x, k) BY <1>3, <1>4
  <2>2. Measuring(in, Measures(x, k)) BY DEF Measuring, MeasuresOf
  <2> QED BY <1>4, <2>1, <2>2, ObservedIs
<1>7. Alike(ObservedIn(in), e, K) BY <1>5, <1>6 DEF Alike
<1>8. IsFiniteSet(K) /\ K # {}
  <2>1. IsFiniteSet(MeasuresOf(x)) BY FiniteDomain DEF DeriveInput, MeasuresOf
  <2>2. at \in K BY <1>1
  <2>3. K \in SUBSET MeasuresOf(x) OBVIOUS
  <2> HIDE DEF K
  <2> QED BY <2>1, <2>2, <2>3, FS_Subset
<1>9. Paired(Facts(in, e), x, K)
  <2>1. {y \in in.datasets : y.id = e[3][2]} = {x} BY <1>1, <1>2
  <2>2. Facts(in, e) = UNION {{<<y, k>> : k \in {k \in MeasuresOf(y) : y.measures[k] = e[1][2]}} :
                          y \in {y \in in.datasets : y.id = e[3][2]}}
    BY <1>1 DEF Facts, MeasuresOf
  <2> HIDE DEF K
  <2>3. Facts(in, e) = UNION {{<<y, k>> : k \in {k \in MeasuresOf(y) : y.measures[k] = e[1][2]}} : y \in {x}} BY <2>1, <2>2
  <2> QED BY <2>3 DEF K, Paired
<1> HIDE DEF K
<1> QED BY <1>7, <1>8, <1>9, CountedAll

(* An edge from an incident to a metric counts how often the incident was  *)
(* raised on it or cites it.                                               *)
LEMMA OccurredAll ==
  ASSUME NEW in, DeriveInput(in), NEW x \in in.incidents, NEW at \in CitationsOf(x), NEW e, e = Occurring(x, at).key
  PROVE  CountsAll(in, e, Facts(in, e))
<1> DEFINE K == {k \in CitationsOf(x) : MetricAt(x, k) = e[3][2]}
<1>0. KeyOf3(Occurring(x, at), "incident", x.id, "co_occurred_in_incident", "metric", MetricAt(x, at)) BY KeysAre
<1>1. KeyOf3(Occurring(x, at), "incident", x.id, "co_occurred_in_incident", "metric", MetricAt(x, at)) /\ e[2] = "co_occurred_in_incident" /\ e[1][1] = "incident" /\ e[3][2] = MetricAt(x, at) /\ e[1][2] = x.id
  BY <1>0 DEF KeyOf3
<1>2. \A y \in in.incidents : y.id = x.id => y = x BY DEF DeriveInput
<1>3. \A k \in CitationsOf(x) : Occurring(x, k) = Observation(Occurring(x, k).key, k)
  BY DEF Occurring, Observation
<1>4. ASSUME NEW k \in K PROVE Occurring(x, k).key = e
  <2>1. KeyOf3(Occurring(x, k), "incident", x.id, "co_occurred_in_incident", "metric", MetricAt(x, k)) BY KeysAre
  <2>2. MetricAt(x, k) = MetricAt(x, at) BY <1>1
  <2> QED BY <1>1, <2>1, <2>2 DEF KeyOf3
<1>5. ASSUME NEW o \in ObservedIn(in), o.key = e PROVE \E k \in K : o = Observation(e, k)
  <2>1. Cooccurring(in, o)
    <3> QED BY <1>1, <1>5, TypesAre, ObservedIs
  <2>2. PICK y \in in.incidents : \E k \in CitationsOf(y) : o = Occurring(y, k) BY <2>1 DEF Cooccurring, CitationsOf
  <2>3. PICK k \in CitationsOf(y) : o = Occurring(y, k) BY <2>2
  <2>4. y.id = x.id /\ MetricAt(y, k) = e[3][2]
    <3>1. KeyOf3(Occurring(y, k), "incident", y.id, "co_occurred_in_incident", "metric", MetricAt(y, k)) BY KeysAre
    <3> QED BY <1>1, <1>5, <2>3, <3>1 DEF KeyOf3
  <2>5. y = x BY <1>2, <2>4
  <2>6. k \in K BY <2>3, <2>4, <2>5
  <2>7. o = Observation(e, k) BY <1>3, <1>4, <2>3, <2>5, <2>6
  <2> QED BY <2>6, <2>7
<1>6. ASSUME NEW k \in K PROVE Observation(e, k) \in ObservedIn(in) /\ Observation(e, k).key = e
  <2>1. Observation(e, k) = Occurring(x, k) BY <1>3, <1>4
  <2>2. Cooccurring(in, Occurring(x, k)) BY DEF Cooccurring, CitationsOf
  <2> QED BY <1>4, <2>1, <2>2, ObservedIs
<1>7. Alike(ObservedIn(in), e, K) BY <1>5, <1>6 DEF Alike
<1>8. IsFiniteSet(K) /\ K # {}
  <2>1. IsFiniteSet(CitationsOf(x))
    <3>1. IsFiniteSet(DOMAIN x.cited) BY FiniteDomain DEF DeriveInput
    <3>2. IsFiniteSet({0}) BY FS_Singleton
    <3> QED BY <3>1, <3>2, FS_Union DEF CitationsOf
  <2>2. at \in K BY <1>1
  <2>3. K \in SUBSET CitationsOf(x) OBVIOUS
  <2> HIDE DEF K
  <2> QED BY <2>1, <2>2, <2>3, FS_Subset
<1>9. Paired(Facts(in, e), x, K)
  <2>1. {y \in in.incidents : y.id = e[1][2]} = {x} BY <1>1, <1>2
  <2>2. Facts(in, e) = UNION {{<<y, k>> : k \in {k \in CitationsOf(y) : MetricAt(y, k) = e[3][2]}} :
                          y \in {y \in in.incidents : y.id = e[1][2]}}
    BY <1>1 DEF Facts, CitationsOf, MetricAt
  <2> HIDE DEF K
  <2>3. Facts(in, e) = UNION {{<<y, k>> : k \in {k \in CitationsOf(y) : MetricAt(y, k) = e[3][2]}} : y \in {x}} BY <2>1, <2>2
  <2> QED BY <2>3 DEF K, Paired
<1> HIDE DEF K
<1> QED BY <1>7, <1>8, <1>9, CountedAll

(* An edge from a dataset to its service counts once.                      *)
LEMMA ServedAll ==
  ASSUME NEW in, DeriveInput(in), NEW x \in in.datasets, x.service # 0, NEW e, e = Serves(x).key
  PROVE  CountsAll(in, e, Facts(in, e))
<1>0. KeyOf3(Serves(x), "dataset", x.id, "derived_from", "service", x.service) BY KeysAre
<1>1. /\ e[2] = "derived_from" /\ e[1][1] = "dataset" /\ e[1][2] = x.id /\ e[3][2] = x.service
  BY <1>0 DEF KeyOf3
<1>2. \A y \in in.datasets : y.id = x.id => y = x BY DEF DeriveInput
<1>3. Serves(x) = Observation(e, 0) BY DEF Serves, Observation
<1>4. ASSUME NEW o \in ObservedIn(in), o.key = e PROVE o = Observation(e, 0)
  <2>1. Serving(in, o) BY <1>1, <1>4, TypesAre, ObservedIs
  <2>2. PICK y \in in.datasets : o = Serves(y) BY <2>1 DEF Serving
  <2>3. KeyOf3(Serves(y), "dataset", y.id, "derived_from", "service", y.service) BY KeysAre
  <2>4. y.id = x.id BY <1>1, <1>4, <2>2, <2>3 DEF KeyOf3
  <2>5. y = x BY <1>2, <2>4
  <2> QED BY <1>3, <2>2, <2>5
<1>5. Serving(in, Serves(x)) BY DEF Serving
<1>6. Observation(e, 0) \in ObservedIn(in) /\ Observation(e, 0).key = e
  BY <1>3, <1>5, ObservedIs
<1>7. Alike(ObservedIn(in), e, {0}) BY <1>4, <1>6 DEF Alike
<1>8. Facts(in, e) = {<<x, 0>>} BY <1>1, <1>2 DEF Facts
<1>9. Paired(Facts(in, e), x, {0}) BY <1>8 DEF Paired
<1>10. IsFiniteSet({0}) /\ {0} # {} BY FS_Singleton
<1> QED BY <1>7, <1>9, <1>10, CountedAll

(* There are finitely many strong correlations.                            *)
LEMMA StronglyFinite ==
  ASSUME NEW in, DeriveInput(in)
  PROVE  IsFiniteSet(Strongly(in.incidents))
<1> DEFINE I == in.incidents
           Mine(i) == {<<i, k>> : k \in StrongCorrelations(i)}
           f == [i \in I |-> Mine(i)]
           F == {f[i] : i \in I}
<1>1. IsFiniteSet(I) BY DEF DeriveInput
<1>2. ASSUME NEW i \in I PROVE IsFiniteSet(Mine(i))
  <2>1. IsFiniteSet(DOMAIN i.correlated) BY FiniteDomain DEF DeriveInput
  <2>2. StrongCorrelations(i) \in SUBSET DOMAIN i.correlated BY DEF StrongCorrelations
  <2>3. IsFiniteSet(StrongCorrelations(i)) BY <2>1, <2>2, FS_Subset
  <2> DEFINE g == [k \in StrongCorrelations(i) |-> <<i, k>>]
  <2>4. DOMAIN g = StrongCorrelations(i) /\ \A j, k \in StrongCorrelations(i) : g[j] = g[k] => j = k
    OBVIOUS
  <2>5. Mine(i) = {g[k] : k \in StrongCorrelations(i)} OBVIOUS
  <2> HIDE DEF g, Mine
  <2> QED BY <2>3, <2>4, <2>5, ImageSize
<1> HIDE DEF Mine
<1>3. f \in Surjection(I, F) BY DEF Surjection
<1>4. \A i \in I : f[i] = Mine(i) OBVIOUS
<1>5. \A T \in F : IsFiniteSet(T) BY <1>2
<1>6. Strongly(I) = UNION F BY ZenonT(60) DEF Strongly, Mine
<1> HIDE DEF f, F
<1>7. IsFiniteSet(F) BY <1>1, <1>3, FS_Surjection
<1> QED BY <1>5, <1>6, <1>7, FS_UNION

(* Entries of a list are of its type.                                      *)
LEMMA EntryIn ==
  ASSUME NEW T, NEW s \in Seq(T), NEW k \in DOMAIN s
  PROVE  s[k] \in T
OBVIOUS

(* What a strong correlation is: of two metrics, between 0 and 100.        *)
LEMMA StronglyIs ==
  ASSUME NEW in, DeriveInput(in), NEW m \in Strongly(in.incidents)
  PROVE  /\ m[1] \in in.incidents /\ m[2] \in StrongCorrelations(m[1]) /\ m = <<m[1], m[2]>>
         /\ m[2] \in DOMAIN m[1].correlated
         /\ m[1].metric \in Int /\ m[1].correlated[m[2]].metric \in Int
         /\ m[1].correlated[m[2]].strength \in 0..100
         /\ m[1].correlated[m[2]].metric # m[1].metric
<1>1. PICK i \in in.incidents : m \in {<<i, k>> : k \in StrongCorrelations(i)} BY DEF Strongly
<1>2. PICK k \in StrongCorrelations(i) : m = <<i, k>> BY <1>1
<1>3. k \in DOMAIN i.correlated /\ i.correlated[k].metric # i.metric BY <1>2 DEF StrongCorrelations
<1>4. i.metric \in Int /\ i.correlated \in Seq([metric : Int, strength : 0..100]) BY DEF DeriveInput
<1>5. i.correlated[k] \in [metric : Int, strength : 0..100] BY <1>3, <1>4, EntryIn
<1> QED BY <1>2, <1>3, <1>4, <1>5

(* The measurements of a pair are those the correlation is computed from.  *)
LEMMA MeasuredIs ==
  ASSUME NEW in, NEW x, NEW y, x # y
  PROVE  Measured(in, x, y) = OnPair(in.incidents, {x, y})
<1> DEFINE On(i) == {k \in DOMAIN i.correlated : /\ {i.metric, i.correlated[k].metric} = {x, y}
                                                 /\ i.correlated[k].strength >= MinCorrelation}
<1>1. ASSUME NEW z PROVE z \in Measured(in, x, y) <=> \E i \in in.incidents : \E k \in On(i) : z = <<i, k>>
  <2> HIDE DEF On
  <2>1. z \in UNION {{<<i, k>> : k \in On(i)} : i \in in.incidents} <=> \E i \in in.incidents : \E k \in On(i) : z = <<i, k>>
    OBVIOUS
  <2> QED BY <2>1 DEF Measured, On
<1>2. ASSUME NEW z
      PROVE  z \in OnPair(in.incidents, {x, y}) <=>
               \E i \in in.incidents : \E k \in StrongCorrelations(i) : z = <<i, k>> /\ PairOf(z) = {x, y}
  <2>1. z \in Strongly(in.incidents) <=> \E i \in in.incidents : \E k \in StrongCorrelations(i) : z = <<i, k>> BY DEF Strongly
  <2> QED BY <2>1 DEF OnPair
<1>3. ASSUME NEW i, NEW k
      PROVE  k \in On(i) <=> k \in StrongCorrelations(i) /\ PairOf(<<i, k>>) = {x, y}
  <2>1. {i.metric, i.correlated[k].metric} = {x, y} => i.correlated[k].metric # i.metric OBVIOUS
  <2> QED BY <2>1 DEF StrongCorrelations, PairOf
<1> HIDE DEF On
<1>4. ASSUME NEW z \in Measured(in, x, y) PROVE z \in OnPair(in.incidents, {x, y})
  <2>1. PICK i \in in.incidents : \E k \in On(i) : z = <<i, k>> BY <1>1
  <2>2. PICK k \in On(i) : z = <<i, k>> BY <2>1
  <2>3. k \in StrongCorrelations(i) /\ PairOf(z) = {x, y} BY <1>3, <2>2
  <2> QED BY <1>2, <2>2, <2>3
<1>5. ASSUME NEW z \in OnPair(in.incidents, {x, y}) PROVE z \in Measured(in, x, y)
  <2>1. PICK i \in in.incidents : \E k \in StrongCorrelations(i) : z = <<i, k>> /\ PairOf(z) = {x, y} BY <1>2
  <2>2. PICK k \in StrongCorrelations(i) : z = <<i, k>> /\ PairOf(z) = {x, y} BY <2>1
  <2>3. k \in On(i) BY <1>3, <2>2
  <2> QED BY <1>1, <2>2, <2>3
<1> QED BY <1>4, <1>5

Summed(in, e, x, y) ==
  /\ e = PairEdge(x, y) /\ x < y
  /\ PutEdges(ObservedIn(in))[e].count = Cardinality(Measured(in, x, y))
  /\ PutEdges(ObservedIn(in))[e].confidence
       \in Min(Strengths(in, x, y))..Max(Strengths(in, x, y))

(* A correlation leads from the smaller metric to the larger.              *)
LEMMA EndsOfIs ==
  ASSUME NEW in, DeriveInput(in), NEW m \in Strongly(in.incidents)
  PROVE  /\ EndsOf(m)[1] < EndsOf(m)[2] /\ PairOf(m) = {EndsOf(m)[1], EndsOf(m)[2]}
         /\ EndsOf(m)[1] \in Int /\ EndsOf(m)[2] \in Int
<1>1. PICK x \in Int, y \in Int : x = m[1].metric /\ y = m[1].correlated[m[2]].metric /\ x # y
  BY SMTT(30), StronglyIs
<1>2. EndsOf(m) = IF x < y THEN <<x, y>> ELSE <<y, x>> BY <1>1 DEF EndsOf
<1>3. PairOf(m) = {x, y} BY <1>1 DEF PairOf
<1> QED BY <1>1, <1>2, <1>3

(* However many incidents measured a pair, it has one observation.         *)
LEMMA CorrelatedOnce ==
  ASSUME NEW in, DeriveInput(in), NEW m \in Strongly(in.incidents), NEW e,
         e = CorrelationOf(in.incidents, m).key
  PROVE  Single(ObservedIn(in), e, CorrelationOf(in.incidents, m))
<1> DEFINE I == in.incidents
<1>1. KeyOf3(CorrelationOf(I, m), "metric", EndsOf(m)[1], "correlates_with", "metric", EndsOf(m)[2])
  BY KeysAre
<1>2. e[2] = "correlates_with" /\ e[1][2] = EndsOf(m)[1] /\ e[3][2] = EndsOf(m)[2]
  BY <1>1 DEF KeyOf3
<1>3. ASSUME NEW o \in ObservedIn(in), o.key = e PROVE o = CorrelationOf(I, m)
  <2>1. Correlating(in, o) BY <1>2, <1>3, TypesAre, ObservedIs
  <2>2. PICK n \in Strongly(I) : o = CorrelationOf(I, n) BY <2>1 DEF Correlating
  <2>3. KeyOf3(CorrelationOf(I, n), "metric", EndsOf(n)[1], "correlates_with", "metric", EndsOf(n)[2])
    BY KeysAre
  <2>4. EndsOf(n)[1] = EndsOf(m)[1] /\ EndsOf(n)[2] = EndsOf(m)[2]
    BY <1>2, <1>3, <2>2, <2>3 DEF KeyOf3
  <2>5. PairOf(n) = PairOf(m) BY <2>4, EndsOfIs
  <2> QED BY <2>2, <2>4, <2>5 DEF CorrelationOf
<1>4. Correlating(in, CorrelationOf(I, m)) BY DEF Correlating
<1>5. CorrelationOf(I, m) \in ObservedIn(in) BY <1>4, ObservedIs
<1> QED BY <1>3, <1>5 DEF Single

(* It counts all measurements of the pair, with a strength between the     *)
(* weakest and the strongest (business_graph.py:1024).                     *)
LEMMA CorrelatedAll ==
  ASSUME NEW in, DeriveInput(in), NEW m \in Strongly(in.incidents), NEW e,
         e = CorrelationOf(in.incidents, m).key
  PROVE  Summed(in, e, e[1][2], e[3][2])
<1> DEFINE I == in.incidents
           o == CorrelationOf(I, m)
           S == OnPair(I, PairOf(m))
<1>1. KeyOf3(o, "metric", EndsOf(m)[1], "correlates_with", "metric", EndsOf(m)[2]) BY KeysAre
<1>2. PICK x \in Int, y \in Int : x = EndsOf(m)[1] /\ y = EndsOf(m)[2] /\ x < y /\ PairOf(m) = {x, y}
  BY EndsOfIs
<1>3. e[1][2] = x /\ e[3][2] = y BY <1>1, <1>2 DEF KeyOf3
<1>4. e = PairEdge(x, y) BY <1>2 DEF CorrelationOf
<1>5. Measured(in, x, y) = S
  <2>1. x # y BY <1>2
  <2>2. Measured(in, x, y) = OnPair(in.incidents, {x, y}) BY <2>1, MeasuredIs
  <2> QED BY <1>2, <2>2
<1>6. IsFiniteSet(S) /\ S # {}
  <2>1. S \in SUBSET Strongly(I) BY DEF OnPair
  <2>2. m \in S BY DEF OnPair
  <2> HIDE DEF S
  <2> QED BY <2>1, <2>2, StronglyFinite, FS_Subset
<1>7. ASSUME NEW z \in S PROVE z[1].correlated[z[2]].strength \in 0..100
  <2>1. z \in Strongly(I) BY DEF OnPair
  <2> QED BY <2>1, StronglyIs
<1> HIDE DEF S
<1>8. PICK Q \in SUBSET (0..100) : Q = {z[1].correlated[z[2]].strength : z \in S} /\ Q # {}
  <2> DEFINE R == {z[1].correlated[z[2]].strength : z \in S}
  <2>1. R \in SUBSET (0..100) BY <1>7
  <2>2. R # {} BY <1>6
  <2> QED BY <2>1, <2>2
<1>9. Strengths(in, x, y) = Q BY <1>5, <1>8 DEF Strengths
<1>10. PICK a \in 0..100, b \in 0..100 : a = Min(Q) /\ b = Max(Q) /\ \A q \in Q : a <= q /\ q <= b
  <2>1. 100 \in Nat OBVIOUS
  <2>2. Min(Q) \in Q /\ \A q \in Q : Min(Q) <= q BY <1>8, <2>1, MinIn
  <2>3. Max(Q) \in Q /\ \A q \in Q : q <= Max(Q) BY <1>8, <2>1, MaxIn
  <2> QED BY <2>2, <2>3
<1>11. StrengthsLie(S, a, b)
  <2> SUFFICES ASSUME NEW z \in S
               PROVE  /\ z[1].correlated[z[2]].strength \in Int
                      /\ a <= z[1].correlated[z[2]].strength
                      /\ z[1].correlated[z[2]].strength <= b
    BY DEF StrengthsLie
  <2>1. PICK q \in 0..100 : q = z[1].correlated[z[2]].strength BY <1>7
  <2>2. q \in Q BY <1>8, <2>1
  <2> QED BY SMTT(30), <1>10, <2>1, <2>2
<1>12. /\ o.confidence = Min({100, Strength(S) \div Cardinality(S)}) /\ o.count = Cardinality(S)
  BY DEF CorrelationOf, S
<1>13. o.confidence \in a..b BY <1>6, <1>11, <1>12, MeanWithin
<1>14. o.confidence \in Int /\ o.count \in Int BY <1>6, <1>12, <1>13, FS_CardinalityType
<1> HIDE DEF o
<1>15. Single(ObservedIn(in), e, o) BY CorrelatedOnce DEF o
<1>16. Sums(ObservedIn(in), e, o.count, o.confidence) BY <1>14, <1>15, CountsOne
<1>17. Summed(in, e, x, y)
  BY <1>2, <1>4, <1>5, <1>9, <1>10, <1>12, <1>13, <1>16 DEF Sums, Summed
<1> QED BY <1>3, <1>17

EndsKnown(in, o) == o.key[1] \in Known(in) /\ o.key[3] \in Known(in)

(* What nodes are derived.                                                 *)
LEMMA KnownIs ==
  ASSUME NEW in
  PROVE  /\ \A d \in in.datasets : /\ d.service # 0 => <<"service", d.service>> \in Known(in)
                                   /\ <<"dataset", d.id>> \in Known(in)
                                   /\ \A k \in DOMAIN d.measures :
                                        <<"metric", d.measures[k]>> \in Known(in)
         /\ \A p \in in.policies : p.metrics # <<>> =>
              /\ <<"policy", p.id>> \in Known(in)
              /\ \A k \in DOMAIN p.metrics : <<"metric", p.metrics[k]>> \in Known(in)
         /\ \A i \in in.incidents :
              /\ <<"incident", i.id>> \in Known(in) /\ <<"metric", i.metric>> \in Known(in)
              /\ \A k \in DOMAIN i.cited : <<"metric", i.cited[k]>> \in Known(in)
              /\ \A k \in StrongCorrelations(i) : <<"metric", i.correlated[k].metric>> \in Known(in)
<1> DEFINE Measure(d, k) == <<"metric", d.measures[k]>>
           Governed(p, k) == <<"metric", p.metrics[k]>>
           Cited(i, k) == <<"metric", i.cited[k]>>
           Other(i, k) == <<"metric", i.correlated[k].metric>>
           D1 == {<<"service", d.service>> : d \in {d \in in.datasets : d.service # 0}}
           D2(d) == {<<"dataset", d.id>>} \cup {Measure(d, k) : k \in DOMAIN d.measures}
           P(p) == {<<"policy", p.id>>} \cup {Governed(p, k) : k \in DOMAIN p.metrics}
           I(i) == {<<"incident", i.id>>, <<"metric", i.metric>>}
                     \cup {Cited(i, k) : k \in DOMAIN i.cited}
                     \cup {Other(i, k) : k \in StrongCorrelations(i)}
           G == {p \in in.policies : p.metrics # <<>>}
<1>1. DeriveDatasetStructure(in.datasets).nodes = D1 \cup UNION {D2(d) : d \in in.datasets}
  BY DEF DeriveDatasetStructure, Derived, Node
<1>2. DerivePolicyGovernance(in.policies).nodes = UNION {P(p) : p \in G}
  BY DEF DerivePolicyGovernance, Derived, Node
<1>3. DeriveIncidentEvidence(in.incidents).nodes = UNION {I(i) : i \in in.incidents}
  BY DEF DeriveIncidentEvidence, Derived, Node
<1>4. ASSUME NEW d \in in.datasets
      PROVE  /\ D2(d) \subseteq Known(in)
             /\ d.service # 0 => <<"service", d.service>> \in Known(in)
  <2>1. d.service # 0 => <<"service", d.service>> \in D1 OBVIOUS
  <2> HIDE DEF D1, D2
  <2>2. D1 \cup UNION {D2(x) : x \in in.datasets} \subseteq Known(in) BY <1>1 DEF Known
  <2>3. D2(d) \subseteq UNION {D2(x) : x \in in.datasets} OBVIOUS
  <2> QED BY <2>1, <2>2, <2>3
<1>5. ASSUME NEW p \in in.policies, p.metrics # <<>> PROVE P(p) \subseteq Known(in)
  <2>1. p \in G BY <1>5
  <2> HIDE DEF P, G
  <2>2. UNION {P(x) : x \in G} \subseteq Known(in) BY <1>2 DEF Known
  <2> QED BY <2>1, <2>2
<1>6. ASSUME NEW i \in in.incidents PROVE I(i) \subseteq Known(in)
  <2> HIDE DEF I
  <2>2. UNION {I(x) : x \in in.incidents} \subseteq Known(in) BY <1>3 DEF Known
  <2> QED BY <2>2
<1>7. ASSUME NEW d \in in.datasets
      PROVE  /\ d.service # 0 => <<"service", d.service>> \in Known(in)
             /\ <<"dataset", d.id>> \in Known(in)
             /\ \A k \in DOMAIN d.measures : Measure(d, k) \in Known(in)
  BY <1>4
<1>8. ASSUME NEW p \in in.policies, p.metrics # <<>>
      PROVE  /\ <<"policy", p.id>> \in Known(in)
             /\ \A k \in DOMAIN p.metrics : Governed(p, k) \in Known(in)
  BY <1>5, <1>8
<1>9. ASSUME NEW i \in in.incidents
      PROVE  /\ <<"incident", i.id>> \in Known(in) /\ <<"metric", i.metric>> \in Known(in)
             /\ \A k \in DOMAIN i.cited : Cited(i, k) \in Known(in)
             /\ \A k \in StrongCorrelations(i) : Other(i, k) \in Known(in)
  BY <1>6
<1> QED BY <1>7, <1>8, <1>9

(* Both ends of every edge are derived nodes.                              *)
LEMMA AllEndsKnown ==
  ASSUME NEW in, DeriveInput(in), NEW o \in ObservedIn(in)
  PROVE  EndsKnown(in, o)
<1>1. ASSUME Serving(in, o) PROVE EndsKnown(in, o)
  <2>1. PICK d \in in.datasets : d.service # 0 /\ o = Serves(d) BY <1>1 DEF Serving
  <2>2. KeyOf3(Serves(d), "dataset", d.id, "derived_from", "service", d.service) BY KeysAre
  <2>3. <<"dataset", d.id>> \in Known(in) /\ <<"service", d.service>> \in Known(in) BY <2>1, KnownIs
  <2> QED BY <2>1, <2>2, <2>3 DEF KeyOf3, EndsKnown
<1>2. ASSUME Measuring(in, o) PROVE EndsKnown(in, o)
  <2>1. PICK d \in in.datasets : \E k \in DOMAIN d.measures : o = Measures(d, k) BY <1>2 DEF Measuring
  <2>2. PICK k \in DOMAIN d.measures : o = Measures(d, k) BY <2>1
  <2>3. KeyOf3(Measures(d, k), "metric", d.measures[k], "derived_from", "dataset", d.id) BY KeysAre
  <2>4. <<"dataset", d.id>> \in Known(in) /\ <<"metric", d.measures[k]>> \in Known(in)
    BY <2>2, KnownIs
  <2> QED BY <2>2, <2>3, <2>4 DEF KeyOf3, EndsKnown
<1>3. ASSUME Governing(in, o) PROVE EndsKnown(in, o)
  <2>1. PICK p \in in.policies : \E k \in DOMAIN p.metrics : o = Governs(p, k) BY <1>3 DEF Governing
  <2>2. PICK k \in DOMAIN p.metrics : o = Governs(p, k) BY <2>1
  <2>3. KeyOf3(Governs(p, k), "metric", p.metrics[k], "governed_by", "policy", p.id) BY KeysAre
  <2>4. p.metrics # <<>> BY <2>2
  <2>5. <<"policy", p.id>> \in Known(in) /\ <<"metric", p.metrics[k]>> \in Known(in)
    BY <2>2, <2>4, KnownIs
  <2> QED BY <2>2, <2>3, <2>5 DEF KeyOf3, EndsKnown
<1>4. ASSUME Correlating(in, o) PROVE EndsKnown(in, o)
  <2>1. PICK m \in Strongly(in.incidents) : o = CorrelationOf(in.incidents, m)
    BY <1>4 DEF Correlating
  <2>2. KeyOf3(CorrelationOf(in.incidents, m), "metric", EndsOf(m)[1], "correlates_with",
               "metric", EndsOf(m)[2])
    BY KeysAre
  <2>3. m[1] \in in.incidents /\ m[2] \in StrongCorrelations(m[1]) BY StronglyIs
  <2>4. /\ <<"metric", m[1].metric>> \in Known(in)
        /\ <<"metric", m[1].correlated[m[2]].metric>> \in Known(in)
    BY <2>3, KnownIs
  <2>5. PICK x, y : x = m[1].metric /\ y = m[1].correlated[m[2]].metric OBVIOUS
  <2>6. EndsOf(m) = IF x < y THEN <<x, y>> ELSE <<y, x>> BY <2>5 DEF EndsOf
  <2>7. <<"metric", EndsOf(m)[1]>> \in Known(in) /\ <<"metric", EndsOf(m)[2]>> \in Known(in)
    BY <2>4, <2>5, <2>6
  <2> QED BY <2>1, <2>2, <2>7 DEF KeyOf3, EndsKnown
<1>5. ASSUME Cooccurring(in, o) PROVE EndsKnown(in, o)
  <2>1. PICK i \in in.incidents : \E k \in {0} \cup DOMAIN i.cited : o = Occurring(i, k)
    BY <1>5 DEF Cooccurring
  <2>2. PICK k \in {0} \cup DOMAIN i.cited : o = Occurring(i, k) BY <2>1
  <2>3. KeyOf3(Occurring(i, k), "incident", i.id, "co_occurred_in_incident", "metric", MetricAt(i, k))
    BY KeysAre
  <2>4. <<"incident", i.id>> \in Known(in) BY KnownIs
  <2>5. <<"metric", MetricAt(i, k)>> \in Known(in)
    <3>1. CASE k = 0 BY <3>1, KnownIs DEF MetricAt
    <3>2. CASE k # 0 BY <2>2, <3>2, KnownIs DEF MetricAt
    <3> QED BY <3>1, <3>2
  <2> QED BY <2>2, <2>3, <2>4, <2>5 DEF KeyOf3, EndsKnown
<1> QED BY <1>1, <1>2, <1>3, <1>4, <1>5, ObservedIs

(* Every edge that is no correlation counts its facts                      *)
(* (business_graph.py:937).                                                *)
LEMMA FactsCounted ==
  ASSUME NEW in, DeriveInput(in), NEW o \in ObservedIn(in), o.key[2] # "correlates_with"
  PROVE  CountsAll(in, o.key, Facts(in, o.key))
<1> DEFINE e == o.key
<1>1. CASE Serving(in, o)
  <2>1. PICK d \in in.datasets : d.service # 0 /\ o = Serves(d) BY <1>1 DEF Serving
  <2>2. CountsAll(in, e, Facts(in, e)) BY <2>1, ServedAll
  <2>3. e[2] = "derived_from" /\ e[1][1] = "dataset" BY <1>1, TypesAre
  <2> QED BY <2>2
<1>2. CASE Measuring(in, o)
  <2>1. PICK d \in in.datasets : \E k \in DOMAIN d.measures : o = Measures(d, k) BY <1>2 DEF Measuring
  <2>2. PICK k \in MeasuresOf(d) : o = Measures(d, k) BY <2>1 DEF MeasuresOf
  <2>3. CountsAll(in, e, Facts(in, e)) BY <2>2, MeasuredAll
  <2>4. e[2] = "derived_from" /\ e[1][1] = "metric" BY <1>2, TypesAre
  <2> QED BY <2>3
<1>3. CASE Governing(in, o)
  <2>1. PICK p \in in.policies : \E k \in DOMAIN p.metrics : o = Governs(p, k) BY <1>3 DEF Governing
  <2>2. PICK k \in MetricsOf(p) : o = Governs(p, k) BY <2>1 DEF MetricsOf
  <2>3. CountsAll(in, e, Facts(in, e)) BY <2>2, GovernedAll
  <2>4. e[2] = "governed_by" BY <1>3, TypesAre
  <2> QED BY <2>3
<1>4. CASE Cooccurring(in, o)
  <2>1. PICK i \in in.incidents : \E k \in {0} \cup DOMAIN i.cited : o = Occurring(i, k)
    BY <1>4 DEF Cooccurring
  <2>2. PICK k \in CitationsOf(i) : o = Occurring(i, k) BY <2>1 DEF CitationsOf
  <2>3. CountsAll(in, e, Facts(in, e)) BY <2>2, OccurredAll
  <2>4. e[2] = "co_occurred_in_incident" BY <1>4, TypesAre
  <2> QED BY <2>3
<1> QED BY <1>1, <1>2, <1>3, <1>4, ObservedIs, TypesAre

(* What is derived adds up, for every input of the assumed form.           *)
LEMMA ObservationsHold == KnowledgeAnswers => ObservationsAddUp
<1> SUFFICES ASSUME KnowledgeAnswers, Answered("derive") PROVE ObservationsAddUp
  BY DEF ObservationsAddUp
<1>0. PICK op \in DOMAIN KnowledgeInputs :
        \E in \in KnowledgeInputs[op] : call = [op |-> op, in |-> in]
  BY DEF KnowledgeAnswers
<1>1. PICK in \in KnowledgeInputs[op] : call = [op |-> op, in |-> in] BY <1>0
<1>2. op = "derive" /\ call.op = op /\ call.in = in /\ answer # <<>> BY <1>1 DEF Answered
<1>3. DeriveInput(in) BY <1>2, KnowledgeInputsAssumption
<1>4. answer[1] = [nodes |-> Known(in), edges |-> PutEdges(ObservedIn(in))]
  BY <1>2, DerivationsAre DEF KnowledgeAnswers
<1>5. PICK edges : edges = PutEdges(ObservedIn(in)) OBVIOUS
<1>6. DOMAIN edges = {o.key : o \in ObservedIn(in)} BY <1>5 DEF PutEdges
<1>7. \A e \in DOMAIN edges : {e[1], e[3]} \subseteq Known(in)
  BY <1>3, <1>6, AllEndsKnown DEF EndsKnown
<1>8. \A e \in DOMAIN edges : e[2] # "correlates_with" =>
        edges[e].count = Cardinality(Facts(in, e)) /\ edges[e].confidence = 100
  BY <1>3, <1>5, <1>6, FactsCounted DEF CountsAll
<1>9. ASSUME NEW e \in DOMAIN edges, e[2] = "correlates_with"
      PROVE  Summed(in, e, e[1][2], e[3][2])
  <2>1. PICK o \in ObservedIn(in) : e = o.key BY <1>6
  <2>2. Correlating(in, o) BY <1>3, <1>9, <2>1, ObservedIs, TypesAre
  <2>3. PICK m \in Strongly(in.incidents) : o = CorrelationOf(in.incidents, m)
    BY <2>2 DEF Correlating
  <2> QED BY <1>3, <2>1, <2>3, CorrelatedAll
<1>10. ASSUME NEW i \in in.incidents, NEW k \in DOMAIN i.correlated,
              i.correlated[k].strength >= MinCorrelation, i.metric < i.correlated[k].metric
       PROVE  PairEdge(i.metric, i.correlated[k].metric) \in DOMAIN edges
  <2>1. i.metric \in Int /\ i.correlated[k].metric \in Int
    <3>1. i.correlated[k] \in [metric : Int, strength : 0..100] BY <1>3, EntryIn DEF DeriveInput
    <3> QED BY <1>3, <3>1 DEF DeriveInput
  <2>2. k \in StrongCorrelations(i) BY <1>10, <2>1 DEF StrongCorrelations
  <2>3. PICK m : m = <<i, k>> OBVIOUS
  <2>4. m \in Strongly(in.incidents) BY <2>2, <2>3 DEF Strongly
  <2>5. EndsOf(m) = <<i.metric, i.correlated[k].metric>> BY <1>10, <2>3 DEF EndsOf
  <2>6. CorrelationOf(in.incidents, m).key = PairEdge(i.metric, i.correlated[k].metric)
    BY <2>5 DEF CorrelationOf
  <2>7. Correlating(in, CorrelationOf(in.incidents, m)) BY <2>4 DEF Correlating
  <2>8. CorrelationOf(in.incidents, m) \in ObservedIn(in) BY <1>3, <2>7, ObservedIs
  <2> QED BY <1>6, <2>6, <2>8
<1>11. \A e \in DOMAIN edges : e[2] = "correlates_with" => Summed(in, e, e[1][2], e[3][2]) BY <1>9
<1>12. \A i \in in.incidents : \A k \in DOMAIN i.correlated :
         i.correlated[k].strength >= MinCorrelation /\ i.metric < i.correlated[k].metric =>
           PairEdge(i.metric, i.correlated[k].metric) \in DOMAIN edges
  BY <1>10
<1>13. /\ answer[1].nodes = Known(in) /\ answer[1].edges = edges BY <1>4, <1>5
<1> QED BY <1>2, <1>5, <1>7, <1>8, <1>11, <1>12, <1>13
        DEF ObservationsAddUp, Summed, PairEdge

(* What the enterprise knows besides its documents is answered soundly, for *)
(* every set of inputs: a collision of policies is foreseen exactly where   *)
(* the order of adoption decides, a policy that names the metric comes      *)
(* first, the graph's edges count what was observed and a walk over them    *)
(* says what it left out (policy_validator.py:128, policy_registry.py:130,  *)
(* business_graph.py:274, 1024).                                            *)
THEOREM KnowledgeIsSound == KnowledgeSpec => []KnowledgeSound
<1>1. KnowledgeAnswers => KnowledgeSound
  BY CollisionsHold, NamedHolds, ObservationsHold, ReachHolds DEF KnowledgeSound
<1> QED BY <1>1, KnowledgeAnswersHold, PTL

=============================================================================
