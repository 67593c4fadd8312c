---------------------------- MODULE RecordProofs ----------------------------
(***************************************************************************)
(* What is told of an investigation that is over, proved: its replay, its  *)
(* timeline and the reasons of its plan have the properties the runs       *)
(* check, for any stored record and any findings of the form               *)
(* PlatformInputsAssumption states. The lemmas on lists, folds, sums and   *)
(* sorting are those of AnalysisProofs.                                    *)
(***************************************************************************)
EXTENDS AnalysisProofs, PlatformChecks

-----------------------------------------------------------------------------
(* The state after each stage *)

(* What the i-th finding adds to the state.                                *)
Says(f, i) == Puts(ClassifyEntry(f[i]), f[i])

(* The findings up to the i-th that speak of a field, and the newest.      *)
Speakers(f, i, x) == {j \in 1..i : x \in DOMAIN Says(f, j)}
Newest(f, i, x) == Max(Speakers(f, i, x))

SpokenOf(f, i) == UNION {DOMAIN Says(f, j) : j \in 1..i}

(* What the state should be after the i-th finding.                        *)
NewestState(f, i) == [x \in SpokenOf(f, i) |-> Says(f, Newest(f, i, x))[x]]

(* The newest finding that speaks of a field is one that does.             *)
LEMMA NewestSpeaks ==
  ASSUME NEW f, NEW i \in Nat, NEW x \in SpokenOf(f, i)
  PROVE  /\ Newest(f, i, x) \in Speakers(f, i, x)
         /\ \A j \in Speakers(f, i, x) : j <= Newest(f, i, x)
<1>1. Speakers(f, i, x) \in SUBSET (0..i) BY DEF Speakers
<1>2. Speakers(f, i, x) # {} BY DEF Speakers, SpokenOf
<1> QED BY <1>1, <1>2, MaxIn DEF Newest

(* One finding more: its fields are its own, the others stay.              *)
LEMMA NewestStep ==
  ASSUME NEW f, NEW i \in Nat \ {0}
  PROVE  NewestState(f, i) = FoldState(NewestState(f, i - 1), ClassifyEntry(f[i]), f[i])
<1> DEFINE p == Says(f, i)
           old == NewestState(f, i - 1)
<1>1. SpokenOf(f, i) = DOMAIN p \cup DOMAIN old
  <2>1. \A j : j \in 1..i <=> j \in 1..(i - 1) \/ j = i OBVIOUS
  <2>2. DOMAIN old = SpokenOf(f, i - 1) BY DEF NewestState
  <2> QED BY <2>1, <2>2 DEF SpokenOf
<1>2. ASSUME NEW x \in SpokenOf(f, i)
      PROVE  Says(f, Newest(f, i, x))[x] = IF x \in DOMAIN p THEN p[x] ELSE old[x]
  <2>1. /\ Newest(f, i, x) \in Speakers(f, i, x)
        /\ \A j \in Speakers(f, i, x) : j <= Newest(f, i, x)
    BY NewestSpeaks
  <2>2. CASE x \in DOMAIN p
    <3>1. i \in Speakers(f, i, x) BY <2>2 DEF Speakers
    <3>2. Newest(f, i, x) = i BY <2>1, <3>1 DEF Speakers
    <3> QED BY <2>2, <3>2
  <2>3. CASE x \notin DOMAIN p
    <3>1. Speakers(f, i, x) = Speakers(f, i - 1, x)
      <4>1. \A j : j \in 1..i <=> j \in 1..(i - 1) \/ j = i OBVIOUS
      <4> QED BY <2>3, <4>1 DEF Speakers
    <3>2. x \in SpokenOf(f, i - 1) BY <1>1, <2>3 DEF NewestState
    <3>3. old[x] = Says(f, Newest(f, i - 1, x))[x] BY <3>2 DEF NewestState
    <3> QED BY <2>3, <3>1, <3>3 DEF Newest
  <2> QED BY <2>2, <2>3
<1>3. FoldState(old, ClassifyEntry(f[i]), f[i])
        = [x \in DOMAIN p \cup DOMAIN old |-> IF x \in DOMAIN p THEN p[x] ELSE old[x]]
  BY DEF FoldState, Says
<1> HIDE DEF p, old
<1>4. NewestState(f, i) = [x \in SpokenOf(f, i) |-> IF x \in DOMAIN p THEN p[x] ELSE old[x]]
  BY <1>2 DEF NewestState
<1> QED BY <1>1, <1>3, <1>4 DEF old

(* Before the first finding the state is empty.                            *)
LEMMA NothingSpoken == \A f : NewestState(f, 0) = <<>>
<1> SUFFICES ASSUME NEW f PROVE NewestState(f, 0) = <<>>
  OBVIOUS
<1>1. SpokenOf(f, 0) = {} BY DEF SpokenOf
<1>2. NewestState(f, 0) = [x \in {} |-> Says(f, Newest(f, 0, x))[x]] BY <1>1 DEF NewestState
<1>3. [x \in {} |-> Says(f, Newest(f, 0, x))[x]] = <<>> OBVIOUS
<1> QED BY <1>2, <1>3

(* A list of findings, as the replay reads it.                              *)
StageOf(f, i, after) ==
  [sequence |-> i, key |-> Keys(f)[i], occurrence |-> Occurrences(SubSeq(Keys(f), 1, i), Keys(f)[i]),
   occurrences_total |-> Occurrences(Keys(f), Keys(f)[i]), category |-> CategoryOf(Keys(f)[i]),
   outputs |-> Payload(f[i]), state_after |-> after,
   duration |-> StageDuration(AuditSummary(f).durations, Keys(f)[i], Occurrences(Keys(f), Keys(f)[i]))]

(* The state after a stage is what the newest findings so far say.         *)
LEMMA StagesAre ==
  ASSUME NEW f, NEW n \in Nat, Len(f) = n, DOMAIN f = 1..n
  PROVE  Stages(f) = [i \in 1..n |-> StageOf(f, i, NewestState(f, i))]
<1> DEFINE Rec(h) == h = [i \in 0..Len(f) |->
             IF i = 0 THEN <<>> ELSE FoldState(h[i - 1], Keys(f)[i], f[i])]
           After == CHOOSE h : Rec(h)
           k == [i \in 0..n |-> NewestState(f, i)]
<1>1. Stages(f) = [i \in DOMAIN f |-> StageOf(f, i, After[i])] BY DEF Stages, StageOf
<1>2. \A i \in 1..n : Keys(f)[i] = ClassifyEntry(f[i]) BY DEF Keys
<1>3. k[0] = <<>> BY NothingSpoken
<1>4. \A i \in 1..n : i - 1 \in 0..n /\ k[i] = FoldState(k[i - 1], Keys(f)[i], f[i])
  BY <1>2, NewestStep
<1>5. k = [i \in 0..n |-> k[i]] OBVIOUS
<1> HIDE DEF k
<1>5a. \A i \in 0..n : i = 0 \/ i \in 1..n OBVIOUS
<1>5b. \A i \in 0..n : k[i] = IF i = 0 THEN <<>> ELSE FoldState(k[i - 1], Keys(f)[i], f[i])
  BY <1>3, <1>4, <1>5a
<1>6. Rec(k) BY <1>5, <1>5b
<1>7. Rec(After) BY <1>6
<1> HIDE DEF After
<1> DEFINE T == {i \in 0..n : After[i] = k[i]}
<1>8. 0 \in T BY <1>3, <1>7
<1>9. \A i \in 1..n : i - 1 \in T => i \in T BY <1>4, <1>7
<1> HIDE DEF T
<1>10. 0..n \subseteq T BY <1>8, <1>9, UpTo
<1>11. \A i \in 1..n : After[i] = NewestState(f, i) BY <1>10 DEF T, k
<1> QED BY <1>1, <1>11

-----------------------------------------------------------------------------
(* Pages *)

(* A page is part of a list, from an offset on.                            *)
Page(s, off, l) == SubSeq(s, off + 1, Min({off + l, Len(s)}))

(* A page within the list has what is at its place, up to its length or to *)
(* the end; behind the end there is nothing.                               *)
LEMMA PageIs ==
  ASSUME NEW S, NEW s \in Seq(S), NEW off \in Nat, NEW l \in Nat
  PROVE  /\ Page(s, off, l) \in Seq(S)
         /\ off + l <= Len(s) =>
              /\ Len(Page(s, off, l)) = l
              /\ SubSeq(s, 1, off) \o Page(s, off, l) = SubSeq(s, 1, off + l)
         /\ off <= Len(s) /\ Len(s) < off + l =>
              /\ Len(Page(s, off, l)) = Len(s) - off
              /\ SubSeq(s, 1, off) \o Page(s, off, l) = s
         /\ Len(s) < off => Len(Page(s, off, l)) = 0
<1>1. PICK n \in Nat : n = Len(s) /\ DOMAIN s = 1..n OBVIOUS
<1>2. ASSUME NEW a \in Nat, NEW b \in Nat, a <= b, b <= n
      PROVE  /\ SubSeq(s, a + 1, b) \in Seq(S) /\ Len(SubSeq(s, a + 1, b)) = b - a
             /\ SubSeq(s, 1, a) \o SubSeq(s, a + 1, b) = SubSeq(s, 1, b)
  <2>1. SubSeq(s, a + 1, b) \in Seq(S) /\ Len(SubSeq(s, a + 1, b)) = b - a
        /\ \A i \in 1..(b - a) : SubSeq(s, a + 1, b)[i] = s[a + i]
    BY <1>1, <1>2
  <2>2. 1 \in 1..Len(s) + 1 /\ a \in 1 - 1..Len(s) /\ b \in a..Len(s) BY <1>1, <1>2
  <2>3. SubSeq(s, 1, a) \o SubSeq(s, a + 1, b) = SubSeq(s, 1, b)
    BY <2>2, ConcatAdjacentSubSeq
  <2> QED BY <2>1, <2>3
<1>3. Min({off + l, n}) = IF off + l <= n THEN off + l ELSE n
  <2>1. PICK a \in Int, b \in Int : a = off + l /\ b = n OBVIOUS
  <2>2. Min({a, b}) = IF a <= b THEN a ELSE b BY OfTwo
  <2> QED BY <2>1, <2>2
<1>3a. Page(s, off, l) = SubSeq(s, off + 1, Min({off + l, n})) BY <1>1 DEF Page
<1> DEFINE p == Page(s, off, l)
<1>4. ASSUME off + l <= n
      PROVE  p \in Seq(S) /\ Len(p) = l /\ SubSeq(s, 1, off) \o p = SubSeq(s, 1, off + l)
  <2>1. PICK b \in Nat : b = off + l OBVIOUS
  <2>2. p = SubSeq(s, off + 1, b) BY <1>3, <1>3a, <1>4, <2>1
  <2>3. off <= b /\ b <= n /\ b - off = l BY <1>4, <2>1
  <2> HIDE DEF p
  <2> QED BY <1>2, <2>1, <2>2, <2>3
<1>5. ASSUME off <= n, n < off + l
      PROVE  p \in Seq(S) /\ Len(p) = n - off /\ SubSeq(s, 1, off) \o p = s
  <2>0. ~(off + l <= n) BY <1>5
  <2>0a. Min({off + l, n}) = n BY <1>3, <2>0
  <2>1. p = SubSeq(s, off + 1, n) BY <1>3a, <2>0a
  <2>2. SubSeq(s, 1, n) = s BY <1>1
  <2> HIDE DEF p
  <2> QED BY <1>2, <1>5, <2>1, <2>2
<1>6. ASSUME n < off
      PROVE  p \in Seq(S) /\ Len(p) = 0
  <2>0. ~(off + l <= n) BY <1>6
  <2>0a. Min({off + l, n}) = n BY <1>3, <2>0
  <2>1. p = SubSeq(s, off + 1, n) BY <1>3a, <2>0a
  <2>2. SubSeq(s, off + 1, n) = <<>> BY <1>1, <1>6
  <2>3. p = <<>> BY <2>1, <2>2
  <2> HIDE DEF p
  <2>4. <<>> \in Seq(S) /\ Len(<<>>) = 0 OBVIOUS
  <2> QED BY <2>3, <2>4
<1> HIDE DEF p
<1>7. off + l <= n \/ (off <= n /\ n < off + l) \/ n < off OBVIOUS
<1>8. ~(off + l <= n /\ n < off + l) /\ ~(off <= n /\ n < off) /\ ~(off + l <= n /\ n < off) OBVIOUS
<1> QED BY <1>1, <1>4, <1>5, <1>6, <1>7, <1>8 DEF p

(* A full page continues the list.                                        *)
LEMMA FullPage ==
  ASSUME NEW S, NEW s \in Seq(S), NEW off \in Nat, NEW l \in Nat, off + l <= Len(s)
  PROVE  SubSeq(s, 1, off) \o Page(s, off, l) = SubSeq(s, 1, off + l)
BY ZenonT(60), PageIs

(* Where the pages begin.                                                  *)
Offsets(off, n, l) ==
  /\ off[1] = 0 /\ \A i \in 1..n : off[i + 1] = off[i] + l
  /\ \A i \in 1..(n + 1) : off[i] \in Nat /\ i - 1 <= off[i]

LEMMA OffsetsAre ==
  ASSUME NEW n \in Nat, NEW l \in Nat \ {0}, NEW off, \A i \in 1..(n + 1) : off[i] = (i - 1) * l
  PROVE  Offsets(off, n, l)
<1>1. \A i \in 1..(n + 1) : off[i] \in Nat /\ i - 1 <= off[i]
  <2> SUFFICES ASSUME NEW i \in 1..(n + 1) PROVE off[i] \in Nat /\ i - 1 <= off[i]
    OBVIOUS
  <2>1. PICK k \in Nat : k = i - 1 /\ off[i] = k * l OBVIOUS
  <2>2. k * l \in Nat /\ k <= k * l BY SMTT(30)
  <2> QED BY <2>1, <2>2
<1>2. off[1] = 0
  <2>1. off[1] = (1 - 1) * l OBVIOUS
  <2> QED BY <2>1
<1>3. ASSUME NEW i \in 1..n PROVE off[i + 1] = off[i] + l
  <2>1. PICK k \in Nat : k = i - 1 /\ off[i] = k * l /\ off[i + 1] = (k + 1) * l OBVIOUS
  <2>2. (k + 1) * l = k * l + l OBVIOUS
  <2> QED BY <2>1, <2>2
<1> QED BY <1>1, <1>2, <1>3 DEF Offsets

(* The pages up to the m-th end where the list ends, and none before does. *)
EndsAt(off, n, l, m) ==
  /\ m \in 1..(n + 1) /\ n <= off[m] + l /\ off[m] <= n
  /\ \A i \in 1..(m - 1) : i \in 1..n /\ off[i] \in Nat /\ off[i] + l < n

(* Whether a page is the last that is needed.                              *)
LastPage(s, off, l, i) == ~(off[i] + Len(Page(s, off[i], l)) < Len(s))

LEMMA LastPageIs ==
  ASSUME NEW S, NEW s \in Seq(S), NEW l \in Nat \ {0}, NEW off, Offsets(off, Len(s), l)
  PROVE  EndsAt(off, Len(s), l, Min({i \in 1..(Len(s) + 1) : LastPage(s, off, l, i)}))
<1>1. PICK n \in Nat : n = Len(s) OBVIOUS
<1> DEFINE M == {i \in 1..(n + 1) : LastPage(s, off, l, i)}
<1>2. /\ off[1] = 0 /\ \A i \in 1..n : off[i + 1] = off[i] + l
      /\ \A i \in 1..(n + 1) : off[i] \in Nat /\ i - 1 <= off[i]
  BY <1>1 DEF Offsets
<1>4. ASSUME NEW i \in 1..(n + 1)
      PROVE  i \in M <=> n <= off[i] + l
  <2>1. PICK o \in Nat : o = off[i] BY <1>2
  <2>2. PICK c : c = Len(Page(s, o, l)) OBVIOUS
  <2>3. o + l <= n => c = l BY <1>1, <2>2, PageIs
  <2>4. o <= n /\ n < o + l => c = n - o
    <3>1. l \in Nat OBVIOUS
    <3>2. o <= Len(s) /\ Len(s) < o + l => Len(Page(s, o, l)) = Len(s) - o BY <3>1, PageIs
    <3> QED BY <1>1, <2>2, <3>2
  <2>5. n < o => c = 0 BY <1>1, <2>2, PageIs
  <2>6. i \in M <=> ~(o + c < n) BY <1>1, <2>1, <2>2 DEF LastPage
  <2> HIDE DEF M
  <2>7. o + l <= n \/ (o <= n /\ n < o + l) \/ n < o BY <1>1
  <2> QED BY <1>1, <2>1, <2>3, <2>4, <2>5, <2>6, <2>7
<1>6. M \in SUBSET (0..(n + 1)) OBVIOUS
<1>7. n + 1 \in M
  <2>1. n + 1 \in 1..(n + 1) /\ off[n + 1] \in Nat /\ (n + 1) - 1 <= off[n + 1] BY <1>2
  <2> HIDE DEF M
  <2> QED BY <1>4, <2>1
<1>7a. M \subseteq 1..(n + 1) OBVIOUS
<1>7b. Min({i \in 1..(Len(s) + 1) : LastPage(s, off, l, i)}) = Min(M) BY <1>1
<1> HIDE DEF M
<1>8. Min(M) \in M /\ \A i \in M : Min(M) <= i
  <2>1. n + 1 \in Nat /\ M # {} BY <1>7
  <2> QED BY <1>6, <2>1, MinIn
<1>9. PICK m \in 1..(n + 1) : m = Min(M) BY <1>7a, <1>8
<1>10. ASSUME NEW i \in 1..(m - 1) PROVE i \in 1..n /\ off[i] \in Nat /\ off[i] + l < n
  <2>1. i \in 1..n /\ i \in 1..(n + 1) /\ i < m BY <1>9
  <2>2. i \notin M
    <3>1. i \in M => m <= i BY <1>8, <1>9
    <3> QED BY <2>1, <3>1
  <2>3. off[i] \in Nat BY <1>2, <2>1
  <2> QED BY <1>4, <2>1, <2>2, <2>3
<1>11. n <= off[m] + l BY <1>4, <1>8, <1>9
<1>12. off[m] <= n
  <2>1. CASE m = 1 BY <1>2, <2>1
  <2>2. CASE m # 1
    <3>1. PICK k : k = m - 1 OBVIOUS
    <3>2. k \in 1..(m - 1) /\ k + 1 = m BY <1>9, <2>2, <3>1
    <3>3. k \in 1..n /\ off[k] \in Nat /\ off[k] + l < n BY <1>10, <3>2
    <3>4. off[m] = off[k] + l BY <1>2, <3>2, <3>3
    <3> QED BY <3>3, <3>4
  <2> QED BY <2>1, <2>2
<1>13. EndsAt(off, n, l, m) BY <1>9, <1>10, <1>11, <1>12 DEF EndsAt
<1> QED BY <1>1, <1>7b, <1>9, <1>13

(* The pages up to there are the whole list, whatever their length.        *)
LEMMA PagesFlatten ==
  ASSUME NEW S, NEW s \in Seq(S), NEW l \in Nat \ {0}, NEW off, Offsets(off, Len(s), l),
         NEW m, EndsAt(off, Len(s), l, m), NEW ps, ps = [i \in 1..m |-> Page(s, off[i], l)]
  PROVE  FlattenSeq(ps) = s
<1>1. PICK n \in Nat : n = Len(s) OBVIOUS
<1>2. /\ off[1] = 0 /\ \A i \in 1..n : off[i + 1] = off[i] + l
      /\ \A i \in 1..(n + 1) : off[i] \in Nat
  BY <1>1 DEF Offsets
<1>3. /\ m \in 1..(n + 1) /\ n <= off[m] + l /\ off[m] <= n
      /\ \A i \in 1..(m - 1) : i \in 1..n /\ off[i] \in Nat /\ off[i] + l < n
  BY <1>1 DEF EndsAt
<1>4. m \in Nat /\ m \in 1..m /\ \A i \in 1..m : i \in 1..(n + 1) BY <1>3
<1>5. \A i \in 1..m : Page(s, off[i], l) \in Seq(S)
  <2> SUFFICES ASSUME NEW i \in 1..m PROVE Page(s, off[i], l) \in Seq(S)
    OBVIOUS
  <2>1. off[i] \in Nat /\ l \in Nat BY <1>2, <1>4
  <2> QED BY <2>1, PageIs
<1>6. ps \in Seq(Seq(S)) /\ Len(ps) = m BY <1>4, <1>5
<1>7. \A i \in 1..m : ps[i] = Page(s, off[i], l) OBVIOUS
<1>8. PICK h : Flattens(h, ps, S) BY <1>6, FlattenIs
<1>9. /\ h[0] = <<>> /\ h[m] = FlattenSeq(ps)
      /\ \A i \in 1..m : h[i] = h[i - 1] \o Page(s, off[i], l)
  BY <1>6, <1>7, <1>8 DEF Flattens
<1>10. PICK k \in Nat : k = m - 1 /\ k + 1 = m BY <1>3
<1> DEFINE T == {i \in 0..k : h[i] = SubSeq(s, 1, off[i + 1])}
<1>11. 0 \in T
  <2>1. SubSeq(s, 1, off[0 + 1]) = <<>> BY <1>2, <1>1
  <2>2. 0 \in 0..k OBVIOUS
  <2> QED BY <1>9, <2>1, <2>2
<1>12. ASSUME NEW i \in 1..k, i - 1 \in T PROVE i \in T
  <2>1. i \in 1..m /\ (i - 1) + 1 = i /\ i \in 0..k /\ i \in 1..n /\ i \in 1..(m - 1) BY <1>3, <1>10
  <2>2. h[i - 1] = SubSeq(s, 1, off[i]) BY <1>12, <2>1
  <2>3. PICK o \in Nat : o = off[i] /\ o + l < n BY <1>3, <2>1
  <2>4. o + l <= Len(s) /\ l \in Nat BY <1>1, <2>3
  <2>5. SubSeq(s, 1, o) \o Page(s, o, l) = SubSeq(s, 1, o + l) BY <2>4, FullPage
  <2>6. off[i + 1] = o + l BY <1>2, <2>1, <2>3
  <2>7. h[i] = SubSeq(s, 1, off[i + 1]) BY <1>9, <2>1, <2>2, <2>3, <2>5, <2>6
  <2> QED BY <2>1, <2>7
<1> HIDE DEF T
<1>13. 0..k \subseteq T BY <1>11, <1>12, UpTo
<1>14. h[k] = SubSeq(s, 1, off[m])
  <2>1. k \in 0..k OBVIOUS
  <2>2. k \in T BY <1>13, <2>1
  <2> QED BY <1>10, <2>2 DEF T
<1>15. PICK o \in Nat : o = off[m] /\ o <= n /\ n <= o + l
  <2>1. off[m] \in Nat BY <1>2, <1>3
  <2> QED BY <1>3, <2>1
<1>16. h[m] = SubSeq(s, 1, o) \o Page(s, o, l) BY <1>4, <1>9, <1>10, <1>14, <1>15
<1>17. SubSeq(s, 1, o) \o Page(s, o, l) = s
  <2>1. CASE n < o + l
    <3>1. o <= Len(s) /\ Len(s) < o + l /\ l \in Nat BY <1>1, <1>15, <2>1
    <3> QED BY <3>1, PageIs
  <2>2. CASE n = o + l
    <3>1. o + l <= Len(s) /\ l \in Nat BY <1>1, <2>2
    <3>2. SubSeq(s, 1, o) \o Page(s, o, l) = SubSeq(s, 1, o + l) BY <3>1, FullPage
    <3>3. SubSeq(s, 1, n) = s BY <1>1
    <3> QED BY <2>2, <3>2, <3>3
  <2>3. n < o + l \/ n = o + l BY <1>15
  <2> QED BY <2>1, <2>2, <2>3
<1> QED BY <1>9, <1>16, <1>17

(* A page has at least one stage, whatever limit is asked for.             *)
LEMMA LimitIs ==
  ASSUME NEW limit \in Seq(Int)
  PROVE  ClampLimit(limit) \in Nat \ {0}
<1>1. CASE limit = <<>> BY <1>1, StageLimits DEF ClampLimit
<1>2. CASE limit # <<>>
  <2>1. limit[1] \in Int BY <1>2
  <2>2. PICK l \in Int : l = Min({limit[1], MaxStageLimit})
    <3>1. MaxStageLimit \in Int BY StageLimits
    <3> QED BY <2>1, <3>1, OfTwo
  <2>2a. PICK one \in Int : one = 1 OBVIOUS
  <2>3. Max({one, l}) = IF one <= l THEN l ELSE one BY OfTwo
  <2>4. ClampLimit(limit) = Max({1, l}) BY <1>2, <2>2 DEF ClampLimit
  <2> QED BY <2>2a, <2>3, <2>4
<1> QED BY <1>1, <1>2

(* The pages of a replay together are its stages, and each tells the same  *)
(* gaps.                                                                   *)
LEMMA ReplayShown ==
  ASSUME NEW stored, NEW limit \in Seq(Int), NEW f, f = Findings(stored),
         NEW n \in Nat, Len(f) = n, DOMAIN f = 1..n,
         NEW pages, pages = Pages(stored, limit)
  PROVE  /\ FlattenSeq([p \in DOMAIN pages |-> pages[p].stages]) = Stages(f)
         /\ \A p \in DOMAIN pages : pages[p].gaps = Gaps(Keys(f))
<1> DEFINE s == Stages(f)
           S == {s[i] : i \in 1..n}
           off == [i \in 1..(n + 1) |-> (i - 1) * ClampLimit(limit)]
           all == [i \in 1..(n + 1) |-> Reconstruct(stored, (i - 1) * ClampLimit(limit), limit)]
<1>1. PICK l \in Nat \ {0} : l = ClampLimit(limit) BY LimitIs
<1>2. s \in Seq(S) /\ Len(s) = n
  <2>1. s = [i \in 1..n |-> StageOf(f, i, NewestState(f, i))] BY StagesAre
  <2> HIDE DEF s
  <2> QED BY <2>1
<1>3. Offsets(off, n, l)
  <2>1. \A i \in 1..(n + 1) : off[i] = (i - 1) * l BY <1>1
  <2> HIDE DEF off
  <2> QED BY <2>1, OffsetsAre
<1>3a. \A i \in 1..(n + 1) : all[i] = Reconstruct(stored, off[i], limit) OBVIOUS
<1>3b. Pages(stored, limit) = SubSeq(all, 1, Min({i \in 1..(n + 1) : ~all[i].truncated}))
  BY DEF Pages
<1>3c. all = [i \in 1..(n + 1) |-> all[i]] OBVIOUS
<1> HIDE DEF off, all, S
<1>4. ASSUME NEW i \in 1..(n + 1)
      PROVE  /\ all[i].stages = Page(s, off[i], l)
             /\ all[i].truncated <=> ~LastPage(s, off, l, i)
             /\ all[i].gaps = Gaps(Keys(f))
  <2>1. PICK o \in Nat : o = off[i] BY <1>3 DEF Offsets
  <2>2. Max({0, o}) = o
    <3>1. PICK z \in Int, y \in Int : z = 0 /\ y = o /\ z <= y OBVIOUS
    <3>2. Max({z, y}) = IF z <= y THEN y ELSE z BY OfTwo
    <3> QED BY <3>1, <3>2
  <2>3. all[i] = Reconstruct(stored, o, limit) BY <1>3a, <2>1
  <2> DEFINE p == SubSeq(s, Max({0, o}) + 1, Min({Max({0, o}) + ClampLimit(limit), Len(s)}))
  <2>3c. PICK u : u = Max({0, o}) OBVIOUS
  <2>3d. PICK q : q = SubSeq(s, u + 1, Min({u + ClampLimit(limit), Len(s)})) OBVIOUS
  <2>3e. Reconstruct(stored, o, limit).stages = q
    <3> HIDE DEF p
    <3> QED BY <2>3c, <2>3d, Zenon DEF Reconstruct
  <2>3f. Reconstruct(stored, o, limit).truncated = (u + Len(q) < Len(s))
    <3> HIDE DEF p
    <3> QED BY <2>3c, <2>3d, Zenon DEF Reconstruct
  <2>3a. all[i].stages = p /\ all[i].truncated = (Max({0, o}) + Len(p) < Len(s))
    BY <2>3, <2>3c, <2>3d, <2>3e, <2>3f
  <2>3b. p = SubSeq(s, o + 1, Min({o + l, Len(s)})) BY <1>1, <2>2
  <2>4. all[i].stages = SubSeq(s, o + 1, Min({o + l, Len(s)})) BY <2>3a, <2>3b
  <2>5. all[i].truncated = (o + Len(SubSeq(s, o + 1, Min({o + l, Len(s)}))) < Len(s))
    BY <2>2, <2>3a, <2>3b
  <2> HIDE DEF p
  <2>6. all[i].gaps = Gaps(Keys(f)) BY <2>3 DEF Reconstruct
  <2> HIDE DEF s
  <2> QED BY <2>1, <2>4, <2>5, <2>6 DEF Page, LastPage
<1> HIDE DEF s
<1>5. PICK m : m = Min({i \in 1..(n + 1) : ~all[i].truncated}) OBVIOUS
<1>6. EndsAt(off, n, l, m)
  <2>1. {i \in 1..(n + 1) : ~all[i].truncated} = {i \in 1..(Len(s) + 1) : LastPage(s, off, l, i)}
    BY <1>2, <1>4
  <2> QED BY <1>2, <1>3, <1>5, <2>1, LastPageIs
<1>7. m \in 1..(n + 1) BY <1>6 DEF EndsAt
<1>8. pages = [i \in 1..m |-> all[i]]
  <2>1. SubSeq(all, 1, m) = [i \in 1..m |-> all[i]]
    <3>1. \A i \in 1..m : i \in 1..(n + 1) BY <1>7
    <3>2. PICK V : V = {all[i] : i \in 1..(n + 1)} OBVIOUS
    <3>3. PICK k \in Nat : k = n + 1 OBVIOUS
    <3>4. \A i \in 1..k : all[i] \in V BY <3>2, <3>3
    <3>5. all \in [1..k -> V] BY <1>3c, <3>3, <3>4
    <3>6. all \in Seq(V) /\ Len(all) = k BY <3>5
    <3> QED BY <1>7, <3>1, <3>3, <3>6
  <2> QED BY <1>3b, <1>5, <2>1
<1>9. \A i \in 1..m : i \in 1..(n + 1) BY <1>7
<1>10. [p \in DOMAIN pages |-> pages[p].stages] = [i \in 1..m |-> Page(s, off[i], l)]
  BY <1>4, <1>8, <1>9
<1>11. FlattenSeq([i \in 1..m |-> Page(s, off[i], l)]) = s BY <1>2, <1>3, <1>6, PagesFlatten
<1>12. \A p \in DOMAIN pages : pages[p].gaps = Gaps(Keys(f)) BY <1>4, <1>8, <1>9
<1> QED BY <1>10, <1>11, <1>12 DEF s

(* What is kept of a list is at one of the positions kept.                 *)
LEMMA EntriesFrom ==
  ASSUME NEW n \in Nat, NEW list, NEW P \in SUBSET (1..n)
  PROVE  \A r \in DOMAIN Entries(list, P) : \E i \in P : Entries(list, P)[r] = list[i]
<1>0. Picks(Entries(list, P), list, P) BY EntriesAre
<1>1. PICK o : Lists(o, P) /\ Entries(list, P) = [r \in 1..Cardinality(P) |-> list[o[r]]]
  BY <1>0 DEF Picks
<1>2. \A r \in 1..Cardinality(P) : o[r] \in P BY <1>1 DEF Lists
<1> QED BY <1>1, <1>2

(* A key occurs nowhere if it occurs no times.                             *)
LEMMA OccursNot ==
  ASSUME NEW n \in Nat, NEW keys, DOMAIN keys = 1..n, NEW key
  PROVE  /\ Occurrences(keys, key) \in Nat
         /\ Occurrences(keys, key) = 0 => \A i \in 1..n : keys[i] # key
<1> DEFINE O == {i \in 1..n : keys[i] = key}
<1>1. IsFiniteSet(O) BY FS_Interval, FS_Subset
<1>2. Occurrences(keys, key) = Cardinality(O) BY DEF Occurrences
<1>3. \A i \in 1..n : keys[i] = key <=> i \in O OBVIOUS
<1> HIDE DEF O
<1>4. Cardinality(O) \in Nat /\ (Cardinality(O) = 0 => O = {})
  BY <1>1, FS_CardinalityType, FS_EmptySet
<1> QED BY <1>2, <1>3, <1>4

(* A gap is a stage that nothing was found of.                             *)
LEMMA GapsAre ==
  ASSUME NEW n \in Nat, NEW keys, DOMAIN keys = 1..n
  PROVE  \A g \in DOMAIN Gaps(keys), i \in 1..n : Gaps(keys)[g].key # keys[i]
<1> DEFINE Gone(s) == s.expected /\ Occurrences(keys, s.key) = 0
           P(list) == {i \in DOMAIN list : Gone(list[i])}
<1>1. Gaps(keys) = Entries(STAGE_CATALOG, P(STAGE_CATALOG)) BY DEF Gaps, Keeping
<1>2. DOMAIN STAGE_CATALOG = 1..16 BY DEF STAGE_CATALOG
<1>3. PICK list : list = STAGE_CATALOG /\ DOMAIN list = 1..16 BY <1>2
<1> HIDE DEF Gone
<1>4. P(list) \in SUBSET (1..16) BY <1>3
<1>5. \A r \in DOMAIN Entries(list, P(list)) : \E i \in P(list) : Entries(list, P(list))[r] = list[i]
  <2>0. PICK sixteen \in Nat : sixteen = 16 OBVIOUS
  <2>1. PICK Q : Q = P(list) OBVIOUS
  <2>2. Q \in SUBSET (1..sixteen) BY <1>4, <2>0, <2>1
  <2> HIDE DEF P
  <2>3. \A r \in DOMAIN Entries(list, Q) : \E i \in Q : Entries(list, Q)[r] = list[i]
    BY <2>2, EntriesFrom
  <2> QED BY <2>1, <2>3
<1>6. \A g \in DOMAIN Gaps(keys) : Gone(Gaps(keys)[g]) BY <1>1, <1>3, <1>5
<1> QED BY <1>6, OccursNot DEF Gone

(* What the replay shows of some findings.                                 *)
TellsAll(f, pages, shown) ==
  LET Speaks(i, field) == field \in DOMAIN Puts(ClassifyEntry(f[i]), f[i])
      keys == {shown[i].key : i \in DOMAIN shown}
  IN /\ [i \in DOMAIN shown |-> shown[i].outputs] = [i \in DOMAIN f |-> Payload(f[i])]
     /\ \A i \in DOMAIN f : \A field \in DOMAIN shown[i].state_after :
          LET newest == Max({j \in 1..i : Speaks(j, field)})
          IN shown[i].state_after[field] = Puts(shown[newest].key, f[newest])[field]
     /\ \A i \in DOMAIN f, j \in DOMAIN f : i < j =>
          DOMAIN shown[i].state_after \subseteq DOMAIN shown[j].state_after
     /\ \A p \in DOMAIN pages :
          keys \cap {pages[p].gaps[g].key : g \in DOMAIN pages[p].gaps} = {}

TellsRecord(f, pages) ==
  TellsAll(f, pages, FlattenSeq([p \in DOMAIN pages |-> pages[p].stages]))

(* The findings stored are a list.                                         *)
LEMMA FindingsAre ==
  ASSUME NEW in, ReplayInput(in)
  PROVE  /\ \E n \in Nat : Len(Findings(in.stored)) = n /\ DOMAIN Findings(in.stored) = 1..n
         /\ \A i \in DOMAIN Findings(in.stored) :
              Findings(in.stored)[i].type = <<"audit_summary">> =>
                AuditInput(Findings(in.stored)[i].audit)
<1>1. CASE in.stored.is = "list"
  <2>1. Findings(in.stored) = in.stored.findings BY <1>1 DEF Findings
  <2>2. IsList(in.stored.findings) BY <1>1 DEF ReplayInput
  <2> QED BY <1>1, <2>1, <2>2 DEF ReplayInput, IsList
<1>2. CASE in.stored.is # "list"
  <2>1. Findings(in.stored) = <<>> BY <1>2 DEF Findings
  <2> QED BY <2>1
<1> QED BY <1>1, <1>2

LEMMA ReplayHolds ==
  ASSUME NEW in, ReplayInput(in)
  PROVE  TellsRecord(Findings(in.stored), Pages(in.stored, in.limit))
<1>1. PICK f : f = Findings(in.stored) OBVIOUS
<1>2. PICK n \in Nat : Len(f) = n /\ DOMAIN f = 1..n BY <1>1, FindingsAre
<1>3. PICK pages : pages = Pages(in.stored, in.limit) OBVIOUS
<1>4. PICK shown : shown = FlattenSeq([p \in DOMAIN pages |-> pages[p].stages]) OBVIOUS
<1>5. shown = Stages(f) /\ \A p \in DOMAIN pages : pages[p].gaps = Gaps(Keys(f))
  <2>1. in.limit \in Seq(Int) BY DEF ReplayInput
  <2>2. PICK limit \in Seq(Int) : limit = in.limit BY <2>1
  <2>2a. PICK stored : stored = in.stored OBVIOUS
  <2>3. f = Findings(stored) /\ pages = Pages(stored, limit) BY <1>1, <1>3, <2>2, <2>2a
  <2> QED BY <1>2, <1>4, <2>3, ReplayShown
<1>6. shown = [i \in 1..n |-> StageOf(f, i, NewestState(f, i))] BY <1>2, <1>5, StagesAre
<1>7. DOMAIN shown = 1..n BY <1>6
<1>8. \A i \in 1..n : /\ shown[i].key = ClassifyEntry(f[i]) /\ shown[i].outputs = Payload(f[i])
                      /\ shown[i].state_after = NewestState(f, i)
  BY <1>2, <1>6 DEF StageOf, Keys
<1>9. ASSUME NEW i \in 1..n, NEW field \in DOMAIN shown[i].state_after
      PROVE  LET newest == Max({j \in 1..i : field \in DOMAIN Puts(ClassifyEntry(f[j]), f[j])})
             IN shown[i].state_after[field] = Puts(shown[newest].key, f[newest])[field]
  <2>0. shown[i].state_after = NewestState(f, i) BY <1>8
  <2>1. i \in Nat /\ field \in SpokenOf(f, i)
    <3>1. field \in DOMAIN NewestState(f, i) BY <1>9, <2>0
    <3>2. DOMAIN NewestState(f, i) = SpokenOf(f, i) BY DEF NewestState
    <3> QED BY <3>1, <3>2
  <2>2. Newest(f, i, field) \in Speakers(f, i, field) BY <2>1, NewestSpeaks
  <2>3. PICK k : k = Newest(f, i, field) OBVIOUS
  <2>4. k \in 1..n BY <1>9, <2>2, <2>3 DEF Speakers
  <2>5. shown[i].state_after[field] = Says(f, k)[field] BY <1>8, <2>1, <2>3 DEF NewestState
  <2>6. Says(f, k) = Puts(shown[k].key, f[k]) BY <1>8, <2>4 DEF Says
  <2>7. Max({j \in 1..i : field \in DOMAIN Puts(ClassifyEntry(f[j]), f[j])}) = k
    BY <2>3 DEF Newest, Speakers, Says
  <2> QED BY <2>5, <2>6, <2>7
<1>10. ASSUME NEW i \in 1..n, NEW j \in 1..n, i < j
       PROVE  DOMAIN shown[i].state_after \subseteq DOMAIN shown[j].state_after
  <2>1. \A k : k \in 1..i => k \in 1..j BY <1>10
  <2>2. SpokenOf(f, i) \subseteq SpokenOf(f, j) BY <2>1 DEF SpokenOf
  <2>3. DOMAIN NewestState(f, i) = SpokenOf(f, i) /\ DOMAIN NewestState(f, j) = SpokenOf(f, j)
    BY DEF NewestState
  <2> QED BY <1>8, <2>2, <2>3
<1>11. [i \in DOMAIN shown |-> shown[i].outputs] = [i \in DOMAIN f |-> Payload(f[i])]
  BY <1>2, <1>7, <1>8
<1>12. ASSUME NEW p \in DOMAIN pages
       PROVE  {shown[i].key : i \in DOMAIN shown}
                \cap {pages[p].gaps[g].key : g \in DOMAIN pages[p].gaps} = {}
  <2>1. DOMAIN Keys(f) = 1..n /\ \A i \in 1..n : Keys(f)[i] = shown[i].key BY <1>2, <1>8 DEF Keys
  <2>2. \A g \in DOMAIN Gaps(Keys(f)), i \in 1..n : Gaps(Keys(f))[g].key # Keys(f)[i]
    BY <2>1, GapsAre
  <2>3. \A g \in DOMAIN pages[p].gaps, i \in 1..n : pages[p].gaps[g].key # shown[i].key
    BY <1>5, <2>1, <2>2
  <2> QED BY <1>7, <2>3
<1>13. TellsAll(f, pages, shown) BY <1>2, <1>9, <1>10, <1>11, <1>12 DEF TellsAll
<1>14. TellsRecord(f, pages) BY <1>4, <1>13 DEF TellsRecord
<1> QED BY <1>1, <1>3, <1>14

-----------------------------------------------------------------------------
(* The timeline *)

(* Sums of integers are integers.                                          *)
LEMMA SumsAreInts ==
  ASSUME NEW K, IsFiniteSet(K), NEW w \in [K -> Int], NEW f, AddsUp(f, K, w)
  PROVE  \A s \in SUBSET K : f[s] \in Int
<1> DEFINE n == Cardinality(K)
           Good(k) == \A s \in SUBSET K : Cardinality(s) = k => f[s] \in Int
           T == {k \in 0..n : Good(k)}
<1>1. n \in Nat BY FS_CardinalityType
<1>2. \A s \in SUBSET K : IsFiniteSet(s) /\ Cardinality(s) \in 0..n
  <2> SUFFICES ASSUME NEW s \in SUBSET K PROVE IsFiniteSet(s) /\ Cardinality(s) \in 0..n
    OBVIOUS
  <2>1. IsFiniteSet(s) /\ Cardinality(s) <= n BY FS_Subset
  <2>2. Cardinality(s) \in Nat BY <2>1, FS_CardinalityType
  <2> QED BY <1>1, <2>1, <2>2
<1>3. Good(0)
  <2> SUFFICES ASSUME NEW s \in SUBSET K, Cardinality(s) = 0 PROVE f[s] \in Int
    OBVIOUS
  <2>1. s = {} BY <1>2, FS_EmptySet
  <2> QED BY <2>1 DEF AddsUp
<1>4. ASSUME NEW k \in 1..n, Good(k - 1) PROVE Good(k)
  <2> SUFFICES ASSUME NEW s \in SUBSET K, Cardinality(s) = k PROVE f[s] \in Int
    OBVIOUS
  <2>1. IsFiniteSet(s) /\ s # {} BY <1>2, <1>4, FS_EmptySet
  <2>2. PICK c \in s : c = Chosen(s) BY <2>1 DEF Chosen
  <2>3. PICK r \in SUBSET K : r = s \ {c} OBVIOUS
  <2>4. f[s] = w[c] + f[r] BY <2>1, <2>2, <2>3 DEF AddsUp
  <2>5. Cardinality(r) = k - 1 BY <2>1, <2>3, FS_RemoveElement
  <2>6. f[r] \in Int BY <1>4, <2>5
  <2> QED BY <2>4, <2>6
<1> HIDE DEF Good
<1>5. 0 \in T /\ \A k \in 1..n : k - 1 \in T => k \in T BY <1>1, <1>3, <1>4
<1> HIDE DEF T
<1>6. 0..n \subseteq T BY <1>1, <1>5, UpTo
<1>7. \A k \in 0..n : Good(k) BY <1>6 DEF T
<1> QED BY <1>2, <1>7 DEF Good

(* A sum does not depend on what is added first.                           *)
LEMMA SumRemoves ==
  ASSUME NEW K, IsFiniteSet(K), NEW w \in [K -> Int], NEW f, AddsUp(f, K, w)
  PROVE  \A s \in SUBSET K : \A x \in s : f[s] = w[x] + f[s \ {x}]
<1> DEFINE n == Cardinality(K)
           Good(k) == \A s \in SUBSET K : Cardinality(s) = k =>
                        \A x \in s : f[s] = w[x] + f[s \ {x}]
           T == {k \in 0..n : Good(k)}
<1>1. n \in Nat BY FS_CardinalityType
<1>2. \A s \in SUBSET K : IsFiniteSet(s) /\ Cardinality(s) \in 0..n
  <2> SUFFICES ASSUME NEW s \in SUBSET K PROVE IsFiniteSet(s) /\ Cardinality(s) \in 0..n
    OBVIOUS
  <2>1. IsFiniteSet(s) /\ Cardinality(s) <= n BY FS_Subset
  <2>2. Cardinality(s) \in Nat BY <2>1, FS_CardinalityType
  <2> QED BY <1>1, <2>1, <2>2
<1>2a. \A s \in SUBSET K : f[s] \in Int BY SumsAreInts
<1>3. Good(0)
  <2> SUFFICES ASSUME NEW s \in SUBSET K, Cardinality(s) = 0
               PROVE  \A x \in s : f[s] = w[x] + f[s \ {x}]
    OBVIOUS
  <2>1. s = {} BY <1>2, FS_EmptySet
  <2> QED BY <2>1
<1>4. ASSUME NEW k \in 1..n, Good(k - 1) PROVE Good(k)
  <2> SUFFICES ASSUME NEW s \in SUBSET K, Cardinality(s) = k, NEW x \in s
               PROVE  f[s] = w[x] + f[s \ {x}]
    OBVIOUS
  <2>1. IsFiniteSet(s) /\ s # {} BY <1>2, <1>4, FS_EmptySet
  <2>2. PICK c \in s : c = Chosen(s) BY <2>1 DEF Chosen
  <2>3. f[s] = w[c] + f[s \ {c}] BY <2>1, <2>2 DEF AddsUp
  <2>4. ASSUME x # c PROVE f[s] = w[x] + f[s \ {x}]
    <3>1. PICK q \in SUBSET K, r \in SUBSET K, z \in SUBSET K :
            q = s \ {c} /\ r = s \ {x} /\ z = q \ {x}
      OBVIOUS
    <3>2. z = r \ {c} /\ x \in q /\ c \in r BY <2>4, <3>1
    <3>3. Cardinality(q) = k - 1 /\ Cardinality(r) = k - 1 BY <2>1, <3>1, FS_RemoveElement
    <3>4. f[q] = w[x] + f[z] BY <1>4, <3>1, <3>2, <3>3
    <3>5. f[r] = w[c] + f[z] BY <1>4, <3>2, <3>3
    <3>6. f[q] \in Int /\ f[r] \in Int /\ f[z] \in Int /\ w[x] \in Int /\ w[c] \in Int BY <1>2a
    <3>7. f[s] = w[c] + f[q] BY <2>3, <3>1
    <3>8. f[s] = w[x] + f[r] BY <3>4, <3>5, <3>6, <3>7
    <3> QED BY <3>1, <3>8
  <2> QED BY <2>3, <2>4
<1> HIDE DEF Good
<1>5. 0 \in T /\ \A k \in 1..n : k - 1 \in T => k \in T BY <1>1, <1>3, <1>4
<1> HIDE DEF T
<1>6. 0..n \subseteq T BY <1>1, <1>5, UpTo
<1>7. \A k \in 0..n : Good(k) BY <1>6 DEF T
<1> QED BY <1>2, <1>7 DEF Good

(* There is one sum.                                                       *)
LEMMA SumsAgree ==
  ASSUME NEW K, IsFiniteSet(K), NEW w \in [K -> Int], NEW f, AddsUp(f, K, w), NEW g, AddsUp(g, K, w)
  PROVE  f[K] = g[K]
<1> DEFINE n == Cardinality(K)
           Good(k) == \A s \in SUBSET K : Cardinality(s) = k => f[s] = g[s]
           T == {k \in 0..n : Good(k)}
<1>1. n \in Nat BY FS_CardinalityType
<1>2. \A s \in SUBSET K : IsFiniteSet(s) BY FS_Subset
<1>3. Good(0)
  <2> SUFFICES ASSUME NEW s \in SUBSET K, Cardinality(s) = 0 PROVE f[s] = g[s]
    OBVIOUS
  <2>1. s = {} BY <1>2, FS_EmptySet
  <2> QED BY <2>1 DEF AddsUp
<1>4. ASSUME NEW k \in 1..n, Good(k - 1) PROVE Good(k)
  <2> SUFFICES ASSUME NEW s \in SUBSET K, Cardinality(s) = k PROVE f[s] = g[s]
    OBVIOUS
  <2>1. IsFiniteSet(s) /\ s # {} BY <1>2, <1>4, FS_EmptySet
  <2>2. PICK c \in s : c = Chosen(s) BY <2>1 DEF Chosen
  <2>3. PICK r \in SUBSET K : r = s \ {c} OBVIOUS
  <2>4. f[s] = w[c] + f[r] /\ g[s] = w[c] + g[r] BY <2>1, <2>2, <2>3 DEF AddsUp
  <2>5. Cardinality(r) = k - 1 BY <2>1, <2>3, FS_RemoveElement
  <2>6. f[r] = g[r] BY <1>4, <2>5
  <2> QED BY <2>4, <2>6
<1> HIDE DEF Good
<1>5. 0 \in T /\ \A k \in 1..n : k - 1 \in T => k \in T BY <1>1, <1>3, <1>4
<1> HIDE DEF T
<1>6. 0..n \subseteq T BY <1>1, <1>5, UpTo
<1>7. Good(n) BY <1>1, <1>6 DEF T
<1> QED BY <1>7 DEF Good

SumsTo(v, K, w) == \E f : AddsUp(f, K, w) /\ v = f[K]

(* A sum of durations adds up.                                              *)
LEMMA SumOfDurations ==
  ASSUME NEW K, IsFiniteSet(K), NEW d, \A k \in K : d[k] \in Int
  PROVE  SumsTo(MapThenSumSet(LAMBDA k : d[k], K), K, [k \in K |-> d[k]])
<1> DEFINE w == [k \in K |-> d[k]]
           Iter(f) == f = [s \in SUBSET K |->
             IF s = {} THEN 0 ELSE d[(CHOOSE x \in s : TRUE)] + f[s \ {CHOOSE x \in s : TRUE}]]
           it == CHOOSE f : Iter(f)
<1>1. w \in [K -> Int] /\ \A k \in K : w[k] = d[k] OBVIOUS
<1>2. MapThenSumSet(LAMBDA k : d[k], K) = it[K] BY DEF MapThenSumSet, MapThenFoldSet
<1> HIDE DEF w
<1>3. PICK f \in [SUBSET K -> Int] : AddsUp(f, K, w) BY <1>1, SumExists
<1>4. \A s \in SUBSET K : s # {} => Chosen(s) \in K BY DEF Chosen
<1>5. Iter(f)
  <2>1. f = [s \in SUBSET K |-> f[s]] BY <1>3
  <2>2. ASSUME NEW s \in SUBSET K
        PROVE  f[s] = IF s = {} THEN 0
                      ELSE d[(CHOOSE x \in s : TRUE)] + f[s \ {CHOOSE x \in s : TRUE}]
    <3>1. s # {} => f[s] = w[Chosen(s)] + f[s \ {Chosen(s)}] BY <1>3 DEF AddsUp
    <3>2. s = {} => f[s] = 0 BY <1>3 DEF AddsUp
    <3>3. s # {} => w[Chosen(s)] = d[Chosen(s)] BY <1>1, <1>4
    <3> QED BY <3>1, <3>2, <3>3 DEF Chosen
  <2> QED BY <2>1, <2>2
<1>6. Iter(it) BY <1>5
<1> HIDE DEF it
<1>7. AddsUp(it, K, w)
  <2>1. it = [s \in SUBSET K |->
             IF s = {} THEN 0 ELSE d[(CHOOSE x \in s : TRUE)] + it[s \ {CHOOSE x \in s : TRUE}]]
    BY <1>6
  <2>2. it[{}] = 0 BY <2>1
  <2>3. ASSUME NEW s \in SUBSET K, s # {} PROVE it[s] = w[Chosen(s)] + it[s \ {Chosen(s)}]
    <3>1. it[s] = d[(CHOOSE x \in s : TRUE)] + it[s \ {CHOOSE x \in s : TRUE}] BY <2>1, <2>3
    <3>2. w[Chosen(s)] = d[Chosen(s)] BY <1>1, <1>4, <2>3
    <3> QED BY <3>1, <3>2 DEF Chosen
  <2> QED BY <2>2, <2>3 DEF AddsUp
<1>8. SumsTo(it[K], K, w) BY <1>7 DEF SumsTo
<1> QED BY <1>2, <1>8 DEF w

(* So does a sum of seconds.                                                *)
LEMMA SumOfSeconds ==
  ASSUME NEW K, IsFiniteSet(K), NEW d, \A k \in K : d[k].seconds \in Int
  PROVE  SumsTo(MapThenSumSet(LAMBDA k : d[k].seconds, K), K, [k \in K |-> d[k].seconds])
<1> DEFINE w == [k \in K |-> d[k].seconds]
           Iter(f) == f = [s \in SUBSET K |->
             IF s = {} THEN 0 ELSE d[(CHOOSE x \in s : TRUE)].seconds + f[s \ {CHOOSE x \in s : TRUE}]]
           it == CHOOSE f : Iter(f)
<1>1. w \in [K -> Int] /\ \A k \in K : w[k] = d[k].seconds OBVIOUS
<1>2. MapThenSumSet(LAMBDA k : d[k].seconds, K) = it[K] BY DEF MapThenSumSet, MapThenFoldSet
<1> HIDE DEF w
<1>3. PICK f \in [SUBSET K -> Int] : AddsUp(f, K, w) BY <1>1, SumExists
<1>4. \A s \in SUBSET K : s # {} => Chosen(s) \in K BY DEF Chosen
<1>5. Iter(f)
  <2>1. f = [s \in SUBSET K |-> f[s]] BY <1>3
  <2>2. ASSUME NEW s \in SUBSET K
        PROVE  f[s] = IF s = {} THEN 0
                      ELSE d[(CHOOSE x \in s : TRUE)].seconds + f[s \ {CHOOSE x \in s : TRUE}]
    <3>1. s # {} => f[s] = w[Chosen(s)] + f[s \ {Chosen(s)}] BY <1>3 DEF AddsUp
    <3>2. s = {} => f[s] = 0 BY <1>3 DEF AddsUp
    <3>3. s # {} => w[Chosen(s)] = d[Chosen(s)].seconds BY <1>1, <1>4
    <3> QED BY <3>1, <3>2, <3>3 DEF Chosen
  <2> QED BY <2>1, <2>2
<1>6. Iter(it) BY <1>5
<1> HIDE DEF it
<1>7. AddsUp(it, K, w)
  <2>1. it = [s \in SUBSET K |->
             IF s = {} THEN 0 ELSE d[(CHOOSE x \in s : TRUE)].seconds + it[s \ {CHOOSE x \in s : TRUE}]]
    BY <1>6
  <2>2. it[{}] = 0 BY <2>1
  <2>3. ASSUME NEW s \in SUBSET K, s # {} PROVE it[s] = w[Chosen(s)] + it[s \ {Chosen(s)}]
    <3>1. it[s] = d[(CHOOSE x \in s : TRUE)].seconds + it[s \ {CHOOSE x \in s : TRUE}] BY <2>1, <2>3
    <3>2. w[Chosen(s)] = d[Chosen(s)].seconds BY <1>1, <1>4, <2>3
    <3> QED BY <3>1, <3>2 DEF Chosen
  <2> QED BY <2>2, <2>3 DEF AddsUp
<1>8. SumsTo(it[K], K, w) BY <1>7 DEF SumsTo
<1> QED BY <1>2, <1>8 DEF w

(* The time measured up to each entry.                                     *)
Cumulative(keys, d) ==
  LET counted == Counted(keys, d)
      Upto[i \in 0..Len(keys)] ==
        IF i = 0 THEN 0 ELSE Upto[i - 1] + (IF i \in counted THEN d[keys[i]] ELSE 0)
  IN Upto

(* The stages whose duration has been added up by then.                    *)
NamedUpto(keys, d, i) == {keys[j] : j \in {j \in Counted(keys, d) : j <= i}}

(* A duration is added at the first occurrence of its stage only.          *)
LEMMA NamedStep ==
  ASSUME NEW n \in Nat, NEW keys, DOMAIN keys = 1..n, NEW d, NEW i \in 1..n
  PROVE  /\ i \notin Counted(keys, d) => NamedUpto(keys, d, i) = NamedUpto(keys, d, i - 1)
         /\ i \in Counted(keys, d) =>
              /\ keys[i] \in NamedUpto(keys, d, i)
              /\ NamedUpto(keys, d, i) \ {keys[i]} = NamedUpto(keys, d, i - 1)
<1>1. PICK C \in SUBSET (1..n) : C = Counted(keys, d) BY DEF Counted
<1>2. \A j \in C : j <= i <=> (j <= i - 1 \/ j = i) BY <1>1
<1>3. NamedUpto(keys, d, i) = {keys[j] : j \in {j \in C : j <= i}}
      /\ NamedUpto(keys, d, i - 1) = {keys[j] : j \in {j \in C : j <= i - 1}}
  BY <1>1 DEF NamedUpto
<1>4. i \in C => \A j \in C : j <= i - 1 => keys[j] # keys[i]
  <2> SUFFICES ASSUME i \in C, NEW j \in C, j <= i - 1 PROVE keys[j] # keys[i]
    OBVIOUS
  <2>1. j \in 1..(i - 1) OBVIOUS
  <2>2. keys[i] \notin {keys[k] : k \in 1..(i - 1)} BY <1>1 DEF Counted
  <2> QED BY <2>1, <2>2
<1> QED BY <1>1, <1>2, <1>3, <1>4

(* The running sum is the sum over the stages named so far.                *)
LEMMA CumulativeIs ==
  ASSUME NEW n \in Nat, NEW keys, DOMAIN keys = 1..n, Len(keys) = n, NEW d,
         NEW K, K = NamedUpto(keys, d, n), IsFiniteSet(K),
         NEW w \in [K -> Nat], \A k \in K : w[k] = d[k],
         NEW f, AddsUp(f, K, w)
  PROVE  \A i \in 0..n : /\ NamedUpto(keys, d, i) \in SUBSET K
                         /\ Cumulative(keys, d)[i] = f[NamedUpto(keys, d, i)]
                         /\ i > 0 => Cumulative(keys, d)[i - 1] <= Cumulative(keys, d)[i]
<1> DEFINE N(i) == NamedUpto(keys, d, i)
           Rec(h) == h = [i \in 0..Len(keys) |-> IF i = 0 THEN 0
                       ELSE h[i - 1] + (IF i \in Counted(keys, d) THEN d[keys[i]] ELSE 0)]
           up == CHOOSE h : Rec(h)
           g == [i \in 0..n |-> f[N(i)]]
<1>1. Cumulative(keys, d) = up BY DEF Cumulative
<1>2. PICK C \in SUBSET (1..n) : C = Counted(keys, d) BY DEF Counted
<1>3. \A i \in 0..n : N(i) \in SUBSET K
  <2>1. \A i \in 0..n : \A j \in C : j <= i => j <= n OBVIOUS
  <2> QED BY <1>2, <2>1 DEF NamedUpto
<1>3a. w \in [K -> Int] OBVIOUS
<1>4. \A s \in SUBSET K : f[s] \in Int BY <1>3a, SumsAreInts
<1>5. g[0] = 0
  <2>1. N(0) = {}
    <3>1. \A j \in C : ~(j <= 0) OBVIOUS
    <3> QED BY <1>2, <3>1 DEF NamedUpto
  <2>2. f[{}] = 0 BY DEF AddsUp
  <2>3. 0 \in 0..n /\ g[0] = f[N(0)] OBVIOUS
  <2> QED BY <2>1, <2>2, <2>3
<1>6. ASSUME NEW i \in 1..n
      PROVE  /\ i - 1 \in 0..n
             /\ g[i] = g[i - 1] + (IF i \in Counted(keys, d) THEN d[keys[i]] ELSE 0)
             /\ g[i - 1] <= g[i]
  <2>1. i - 1 \in 0..n /\ i \in 0..n OBVIOUS
  <2>2. g[i] = f[N(i)] /\ g[i - 1] = f[N(i - 1)] BY <2>1
  <2>3. N(i) \in SUBSET K /\ N(i - 1) \in SUBSET K BY <1>3, <2>1
  <2>4. /\ i \notin C => N(i) = N(i - 1)
        /\ i \in C => keys[i] \in N(i) /\ N(i) \ {keys[i]} = N(i - 1)
    BY <1>2, NamedStep
  <2> HIDE DEF N, g
  <2>5. \A x \in N(i) : f[N(i)] = w[x] + f[N(i) \ {x}] BY <1>3a, <2>3, SumRemoves
  <2>6. f[N(i - 1)] \in Int BY <1>4, <2>3
  <2>7. CASE i \in C
    <3>1. keys[i] \in K /\ w[keys[i]] = d[keys[i]] /\ w[keys[i]] \in Nat BY <2>3, <2>4, <2>7
    <3>2. f[N(i)] = w[keys[i]] + f[N(i - 1)] BY <2>4, <2>5, <2>7
    <3>3. f[N(i)] = f[N(i - 1)] + d[keys[i]] BY <2>6, <3>1, <3>2
    <3>4. f[N(i - 1)] <= f[N(i)] BY <2>6, <3>1, <3>2
    <3> QED BY <1>2, <2>1, <2>2, <2>7, <3>3, <3>4
  <2>8. CASE i \notin C BY <1>2, <2>1, <2>2, <2>4, <2>6, <2>8
  <2> QED BY <2>7, <2>8
<1>7. g = [i \in 0..n |-> g[i]] OBVIOUS
<1>7a. \A i \in 0..n : g[i] = f[N(i)] OBVIOUS
<1> HIDE DEF g, N
<1>8. \A i \in 0..n : i = 0 \/ i \in 1..n OBVIOUS
<1>9. \A i \in 0..n : g[i] = IF i = 0 THEN 0
                      ELSE g[i - 1] + (IF i \in Counted(keys, d) THEN d[keys[i]] ELSE 0)
  <2> SUFFICES ASSUME NEW i \in 0..n
               PROVE  g[i] = IF i = 0 THEN 0
                      ELSE g[i - 1] + (IF i \in Counted(keys, d) THEN d[keys[i]] ELSE 0)
    OBVIOUS
  <2>1. CASE i = 0 BY <1>5, <2>1
  <2>2. CASE i # 0
    <3>1. i \in 1..n BY <1>8, <2>2
    <3> QED BY <1>6, <2>2, <3>1
  <2> QED BY <2>1, <2>2
<1>10. Rec(g) BY <1>7, <1>9
<1>11. Rec(up) BY <1>10
<1> HIDE DEF up
<1> DEFINE T == {i \in 0..n : up[i] = g[i]}
<1>12. \A i \in 0..n : up[i] = IF i = 0 THEN 0
                       ELSE up[i - 1] + (IF i \in Counted(keys, d) THEN d[keys[i]] ELSE 0)
  BY <1>11
<1>13. 0 \in T BY <1>5, <1>12
<1>14. ASSUME NEW i \in 1..n, i - 1 \in T PROVE i \in T
  <2>1. i \in 0..n /\ i # 0 OBVIOUS
  <2>2. up[i] = up[i - 1] + (IF i \in Counted(keys, d) THEN d[keys[i]] ELSE 0) BY <1>12, <2>1
  <2>3. up[i - 1] = g[i - 1] BY <1>14
  <2> QED BY <1>6, <2>1, <2>2, <2>3
<1> HIDE DEF T
<1>15. 0..n \subseteq T BY <1>13, <1>14, UpTo
<1>16. \A i \in 0..n : up[i] = g[i] BY <1>15 DEF T
<1>17. ASSUME NEW i \in 0..n, i > 0 PROVE up[i - 1] <= up[i]
  <2>1. i \in 1..n /\ i - 1 \in 0..n BY <1>17
  <2>2. up[i] = g[i] /\ up[i - 1] = g[i - 1] BY <1>16, <2>1
  <2> QED BY <1>6, <2>1, <2>2
<1> QED BY <1>1, <1>3, <1>7a, <1>16, <1>17 DEF N

(* What the audit recorded is counts of seconds.                           *)
LEMMA AuditIs ==
  ASSUME NEW n \in Nat, NEW f, DOMAIN f = 1..n,
         \A i \in DOMAIN f : f[i].type = <<"audit_summary">> => AuditInput(f[i].audit)
  PROVE  AuditInput(AuditSummary(f))
<1>1. PICK at : at = {i \in DOMAIN f : f[i].type = <<"audit_summary">>} OBVIOUS
<1>2. AuditSummary(f) = IF at = {} THEN NoSummary ELSE f[Max(at)].audit BY <1>1 DEF AuditSummary
<1>3. AuditInput(NoSummary)
  <2>1. NoSummary.durations = <<>> /\ NoSummary.total = <<>> BY DEF NoSummary
  <2> QED BY <2>1 DEF AuditInput
<1>4. CASE at # {}
  <2>1. at \in SUBSET (0..n) BY <1>1
  <2>2. Max(at) \in at BY <1>4, <2>1, MaxIn
  <2>3. AuditInput(f[Max(at)].audit) BY <1>1, <2>2
  <2> QED BY <1>2, <1>4, <2>3
<1> QED BY <1>2, <1>3, <1>4

(* A stage that occurs more than once has no duration of its own.          *)
LEMMA OwnDuration ==
  ASSUME NEW n \in Nat, NEW keys, DOMAIN keys = 1..n, NEW d, NEW i \in 1..n,
         StageDuration(d, keys[i], Occurrences(keys, keys[i])).own # <<>>
  PROVE  Occurrences(keys, keys[i]) = 1
<1>1. PICK o : o = Occurrences(keys, keys[i]) OBVIOUS
<1>2. o \in Nat /\ (o = 0 => \A j \in 1..n : keys[j] # keys[i]) BY <1>1, OccursNot
<1>3. o # 0 BY <1>2
<1>4. ~(o > 1) BY <1>1 DEF StageDuration
<1> QED BY <1>1, <1>2, <1>3, <1>4

(* What the timeline says adds up.                                         *)
TimelineAdds(t) ==
  LET n == Len(t.entries)
      stages == DOMAIN t.by_stage
      staged == MapThenSumSet(LAMBDA k : t.by_stage[k].seconds, stages)
  IN /\ n > 0 => t.entries[n].cumulative = staged
     /\ t.measured # <<>> => t.measured[1] = staged
     /\ t.unattributed # <<>> => t.unattributed[1] + t.measured[1] = t.total[1]
     /\ \A i \in 1..n :
          /\ i > 1 => t.entries[i - 1].cumulative <= t.entries[i].cumulative
          /\ t.entries[i].duration.own # <<>> =>
               Cardinality({j \in 1..n : t.entries[j].key = t.entries[i].key}) = 1

MeasuredTime(d, K) == MapThenSumSet(LAMBDA k : d[k], K)

(* The parts of a timeline.                                                *)
TimelineOf(t, keys, d, total, K, measured) ==
  /\ t.total = total
  /\ t.measured = IF Counted(keys, d) = {} THEN <<>> ELSE <<measured>>
  /\ t.unattributed = IF Counted(keys, d) = {} \/ total = <<>> THEN <<>>
                      ELSE <<total[1] - measured>>
  /\ t.entries = [i \in DOMAIN keys |->
           [key |-> keys[i], category |-> CategoryOf(keys[i]),
            duration |-> StageDuration(d, keys[i], Occurrences(keys, keys[i])),
            cumulative |-> Cumulative(keys, d)[i]]]
  /\ t.by_stage = [k \in K |-> [seconds |-> d[k], occurrences |-> Occurrences(keys, k)]]

LEMMA TimelineIs ==
  ASSUME NEW stored
  PROVE  LET audit == AuditSummary(Findings(stored))
             keys == Keys(Findings(stored))
             K == {keys[i] : i \in Counted(keys, audit.durations)}
         IN TimelineOf(Timeline(stored), keys, audit.durations, audit.total, K,
                       MeasuredTime(audit.durations, K))
BY DEF Timeline, Cumulative, TimelineOf, MeasuredTime

LEMMA TimelineHolds ==
  ASSUME NEW in, ReplayInput(in)
  PROVE  TimelineAdds(Timeline(in.stored))
<1>1. PICK f : f = Findings(in.stored) OBVIOUS
<1>2. PICK n \in Nat : Len(f) = n /\ DOMAIN f = 1..n BY <1>1, FindingsAre
<1>3. PICK keys : keys = Keys(f) OBVIOUS
<1>4. DOMAIN keys = 1..n /\ Len(keys) = n
  <2>1. keys = [i \in 1..n |-> ClassifyEntry(f[i])] BY <1>2, <1>3 DEF Keys
  <2> QED BY <2>1
<1>5. PICK audit : audit = AuditSummary(f) OBVIOUS
<1>6. AuditInput(audit)
  <2>1. \A i \in DOMAIN f : f[i].type = <<"audit_summary">> => AuditInput(f[i].audit)
    BY <1>1, FindingsAre
  <2> QED BY <1>2, <1>5, <2>1, AuditIs
<1>7. PICK d, total : d = audit.durations /\ total = audit.total OBVIOUS
<1>8. (\A k \in DOMAIN d : d[k] \in Nat) /\ total \in Seq(Int) BY <1>6, <1>7 DEF AuditInput
<1>9. PICK K : K = {keys[i] : i \in Counted(keys, d)} OBVIOUS
<1>10. K = NamedUpto(keys, d, n) /\ K \subseteq DOMAIN d /\ IsFiniteSet(K)
  <2>1. PICK C \in SUBSET (1..n) : C = Counted(keys, d) BY <1>4 DEF Counted
  <2>2. {j \in C : j <= n} = C BY <2>1
  <2>3. \A i \in C : keys[i] \in DOMAIN d BY <2>1 DEF Counted
  <2>4. IsFiniteSet({keys[i] : i \in 1..n}) BY Images
  <2>5. K \subseteq {keys[i] : i \in 1..n} BY <1>9, <2>1
  <2>6. IsFiniteSet(K) BY <2>4, <2>5, FS_Subset
  <2> QED BY <1>9, <2>1, <2>2, <2>3, <2>6 DEF NamedUpto
<1>11. PICK measured : measured = MeasuredTime(d, K) OBVIOUS
<1>12. PICK t : t = Timeline(in.stored) OBVIOUS
<1>13. TimelineOf(t, keys, d, total, K, measured)
  <2>1. TimelineOf(Timeline(in.stored), keys, audit.durations, audit.total,
                   {keys[i] : i \in Counted(keys, audit.durations)},
                   MeasuredTime(audit.durations, {keys[i] : i \in Counted(keys, audit.durations)}))
    BY <1>1, <1>3, <1>5, TimelineIs
  <2>2. K = {keys[i] : i \in Counted(keys, audit.durations)} BY <1>7, <1>9
  <2>3. measured = MeasuredTime(audit.durations, K) BY <1>7, <1>11
  <2> QED BY <1>7, <1>12, <2>1, <2>2, <2>3
<1>14. PICK w \in [K -> Nat] : w = [k \in K |-> d[k]] /\ \A k \in K : w[k] = d[k]
  <2>1. \A k \in K : d[k] \in Nat BY <1>8, <1>10
  <2>2. PICK w : w = [k \in K |-> d[k]] OBVIOUS
  <2>3. w \in [K -> Nat] /\ \A k \in K : w[k] = d[k] BY <2>1, <2>2
  <2> QED BY <2>2, <2>3
<1>15. w \in [K -> Int] OBVIOUS
<1>16. PICK g \in [SUBSET K -> Int] : AddsUp(g, K, w) BY <1>10, <1>15, SumExists
<1>17. measured = g[K]
  <2>1. \A k \in K : d[k] \in Int BY <1>8, <1>10
  <2>2. SumsTo(measured, K, w) BY <1>10, <1>11, <1>14, <2>1, SumOfDurations DEF MeasuredTime
  <2> QED BY <1>10, <1>15, <1>16, <2>2, SumsAgree DEF SumsTo
<1>18. PICK b : b = t.by_stage OBVIOUS
<1>19. DOMAIN b = K /\ \A k \in K : b[k].seconds = d[k] BY <1>13, <1>18 DEF TimelineOf
<1>20. MapThenSumSet(LAMBDA k : b[k].seconds, K) = g[K]
  <2>1. \A k \in K : b[k].seconds \in Int BY <1>8, <1>10, <1>19
  <2>2. SumsTo(MapThenSumSet(LAMBDA k : b[k].seconds, K), K, [k \in K |-> b[k].seconds])
    BY <1>10, <2>1, SumOfSeconds
  <2>3. [k \in K |-> b[k].seconds] = w BY <1>14, <1>19
  <2>4. SumsTo(MapThenSumSet(LAMBDA k : b[k].seconds, K), K, w) BY <2>2, <2>3
  <2> QED BY <1>10, <1>15, <1>16, <2>4, SumsAgree DEF SumsTo
<1>21. PICK staged : staged = MapThenSumSet(LAMBDA k : t.by_stage[k].seconds, DOMAIN t.by_stage)
  OBVIOUS
<1>22. staged = g[K] BY <1>18, <1>19, <1>20, <1>21
<1>23. g[K] \in Int OBVIOUS
<1>24. PICK up : up = Cumulative(keys, d) OBVIOUS
<1>25. \A i \in 0..n : up[i] = g[NamedUpto(keys, d, i)] /\ (i > 0 => up[i - 1] <= up[i])
  BY <1>4, <1>10, <1>14, <1>16, <1>24, CumulativeIs
<1>26. PICK e : e = t.entries OBVIOUS
<1>27. /\ DOMAIN e = 1..n /\ Len(e) = n
       /\ \A i \in 1..n : /\ e[i].key = keys[i] /\ e[i].cumulative = up[i]
                          /\ e[i].duration = StageDuration(d, keys[i], Occurrences(keys, keys[i]))
  <2>1. e = [i \in 1..n |->
                [key |-> keys[i], category |-> CategoryOf(keys[i]),
                 duration |-> StageDuration(d, keys[i], Occurrences(keys, keys[i])),
                 cumulative |-> up[i]]]
    BY <1>4, <1>13, <1>24, <1>26 DEF TimelineOf
  <2> QED BY <2>1
<1>28. n > 0 => e[n].cumulative = staged
  <2>1. n > 0 => n \in 1..n /\ n \in 0..n OBVIOUS
  <2> QED BY <1>10, <1>22, <1>25, <1>27, <2>1
<1>29. t.measured # <<>> => t.measured[1] = staged BY <1>13, <1>17, <1>22 DEF TimelineOf
<1>30. t.unattributed # <<>> => t.unattributed[1] + t.measured[1] = t.total[1]
  <2> SUFFICES ASSUME t.unattributed # <<>> PROVE t.unattributed[1] + t.measured[1] = t.total[1]
    OBVIOUS
  <2>1. Counted(keys, d) # {} /\ total # <<>> BY <1>13 DEF TimelineOf
  <2>2. total[1] \in Int BY <1>8, <2>1
  <2>3. PICK x \in Int, y \in Int : x = total[1] /\ y = measured BY <1>17, <1>23, <2>2
  <2>4. t.unattributed = <<x - y>> /\ t.measured = <<y>> /\ t.total[1] = x BY <1>13, <2>1, <2>3 DEF TimelineOf
  <2>5. t.unattributed[1] = x - y /\ t.measured[1] = y BY <2>4
  <2> QED BY <2>3, <2>4, <2>5
<1>31. ASSUME NEW i \in 1..n
       PROVE  /\ i > 1 => e[i - 1].cumulative <= e[i].cumulative
              /\ e[i].duration.own # <<>> => Cardinality({j \in 1..n : e[j].key = e[i].key}) = 1
  <2>1. i > 1 => e[i - 1].cumulative <= e[i].cumulative
    <3>1. i > 1 => i \in 0..n /\ i > 0 /\ i - 1 \in 1..n OBVIOUS
    <3> QED BY <1>25, <1>27, <3>1
  <2>2. e[i].duration.own # <<>> => Cardinality({j \in 1..n : e[j].key = e[i].key}) = 1
    <3>1. {j \in 1..n : e[j].key = e[i].key} = {j \in DOMAIN keys : keys[j] = keys[i]}
      BY <1>4, <1>27
    <3>2. Occurrences(keys, keys[i]) = Cardinality({j \in DOMAIN keys : keys[j] = keys[i]})
      BY DEF Occurrences
    <3>3. e[i].duration = StageDuration(d, keys[i], Occurrences(keys, keys[i])) BY <1>27
    <3>4. e[i].duration.own # <<>> => Occurrences(keys, keys[i]) = 1 BY <1>4, <3>3, OwnDuration
    <3> QED BY <3>1, <3>2, <3>4
  <2> QED BY <2>1, <2>2
<1>32. TimelineAdds(t)
  <2>1. Len(t.entries) = n BY <1>26, <1>27
  <2> QED BY <1>21, <1>26, <1>28, <1>29, <1>30, <1>31, <2>1 DEF TimelineAdds
<1> QED BY <1>12, <1>32

-----------------------------------------------------------------------------
(* The plan *)

(* The sources in order of priority, the runbook last.                     *)
LEMMA PriorityIs ==
  /\ PriorityIndex("policy") = 1 /\ PriorityIndex("memory") = 2
  /\ PriorityIndex("cross_dataset") = 3 /\ PriorityIndex("adaptive") = 4
  /\ PriorityIndex("retrieval") = 5 /\ PriorityIndex("runbook") = 6
<1>1. /\ DOMAIN SourcePriority = 1..5 /\ SourcePriority[1] = "policy"
      /\ SourcePriority[2] = "memory" /\ SourcePriority[3] = "cross_dataset"
      /\ SourcePriority[4] = "adaptive" /\ SourcePriority[5] = "retrieval"
  BY DEF SourcePriority
<1>2. \A i \in 1..5 : i = 1 \/ i = 2 \/ i = 3 \/ i = 4 \/ i = 5 OBVIOUS
<1>3. \A s \in {"policy", "memory", "cross_dataset", "adaptive", "retrieval"} :
        PriorityIndex(s) = CHOOSE i \in 1..5 : SourcePriority[i] = s
  BY <1>1 DEF PriorityIndex
<1>4. PriorityIndex("policy") = 1 BY <1>1, <1>2, <1>3
<1>5. PriorityIndex("memory") = 2 BY <1>1, <1>2, <1>3
<1>6. PriorityIndex("cross_dataset") = 3 BY <1>1, <1>2, <1>3
<1>7. PriorityIndex("adaptive") = 4 BY <1>1, <1>2, <1>3
<1>8. PriorityIndex("retrieval") = 5 BY <1>1, <1>2, <1>3
<1>9. PriorityIndex("runbook") = 6 BY DEF PriorityIndex
<1> QED BY <1>4, <1>5, <1>6, <1>7, <1>8, <1>9

ByPriority(list) == Ranking(list, LAMBDA a, b : PriorityIndex(a.source) < PriorityIndex(b.source))

(* The positions of a list, in order, are its positions.                   *)
LEMMA PositionsInOrder ==
  ASSUME NEW n \in Nat, NEW R, \A x, y \in 1..n : <<x, y>> \in R <=> x < y
  PROVE  InOrder(1..n, R) = [r \in 1..n |-> r]
<1>1. IsFiniteSet(1..n) /\ Cardinality(1..n) = n BY FS_Interval
<1>2. StrictOrder(1..n, R) BY DEF StrictOrder
<1>3. PICK o : o = InOrder(1..n, R) OBVIOUS
<1>4. Placed(o, 1..n, R) /\ o \in [1..n -> 1..n] BY <1>1, <1>2, <1>3, InOrderIs
<1>5. ASSUME NEW r \in 1..n PROVE o[r] = r
  <2>1. {y \in 1..n : <<y, r>> \in R} = 1..(r - 1) OBVIOUS
  <2>2. Cardinality(1..(r - 1)) = r - 1
    <3>1. PICK k \in Nat : k = r - 1 OBVIOUS
    <3>2. Cardinality(1..k) = k BY FS_Interval
    <3> QED BY <3>1, <3>2
  <2> QED BY <1>1, <1>4, <2>1, <2>2 DEF Placed
<1> QED BY <1>3, <1>4, <1>5

(* Sorting recommendations that are in order changes nothing.              *)
LEMMA SortedStays ==
  ASSUME NEW n \in Nat, NEW list, list = [i \in 1..n |-> list[i]],
         \A i \in 1..n : PriorityIndex(list[i].source) \in Int,
         \A i, j \in 1..n : i < j => PriorityIndex(list[i].source) <= PriorityIndex(list[j].source)
  PROVE  ByPriority(list) = list
<1> DEFINE before(a, b) == PriorityIndex(a.source) < PriorityIndex(b.source)
           R == {p \in (1..n) \X (1..n) : \/ before(list[p[1]], list[p[2]])
                                          \/ ~before(list[p[2]], list[p[1]]) /\ p[1] < p[2]}
           o == InOrder(1..n, R)
<1>1. DOMAIN list = 1..n OBVIOUS
<1>2. ByPriority(list) = [r \in DOMAIN o |-> list[o[r]]] BY <1>1 DEF ByPriority, Ranking
<1>3. ASSUME NEW x \in 1..n, NEW y \in 1..n PROVE <<x, y>> \in R <=> x < y
  <2>1. <<x, y>> \in R <=> before(list[x], list[y]) \/ (~before(list[y], list[x]) /\ x < y) OBVIOUS
  <2>2. PriorityIndex(list[x].source) \in Int /\ PriorityIndex(list[y].source) \in Int OBVIOUS
  <2>3. x < y \/ x = y \/ y < x OBVIOUS
  <2>4. x < y => PriorityIndex(list[x].source) <= PriorityIndex(list[y].source) OBVIOUS
  <2>5. y < x => PriorityIndex(list[y].source) <= PriorityIndex(list[x].source) OBVIOUS
  <2> HIDE DEF R
  <2> QED BY <2>1, <2>2, <2>3, <2>4, <2>5
<1> HIDE DEF R
<1>4. o = [r \in 1..n |-> r] BY <1>3, PositionsInOrder
<1> HIDE DEF o
<1>5. [r \in DOMAIN o |-> list[o[r]]] = [r \in 1..n |-> list[r]] BY <1>4
<1> QED BY <1>2, <1>5

(* Two lists, one after the other.                                         *)
ListOf(u, S, a) == u \in Seq(S) /\ Len(u) = a
Joins(j, u, v, a, b) ==
  (\A i \in 1..a : j[i] = u[i]) /\ (\A i \in 1..b : j[a + i] = v[i])

LEMMA JoinIs ==
  ASSUME NEW S, NEW u, NEW v, NEW a \in Nat, NEW b \in Nat, ListOf(u, S, a), ListOf(v, S, b)
  PROVE  ListOf(u \o v, S, a + b) /\ Joins(u \o v, u, v, a, b)
BY DEF ListOf, Joins

(* The causes by confidence are the causes found.                          *)
LEMMA CausesInOrder ==
  ASSUME NEW n \in Nat, NEW causes, DOMAIN causes = 1..n, \A i \in 1..n : causes[i].confidence \in Int
  PROVE  /\ DOMAIN ByConfidence(causes) = 1..n /\ Len(ByConfidence(causes)) = n
         /\ ByConfidence(causes) = [i \in 1..n |-> ByConfidence(causes)[i]]
         /\ \A r \in 1..n : \E i \in 1..n : ByConfidence(causes)[r] = causes[i]
<1> DEFINE before(c, d) == c.confidence > d.confidence
           B == {p \in (1..n) \X (1..n) : before(causes[p[1]], causes[p[2]])}
           R == {p \in (1..n) \X (1..n) : \/ before(causes[p[1]], causes[p[2]])
                                          \/ ~before(causes[p[2]], causes[p[1]]) /\ p[1] < p[2]}
           o == InOrder(1..n, R)
<1>1. ByConfidence(causes) = [r \in DOMAIN o |-> causes[o[r]]] BY DEF ByConfidence, Ranking
<1>2. \A x, y \in 1..n : <<x, y>> \in B <=> before(causes[x], causes[y]) OBVIOUS
<1>3. \A x, y \in 1..n : <<x, y>> \in R <=> <<x, y>> \in B \/ (<<y, x>> \notin B /\ x < y) OBVIOUS
<1>4. WeakOrder(1..n, B)
  <2> DEFINE c == [i \in 1..n |-> causes[i].confidence]
  <2>1. \A i \in 1..n : c[i] \in Int OBVIOUS
  <2>2. \A x, y \in 1..n : <<x, y>> \in B <=> c[x] > c[y] OBVIOUS
  <2> HIDE DEF B, c
  <2> QED BY SMTT(30), <2>1, <2>2 DEF WeakOrder
<1> HIDE DEF B, R
<1>5. StrictOrder(1..n, R) BY <1>3, <1>4, StableIsStrict
<1>6. IsFiniteSet(1..n) /\ Cardinality(1..n) = n BY FS_Interval
<1>7. o \in [1..n -> 1..n] BY <1>5, <1>6, InOrderIs
<1> HIDE DEF o
<1>8. ByConfidence(causes) = [r \in 1..n |-> causes[o[r]]] BY <1>1, <1>7
<1>9. \A r \in 1..n : ByConfidence(causes)[r] = causes[o[r]] /\ o[r] \in 1..n BY <1>7, <1>8
<1>10. Len(ByConfidence(causes)) = n BY <1>8
<1> QED BY <1>8, <1>9, <1>10

(* What is read of the findings is a list, if anything was found.          *)
LEMMA DataIs ==
  ASSUME NEW n \in Nat, NEW findings, DOMAIN findings = 1..n, \A i \in 1..n : FoundInput(findings[i]),
         NEW source \in DOMAIN FindingOf
  PROVE  DataOf(findings, source) = <<>> \/
           \E i \in 1..n : /\ FoundInput(findings[i]) /\ findings[i].type = FindingOf[source]
                           /\ DataOf(findings, source) = <<findings[i].data>>
<1>1. PICK own : own = {i \in DOMAIN findings : findings[i].type = FindingOf[source]} OBVIOUS
<1>2. DataOf(findings, source) = IF own = {} THEN <<>> ELSE <<findings[Max(own)].data>>
  BY <1>1 DEF DataOf
<1>3. CASE own = {} BY <1>2, <1>3
<1>4. CASE own # {}
  <2>1. own \in SUBSET (0..n) BY <1>1
  <2>2. Max(own) \in own BY <1>4, <2>1, MaxIn
  <2> QED BY <1>1, <1>2, <1>4, <2>2
<1> QED BY <1>3, <1>4

LEMMA FoundLists ==
  ASSUME NEW n \in Nat, NEW findings, DOMAIN findings = 1..n, \A i \in 1..n : FoundInput(findings[i])
  PROVE  /\ IsList(Matches(findings)) /\ IsList(Remembered(findings))
         /\ IsList(Correlated(findings)) /\ IsList(Items(findings, "cross_dataset", "supporting"))
         /\ IsList(CausesFound(findings)) /\ IsList(Items(findings, "retrieval", "chunks"))
         /\ \A i \in DOMAIN CausesFound(findings) : CausesFound(findings)[i].confidence \in Int
         /\ \A i \in DOMAIN Remembered(findings) : Remembered(findings)[i].similarity \in Int
<1>0. IsList(<<>>) BY DEF IsList
<1>1. /\ DOMAIN FindingOf = {"policy", "memory", "cross_dataset", "adaptive", "retrieval"}
      /\ FindingOf["policy"] = "policy" /\ FindingOf["memory"] = "memory"
      /\ FindingOf["cross_dataset"] = "cross_dataset" /\ FindingOf["retrieval"] = "rag"
  BY DEF FindingOf
<1>2. IsList(Matches(findings))
  <2>1. DataOf(findings, "policy") # <<>> => IsList(DataOf(findings, "policy")[1].matches)
    <3> SUFFICES ASSUME DataOf(findings, "policy") # <<>>
                 PROVE  IsList(DataOf(findings, "policy")[1].matches)
      OBVIOUS
    <3>1. PICK i \in 1..n : /\ FoundInput(findings[i]) /\ findings[i].type = "policy"
                            /\ DataOf(findings, "policy") = <<findings[i].data>>
      BY <1>1, DataIs
    <3>2. IsList(findings[i].data.matches) BY <3>1 DEF FoundInput
    <3> QED BY <3>1, <3>2
  <2> QED BY <1>0, <2>1 DEF Matches, Items
<1>3. /\ IsList(Remembered(findings))
      /\ \A i \in DOMAIN Remembered(findings) : Remembered(findings)[i].similarity \in Int
  <2>1. DataOf(findings, "memory") # <<>> =>
          /\ IsList(DataOf(findings, "memory")[1].matches)
          /\ \A i \in DOMAIN DataOf(findings, "memory")[1].matches :
               DataOf(findings, "memory")[1].matches[i].similarity \in Int
    <3> SUFFICES ASSUME DataOf(findings, "memory") # <<>>
                 PROVE  /\ IsList(DataOf(findings, "memory")[1].matches)
                        /\ \A i \in DOMAIN DataOf(findings, "memory")[1].matches :
                             DataOf(findings, "memory")[1].matches[i].similarity \in Int
      OBVIOUS
    <3>1. PICK i \in 1..n : /\ FoundInput(findings[i]) /\ findings[i].type = "memory"
                            /\ DataOf(findings, "memory") = <<findings[i].data>>
      BY <1>1, DataIs
    <3>2. /\ IsList(findings[i].data.matches)
          /\ \A k \in DOMAIN findings[i].data.matches : findings[i].data.matches[k].similarity \in Int
      BY <3>1 DEF FoundInput
    <3> QED BY <3>1, <3>2
  <2> QED BY <1>0, <2>1 DEF Remembered, Items
<1>4. IsList(Correlated(findings)) /\ IsList(Items(findings, "cross_dataset", "supporting"))
  <2>1. DataOf(findings, "cross_dataset") # <<>> =>
          /\ IsList(DataOf(findings, "cross_dataset")[1].strong)
          /\ IsList(DataOf(findings, "cross_dataset")[1].supporting)
    <3> SUFFICES ASSUME DataOf(findings, "cross_dataset") # <<>>
                 PROVE  /\ IsList(DataOf(findings, "cross_dataset")[1].strong)
                        /\ IsList(DataOf(findings, "cross_dataset")[1].supporting)
      OBVIOUS
    <3>1. PICK i \in 1..n : /\ FoundInput(findings[i]) /\ findings[i].type = "cross_dataset"
                            /\ DataOf(findings, "cross_dataset") = <<findings[i].data>>
      BY <1>1, DataIs
    <3>2. IsList(findings[i].data.strong) /\ IsList(findings[i].data.supporting)
      BY <3>1 DEF FoundInput
    <3> QED BY <3>1, <3>2
  <2> QED BY <1>0, <2>1 DEF Correlated, Items
<1>5. /\ IsList(CausesFound(findings)) /\ IsList(Items(findings, "retrieval", "chunks"))
      /\ \A i \in DOMAIN CausesFound(findings) : CausesFound(findings)[i].confidence \in Int
  <2>1. DataOf(findings, "retrieval") # <<>> =>
          /\ IsList(DataOf(findings, "retrieval")[1].causes)
          /\ IsList(DataOf(findings, "retrieval")[1].chunks)
          /\ \A i \in DOMAIN DataOf(findings, "retrieval")[1].causes :
               DataOf(findings, "retrieval")[1].causes[i].confidence \in Int
    <3> SUFFICES ASSUME DataOf(findings, "retrieval") # <<>>
                 PROVE  /\ IsList(DataOf(findings, "retrieval")[1].causes)
                        /\ IsList(DataOf(findings, "retrieval")[1].chunks)
                        /\ \A i \in DOMAIN DataOf(findings, "retrieval")[1].causes :
                             DataOf(findings, "retrieval")[1].causes[i].confidence \in Int
      OBVIOUS
    <3>1. PICK i \in 1..n : /\ FoundInput(findings[i]) /\ findings[i].type = "rag"
                            /\ DataOf(findings, "retrieval") = <<findings[i].data>>
      BY <1>1, DataIs
    <3>2. /\ IsList(findings[i].data.causes) /\ IsList(findings[i].data.chunks)
          /\ \A k \in DOMAIN findings[i].data.causes : findings[i].data.causes[k].confidence \in Int
      BY <3>1 DEF FoundInput
    <3> QED BY <3>1, <3>2
  <2> QED BY <1>0, <2>1 DEF CausesFound, Items
<1> QED BY <1>2, <1>3, <1>4, <1>5

(* What recommends the i-th thing to do.                                   *)
ByPolicy(G, findings, a, i) ==
  /\ i \in 1..a /\ i \in DOMAIN Matches(findings)
  /\ G[i] = Recommend("policy", Matches(findings)[i].id, Matches(findings)[i].approval)
ByCorrelation(G, findings, a, b, i) ==
  /\ i \in (a + 1)..b /\ i - a \in DOMAIN Correlated(findings)
  /\ G[i] = Recommend("cross_dataset", Correlated(findings)[i - a].id, FALSE)
BySeason(G, findings, b, c, i) ==
  i = b + 1 /\ c = b + 1 /\ Seasonal(findings) /\ G[i] = Recommend("adaptive", "seasonality", FALSE)
ByCause(G, findings, c, d, i) ==
  /\ i = c + 1 /\ d = c + 1 /\ CausesFound(findings) # <<>>
  /\ G[i] = Recommend("retrieval", ByConfidence(CausesFound(findings))[1].id, FALSE)
ByRunbook(G, d, e, i) == i \in (d + 1)..e /\ G[i] = Recommend("runbook", "none", TRUE)

(* The policies come first, up to a; what correlates, up to b; a season,   *)
(* up to c; a cause, up to d; and the runbook, up to e.                    *)
Gathers(G, findings, a, b, c, d, e) ==
  /\ a \in Nat /\ b \in Nat /\ c \in Nat /\ d \in Nat /\ e \in Nat
  /\ a <= b /\ b <= c /\ c <= d /\ d <= e /\ c <= b + 1 /\ d <= c + 1
  /\ Len(G) = e /\ G = [i \in 1..e |-> G[i]]
  /\ \A i \in 1..e : \/ ByPolicy(G, findings, a, i) \/ ByCorrelation(G, findings, a, b, i)
                     \/ BySeason(G, findings, b, c, i) \/ ByCause(G, findings, c, d, i)
                     \/ ByRunbook(G, d, e, i)

LEMMA GatheredIs ==
  ASSUME NEW n \in Nat, NEW findings, DOMAIN findings = 1..n, \A i \in 1..n : FoundInput(findings[i]),
         NEW runbook, IsList(runbook), NEW G, G = GatheredActions(findings, runbook)
  PROVE  \E a, b, c, d, e : Gathers(G, findings, a, b, c, d, e)
<1>1. PICK policies, strong, causes :
        /\ policies = Matches(findings) /\ causes = CausesFound(findings)
        /\ strong = IF Comparable(findings) THEN Correlated(findings) ELSE <<>>
  OBVIOUS
<1>2. PICK best : best = ByConfidence(causes) OBVIOUS
<1>3. PICK p \in Nat : DOMAIN policies = 1..p
  <2>1. IsList(policies) BY <1>1, FoundLists
  <2> QED BY <2>1 DEF IsList
<1>4. PICK q \in Nat : DOMAIN strong = 1..q /\ (q # 0 => strong = Correlated(findings))
  <2>0. IsList(Correlated(findings)) BY FoundLists
  <2>1. PICK q \in Nat : DOMAIN Correlated(findings) = 1..q BY <2>0 DEF IsList
  <2>2. CASE Comparable(findings) BY <1>1, <2>1, <2>2
  <2>3. CASE ~Comparable(findings)
    <3>1. strong = <<>> BY <1>1, <2>3
    <3>2. 0 \in Nat /\ DOMAIN strong = 1..0 BY <3>1
    <3> QED BY <3>2
  <2> QED BY <2>2, <2>3
<1>5. PICK r \in Nat : DOMAIN runbook = 1..r BY DEF IsList
<1>6. best = <<>> <=> causes = <<>>
  <2>1. IsList(causes) /\ \A i \in DOMAIN causes : causes[i].confidence \in Int BY <1>1, FoundLists
  <2>2. PICK m \in Nat : DOMAIN causes = 1..m /\ Len(causes) = m BY <2>1 DEF IsList
  <2>3. DOMAIN best = 1..m BY <1>2, <2>1, <2>2, CausesInOrder
  <2>4. causes = <<>> => m = 0 BY <2>2
  <2>5. best = <<>> => m = 0 BY <2>3
  <2>6. m = 0 => causes = <<>> BY <2>1, <2>2 DEF IsList
  <2>7. m = 0 => best = <<>>
    <3>1. best = [i \in 1..m |-> best[i]] BY <1>2, <2>1, <2>2, CausesInOrder
    <3> QED BY <3>1
  <2> QED BY <2>4, <2>5, <2>6, <2>7
<1> DEFINE season == Recommend("adaptive", "seasonality", FALSE)
           cause == Recommend("retrieval", best[1].id, FALSE)
           page == Recommend("runbook", "none", TRUE)
           U == [i \in DOMAIN policies |-> Recommend("policy", policies[i].id, policies[i].approval)]
           V == [i \in DOMAIN strong |-> Recommend("cross_dataset", strong[i].id, FALSE)]
           W == IF Seasonal(findings) THEN <<season>> ELSE <<>>
           X == IF best = <<>> THEN <<>> ELSE <<cause>>
           Y == [i \in DOMAIN runbook |-> page]
           S == {U[i] : i \in 1..p} \cup {V[i] : i \in 1..q} \cup {season, cause, page}
<1>7. G = U \o V \o W \o X \o Y BY <1>1, <1>2 DEF GatheredActions
<1>8. ListOf(U, S, p) /\ \A i \in 1..p :
        U[i] = Recommend("policy", policies[i].id, policies[i].approval)
  <2>1. \A i \in 1..p : U[i] = Recommend("policy", policies[i].id, policies[i].approval) BY <1>3
  <2>2. U = [i \in 1..p |-> U[i]] BY <1>3
  <2> HIDE DEF U
  <2>3. \A i \in 1..p : U[i] \in S OBVIOUS
  <2> HIDE DEF S
  <2>4. U \in Seq(S) /\ Len(U) = p BY <2>2, <2>3
  <2> QED BY <2>1, <2>4 DEF ListOf
<1>9. ListOf(V, S, q) /\ \A i \in 1..q :
        V[i] = Recommend("cross_dataset", strong[i].id, FALSE)
  <2>1. \A i \in 1..q : V[i] = Recommend("cross_dataset", strong[i].id, FALSE) BY <1>4
  <2>2. V = [i \in 1..q |-> V[i]] BY <1>4
  <2> HIDE DEF V
  <2>3. \A i \in 1..q : V[i] \in S OBVIOUS
  <2> HIDE DEF S
  <2>4. V \in Seq(S) /\ Len(V) = q BY <2>2, <2>3
  <2> QED BY <2>1, <2>4 DEF ListOf
<1>10. PICK w \in {0, 1} : ListOf(W, S, w) /\ (w = 1 => Seasonal(findings) /\ W[1] = season)
  <2>1. season \in S OBVIOUS
  <2> HIDE DEF S, season
  <2>2. CASE Seasonal(findings)
    <3>1. W = <<season>> BY <2>2
    <3> HIDE DEF W
    <3>2. W \in Seq(S) /\ Len(W) = 1 /\ W[1] = season BY <2>1, <3>1
    <3> QED BY <2>2, <3>2 DEF ListOf
  <2>3. CASE ~Seasonal(findings)
    <3>1. W = <<>> BY <2>3
    <3> HIDE DEF W
    <3>2. W \in Seq(S) /\ Len(W) = 0 BY <3>1
    <3> QED BY <3>2 DEF ListOf
  <2> QED BY <2>2, <2>3
<1>11. PICK x \in {0, 1} : ListOf(X, S, x) /\ (x = 1 => causes # <<>> /\ X[1] = cause)
  <2>1. cause \in S OBVIOUS
  <2> HIDE DEF S, cause
  <2>2. CASE best # <<>>
    <3>1. X = <<cause>> BY <2>2
    <3> HIDE DEF X
    <3>2. X \in Seq(S) /\ Len(X) = 1 /\ X[1] = cause BY <2>1, <3>1
    <3> QED BY <1>6, <2>2, <3>2 DEF ListOf
  <2>3. CASE best = <<>>
    <3>1. X = <<>> BY <2>3
    <3> HIDE DEF X
    <3>2. X \in Seq(S) /\ Len(X) = 0 BY <3>1
    <3> QED BY <3>2 DEF ListOf
  <2> QED BY <2>2, <2>3
<1>12. ListOf(Y, S, r) /\ \A i \in 1..r : Y[i] = page
  <2>1. page \in S OBVIOUS
  <2> HIDE DEF S, page
  <2>2. Y \in Seq(S) /\ Len(Y) = r /\ \A i \in 1..r : Y[i] = page BY <1>5, <2>1
  <2> QED BY <2>2 DEF ListOf
<1> HIDE DEF U, V, W, X, Y, S
<1>13. PICK A : A = U \o V OBVIOUS
<1>14. ListOf(A, S, p + q) /\ Joins(A, U, V, p, q)
  BY <1>8, <1>9, <1>13, JoinIs
<1>15. PICK ab \in Nat : ab = p + q OBVIOUS
<1>16. PICK B : B = A \o W OBVIOUS
<1>17. ListOf(B, S, ab + w) /\ Joins(B, A, W, ab, w)
  <2>1. w \in Nat OBVIOUS
  <2> QED BY <2>1, <1>10, <1>14, <1>15, <1>16, JoinIs
<1>18. PICK bc \in Nat : bc = ab + w OBVIOUS
<1>19. PICK C : C = B \o X OBVIOUS
<1>20. ListOf(C, S, bc + x) /\ Joins(C, B, X, bc, x)
  <2>1. x \in Nat OBVIOUS
  <2> QED BY <2>1, <1>11, <1>17, <1>18, <1>19, JoinIs
<1>21. PICK cd \in Nat : cd = bc + x OBVIOUS
<1>22. G = C \o Y BY <1>7, <1>13, <1>16, <1>19
<1>23. ListOf(G, S, cd + r) /\ Joins(G, C, Y, cd, r)
  BY <1>12, <1>20, <1>21, <1>22, JoinIs
<1>24. PICK e \in Nat : e = cd + r OBVIOUS
<1>25. G = [i \in 1..e |-> G[i]] /\ Len(G) = e BY <1>23, <1>24 DEF ListOf
<1>26. ASSUME NEW i \in 1..p PROVE ByPolicy(G, findings, p, i)
  <2>1. i \in 1..ab /\ i \in 1..bc /\ i \in 1..cd BY <1>15, <1>18, <1>21
  <2>2. G[i] = U[i] BY <1>14, <1>17, <1>20, <1>23, <2>1 DEF Joins
  <2> QED BY <1>1, <1>3, <1>8, <2>2 DEF ByPolicy
<1>27. ASSUME NEW i \in (p + 1)..ab PROVE ByCorrelation(G, findings, p, ab, i)
  <2>1. PICK k \in 1..q : k = i - p /\ p + k = i BY <1>15
  <2>2. i \in 1..ab /\ i \in 1..bc /\ i \in 1..cd /\ q # 0 BY <1>15, <1>18, <1>21, <2>1
  <2>3. G[i] = A[i] BY <1>17, <1>20, <1>23, <2>2 DEF Joins
  <2>4. A[i] = V[k] BY <1>14, <2>1 DEF Joins
  <2>5. V[k] = Recommend("cross_dataset", Correlated(findings)[k].id, FALSE) BY <1>4, <1>9, <2>2
  <2>6. k \in DOMAIN Correlated(findings) BY <1>4, <2>2
  <2> QED BY <2>1, <2>3, <2>4, <2>5, <2>6 DEF ByCorrelation
<1>28. ASSUME NEW i \in (ab + 1)..bc PROVE BySeason(G, findings, ab, bc, i)
  <2>1. i = ab + 1 /\ w = 1 /\ bc = ab + 1 BY <1>18
  <2>2. i \in 1..bc /\ i \in 1..cd /\ 1 \in 1..w BY <1>18, <1>21, <2>1
  <2>3. G[i] = B[i] BY <1>20, <1>23, <2>2 DEF Joins
  <2>4. B[i] = W[1] BY <1>17, <2>1, <2>2 DEF Joins
  <2> QED BY <1>10, <2>1, <2>3, <2>4 DEF BySeason
<1>29. ASSUME NEW i \in (bc + 1)..cd PROVE ByCause(G, findings, bc, cd, i)
  <2>1. i = bc + 1 /\ x = 1 /\ cd = bc + 1 BY <1>21
  <2>2. i \in 1..cd /\ 1 \in 1..x BY <1>21, <2>1
  <2>3. G[i] = C[i] BY <1>23, <2>2 DEF Joins
  <2>4. C[i] = X[1] BY <1>20, <2>1, <2>2 DEF Joins
  <2> QED BY <1>1, <1>2, <1>11, <2>1, <2>3, <2>4 DEF ByCause
<1>30. ASSUME NEW i \in (cd + 1)..e PROVE ByRunbook(G, cd, e, i)
  <2>1. PICK k \in 1..r : k = i - cd /\ cd + k = i BY <1>24
  <2>2. G[i] = Y[k] BY <1>23, <2>1 DEF Joins
  <2> QED BY <1>12, <2>2 DEF ByRunbook
<1>31. \A i \in 1..e : i \in 1..p \/ i \in (p + 1)..ab \/ i \in (ab + 1)..bc
                     \/ i \in (bc + 1)..cd \/ i \in (cd + 1)..e
  OBVIOUS
<1>32. p <= ab /\ ab <= bc /\ bc <= cd /\ cd <= e /\ bc <= ab + 1 /\ cd <= bc + 1
  BY <1>15, <1>18, <1>21, <1>24
<1>33. Gathers(G, findings, p, ab, bc, cd, e)
  <2>1. Len(G) = e BY <1>25
  <2>2. \A i \in 1..e : \/ ByPolicy(G, findings, p, i) \/ ByCorrelation(G, findings, p, ab, i)
                        \/ BySeason(G, findings, ab, bc, i) \/ ByCause(G, findings, bc, cd, i)
                        \/ ByRunbook(G, cd, e, i)
    BY <1>26, <1>27, <1>28, <1>29, <1>30, <1>31
  <2> QED BY <1>25, <1>32, <2>1, <2>2 DEF Gathers
<1> QED BY <1>33

(* Where a recommendation is says which source it is from, and the other   *)
(* way round.                                                              *)
Zoned(source, a, b, c, d, i) ==
  \/ i <= a /\ source = "policy"
  \/ a < i /\ i <= b /\ source = "cross_dataset"
  \/ b < i /\ i <= c /\ source = "adaptive"
  \/ c < i /\ i <= d /\ source = "retrieval"
  \/ d < i /\ source = "runbook"

LEMMA ZonesAre ==
  ASSUME NEW findings, NEW G, NEW a, NEW b, NEW c, NEW d, NEW e, Gathers(G, findings, a, b, c, d, e),
         NEW i \in 1..e
  PROVE  Zoned(G[i].source, a, b, c, d, i)
<1>1. a \in Nat /\ b \in Nat /\ c \in Nat /\ d \in Nat /\ e \in Nat /\ i \in Nat BY DEF Gathers
<1>3. CASE ByPolicy(G, findings, a, i) BY <1>1, <1>3 DEF ByPolicy, Zoned, Recommend
<1>4. CASE ByCorrelation(G, findings, a, b, i) BY <1>1, <1>4 DEF ByCorrelation, Zoned, Recommend
<1>5. CASE BySeason(G, findings, b, c, i) BY <1>1, <1>5 DEF BySeason, Zoned, Recommend
<1>6. CASE ByCause(G, findings, c, d, i) BY <1>1, <1>6 DEF ByCause, Zoned, Recommend
<1>7. CASE ByRunbook(G, d, e, i) BY <1>1, <1>7 DEF ByRunbook, Zoned, Recommend
<1> QED BY <1>3, <1>4, <1>5, <1>6, <1>7 DEF Gathers

(* What is gathered is in order of priority already.                       *)
LEMMA GatheredInOrder ==
  ASSUME NEW findings, NEW G, NEW a, NEW b, NEW c, NEW d, NEW e, Gathers(G, findings, a, b, c, d, e)
  PROVE  /\ \A i \in 1..e : PriorityIndex(G[i].source) \in Int
         /\ \A i, j \in 1..e : i < j => PriorityIndex(G[i].source) <= PriorityIndex(G[j].source)
<1>1. /\ a \in Nat /\ b \in Nat /\ c \in Nat /\ d \in Nat /\ e \in Nat
      /\ a <= b /\ b <= c /\ c <= d
  BY DEF Gathers
<1> DEFINE At(i, p) == \/ i <= a /\ p = 1
                       \/ a < i /\ i <= b /\ p = 3
                       \/ b < i /\ i <= c /\ p = 4
                       \/ c < i /\ i <= d /\ p = 5
                       \/ d < i /\ p = 6
<1>2. ASSUME NEW i \in 1..e PROVE At(i, PriorityIndex(G[i].source))
  <2>1. Zoned(G[i].source, a, b, c, d, i) BY ZonesAre
  <2>2. PICK s : s = G[i].source OBVIOUS
  <2>3. Zoned(s, a, b, c, d, i) BY <2>1, <2>2
  <2>4. At(i, PriorityIndex(s)) BY <2>3, PriorityIs DEF Zoned
  <2> QED BY <2>2, <2>4
<1>3. ASSUME NEW i \in 1..e, NEW j \in 1..e, NEW p, NEW q, At(i, p), At(j, q), i < j
      PROVE  p \in Int /\ q \in Int /\ p <= q
  BY <1>1, <1>3
<1>4. \A i \in 1..e : \A p : At(i, p) => p \in Int OBVIOUS
<1> HIDE DEF At
<1> QED BY <1>2, <1>3, <1>4

LEMMA ActionsAre ==
  ASSUME NEW findings, NEW runbook, NEW G, G = GatheredActions(findings, runbook),
         NEW a, NEW b, NEW c, NEW d, NEW e, Gathers(G, findings, a, b, c, d, e)
  PROVE  RecommendedActions(findings, runbook) = G
<1>1. RecommendedActions(findings, runbook) = ByPriority(G) BY DEF RecommendedActions, ByPriority
<1>2. e \in Nat /\ G = [i \in 1..e |-> G[i]] BY DEF Gathers
<1> QED BY <1>1, <1>2, GatheredInOrder, SortedStays

(* Where the i-th action came from, as the decision graph sees it.         *)
EvidenceAt(findings, actions, i) ==
  LET source == actions[i].source
      n == Cardinality({j \in 1..i : actions[j].source = source})
      items == EvidenceInOrder(findings, source)
  IN CASE source = "adaptive" -> "seasonality"
       [] source # "adaptive" /\ n <= Len(items) -> items[n].id
       [] OTHER -> "none"

(* A recommendation from a source's n-th item is that source's n-th, so    *)
(* the decision graph finds where it came from.                            *)
LEMMA TracedBack ==
  ASSUME NEW n \in Nat, NEW findings, DOMAIN findings = 1..n, \A i \in 1..n : FoundInput(findings[i]),
         NEW G, NEW a, NEW b, NEW c, NEW d, NEW e, Gathers(G, findings, a, b, c, d, e), NEW i \in 1..e
  PROVE  /\ EvidenceAt(findings, G, i) = G[i].from
         /\ G[i].source # "runbook" => G[i].from \in EvidenceGraph(findings, G[i].source)
<1>1. /\ a \in Nat /\ b \in Nat /\ c \in Nat /\ d \in Nat /\ e \in Nat /\ i \in Nat
      /\ a <= b /\ b <= c /\ c <= d /\ d <= e
  BY DEF Gathers
<1>3. \A j \in 1..i : j \in 1..e /\ j \in Nat BY <1>1
<1>3a. \A j \in 1..i : Zoned(G[j].source, a, b, c, d, j) BY <1>3, ZonesAre
<1>3b. \A x \in Nat, y \in Nat : Cardinality((x + 1)..(x + y)) = y
  <2> SUFFICES ASSUME NEW x \in Nat, NEW y \in Nat PROVE Cardinality((x + 1)..(x + y)) = y
    OBVIOUS
  <2>1. x + 1 \in Int /\ x + y \in Int /\ Cardinality((x + 1)..(x + y)) =
          IF x + 1 > x + y THEN 0 ELSE (x + y) - (x + 1) + 1
    BY FS_Interval
  <2> QED BY <2>1
<1> DEFINE count(s) == Cardinality({j \in 1..i : G[j].source = s})
<1>4. CASE ByPolicy(G, findings, a, i)
  <2>1. i \in 1..a /\ i \in DOMAIN Matches(findings) /\ G[i].source = "policy"
        /\ G[i].from = Matches(findings)[i].id
    BY <1>4 DEF ByPolicy, Recommend
  <2>2. {j \in 1..i : G[j].source = "policy"} = (0 + 1)..(0 + i)
    <3>1. \A j \in 1..i : G[j].source = "policy" BY <1>1, <1>3a, <2>1 DEF Zoned
    <3> QED BY <3>1
  <2>3. count("policy") = i BY <1>1, <1>3b, <2>2
  <2>4. EvidenceInOrder(findings, "policy") = Matches(findings) BY DEF EvidenceInOrder
  <2>5. i <= Len(Matches(findings))
    <3>1. IsList(Matches(findings)) BY FoundLists
    <3> QED BY <2>1, <3>1 DEF IsList
  <2>6. EvidenceAt(findings, G, i) = Matches(findings)[i].id BY <2>1, <2>3, <2>4, <2>5 DEF EvidenceAt
  <2>7. G[i].from \in EvidenceGraph(findings, "policy") BY <2>1 DEF EvidenceGraph
  <2> QED BY <2>1, <2>6, <2>7
<1>5. CASE ByCorrelation(G, findings, a, b, i)
  <2>0. PICK k \in Nat : k = i - a /\ i = a + k /\ k >= 1 BY <1>1, <1>5 DEF ByCorrelation
  <2>1. i \in (a + 1)..b /\ k \in DOMAIN Correlated(findings) /\ G[i].source = "cross_dataset"
        /\ G[i].from = Correlated(findings)[k].id
    BY <1>5, <2>0 DEF ByCorrelation, Recommend
  <2>2. {j \in 1..i : G[j].source = "cross_dataset"} = (a + 1)..(a + k)
    <3>1. \A j \in 1..i : G[j].source = "cross_dataset" <=> a < j BY <1>1, <1>3a, <2>1 DEF Zoned
    <3>2. \A j : j \in 1..i /\ a < j <=> j \in (a + 1)..(a + k) BY <1>1, <2>0
    <3> QED BY <3>1, <3>2
  <2>2a. Cardinality((a + 1)..(a + k)) = k BY <1>1, <1>3b
  <2>3. count("cross_dataset") = k BY <2>2, <2>2a
  <2>4. EvidenceInOrder(findings, "cross_dataset") = Correlated(findings) BY DEF EvidenceInOrder
  <2>5. k <= Len(Correlated(findings))
    <3>1. IsList(Correlated(findings)) BY FoundLists
    <3> QED BY <2>1, <3>1 DEF IsList
  <2>6. EvidenceAt(findings, G, i) = Correlated(findings)[k].id BY <2>1, <2>3, <2>4, <2>5 DEF EvidenceAt
  <2>7. G[i].from \in EvidenceGraph(findings, "cross_dataset")
    <3>1. Correlated(findings) = Items(findings, "cross_dataset", "strong") BY DEF Correlated
    <3>2. "strong" \in {"supporting", "strong", "contradicting"} OBVIOUS
    <3>3. EvidenceGraph(findings, "cross_dataset") =
            UNION {{Items(findings, "cross_dataset", f)[m].id : m \in DOMAIN Items(findings, "cross_dataset", f)} :
                     f \in {"supporting", "strong", "contradicting"}}
      BY DEF EvidenceGraph
    <3> QED BY <2>1, <3>1, <3>2, <3>3
  <2> QED BY <2>1, <2>6, <2>7
<1>6. CASE BySeason(G, findings, b, c, i)
  <2>1. Seasonal(findings) /\ G[i].source = "adaptive" /\ G[i].from = "seasonality"
    BY <1>6 DEF BySeason, Recommend
  <2>2. EvidenceAt(findings, G, i) = "seasonality" BY <2>1 DEF EvidenceAt
  <2>3. "seasonality" \in EvidenceGraph(findings, "adaptive") BY <2>1 DEF EvidenceGraph
  <2> QED BY <2>1, <2>2, <2>3
<1>7. CASE ByCause(G, findings, c, d, i)
  <2> DEFINE causes == CausesFound(findings)
             best == ByConfidence(causes)
  <2>1. /\ i = c + 1 /\ d = c + 1 /\ causes # <<>> /\ G[i].source = "retrieval"
        /\ G[i].from = best[1].id
    BY <1>7 DEF ByCause, Recommend
  <2>2. {j \in 1..i : G[j].source = "retrieval"} = (c + 1)..(c + 1)
    <3>1. \A j \in 1..i : G[j].source = "retrieval" <=> j = c + 1 BY <1>1, <1>3a, <2>1 DEF Zoned
    <3> QED BY <1>1, <2>1, <3>1
  <2>3. count("retrieval") = 1 BY <1>1, <1>3b, <2>2
  <2>4. EvidenceInOrder(findings, "retrieval") = best BY DEF EvidenceInOrder
  <2>5. IsList(causes) /\ \A k \in DOMAIN causes : causes[k].confidence \in Int BY FoundLists
  <2>6. PICK m \in Nat : DOMAIN causes = 1..m /\ m # 0 BY <2>1, <2>5 DEF IsList
  <2>7. Len(best) = m /\ \E k \in 1..m : best[1] = causes[k]
    <3>1. PICK z : z = causes OBVIOUS
    <3>2. DOMAIN z = 1..m /\ \A k \in 1..m : z[k].confidence \in Int BY <2>5, <2>6, <3>1
    <3>3. Len(ByConfidence(z)) = m /\ \A r \in 1..m : \E k \in 1..m : ByConfidence(z)[r] = z[k]
      BY <3>2, CausesInOrder
    <3>4. 1 \in 1..m BY <2>6
    <3> QED BY <3>1, <3>3, <3>4
  <2> HIDE DEF best
  <2>8. EvidenceAt(findings, G, i) = best[1].id BY <2>1, <2>3, <2>4, <2>6, <2>7 DEF EvidenceAt
  <2>9. EvidenceGraph(findings, "retrieval") = {causes[k].id : k \in DOMAIN causes} BY DEF EvidenceGraph
  <2>10. best[1].id \in EvidenceGraph(findings, "retrieval") BY <2>6, <2>7, <2>9
  <2> QED BY <2>1, <2>8, <2>10
<1>8. CASE ByRunbook(G, d, e, i)
  <2>1. G[i].source = "runbook" /\ G[i].from = "none" BY <1>8 DEF ByRunbook, Recommend
  <2>2. EvidenceInOrder(findings, "runbook") = <<>> BY DEF EvidenceInOrder
  <2>3. ~(count("runbook") <= 0)
    <3>1. IsFiniteSet({j \in 1..i : G[j].source = "runbook"})
      <4>1. IsFiniteSet(1..i) BY FS_Interval
      <4> QED BY <4>1, FS_Subset
    <3>2. {j \in 1..i : G[j].source = "runbook"} # {} BY <1>1, <2>1
    <3>3. count("runbook") \in Nat /\ count("runbook") # 0 BY <3>1, <3>2, FS_CardinalityType, FS_EmptySet
    <3> QED BY <3>3
  <2>4. Len(<<>>) = 0 OBVIOUS
  <2>5. EvidenceAt(findings, G, i) = "none" BY <2>1, <2>2, <2>3, <2>4 DEF EvidenceAt
  <2> QED BY <2>1, <2>5
<1> QED BY <1>4, <1>5, <1>6, <1>7, <1>8 DEF Gathers

(* Every adviser but the season and the runbook found something.           *)
LEMMA AdvisersSpoke ==
  ASSUME NEW n \in Nat, NEW findings, DOMAIN findings = 1..n, \A i \in 1..n : FoundInput(findings[i]),
         NEW G, NEW a, NEW b, NEW c, NEW d, NEW e, Gathers(G, findings, a, b, c, d, e), NEW i \in 1..e
  PROVE  G[i].source \in SourcesWithSignal(findings) \cup {"adaptive", "runbook"}
<1>1. DOMAIN FindingOf = {"policy", "memory", "cross_dataset", "adaptive", "retrieval"} BY DEF FindingOf
<1>2. CASE ByPolicy(G, findings, a, i)
  <2>1. G[i].source = "policy" /\ Matches(findings) # <<>> BY <1>2 DEF ByPolicy, Recommend
  <2>2. DataOf(findings, "policy") # <<>> BY <2>1 DEF Matches, Items
  <2>3. "policy" \in SourcesConsulted(findings) BY <1>1, <2>2 DEF SourcesConsulted
  <2>4. "policy" \in SourcesWithSignal(findings) BY <2>1, <2>3 DEF SourcesWithSignal
  <2> QED BY <2>1, <2>4
<1>3. CASE ByCorrelation(G, findings, a, b, i)
  <2>1. G[i].source = "cross_dataset" /\ Correlated(findings) # <<>>
    BY <1>3 DEF ByCorrelation, Recommend
  <2>2. DataOf(findings, "cross_dataset") # <<>> BY <2>1 DEF Correlated, Items
  <2>3. "cross_dataset" \in SourcesConsulted(findings) BY <1>1, <2>2 DEF SourcesConsulted
  <2>4. "cross_dataset" \in SourcesWithSignal(findings) BY <2>1, <2>3 DEF SourcesWithSignal
  <2> QED BY <2>1, <2>4
<1>4. CASE BySeason(G, findings, b, c, i) BY <1>4 DEF BySeason, Recommend
<1>5. CASE ByCause(G, findings, c, d, i)
  <2>1. G[i].source = "retrieval" /\ CausesFound(findings) # <<>> BY <1>5 DEF ByCause, Recommend
  <2>2. DataOf(findings, "retrieval") # <<>> BY <2>1 DEF CausesFound, Items
  <2>3. "retrieval" \in SourcesConsulted(findings) BY <1>1, <2>2 DEF SourcesConsulted
  <2>4. "retrieval" \in SourcesWithSignal(findings) BY <2>1, <2>3 DEF SourcesWithSignal
  <2> QED BY <2>1, <2>4
<1>6. CASE ByRunbook(G, d, e, i) BY <1>6 DEF ByRunbook, Recommend
<1> QED BY <1>2, <1>3, <1>4, <1>5, <1>6 DEF Gathers

(* The findings without what contradicts.                                  *)
CalmFinding(f) == IF f.type = "cross_dataset" THEN [f EXCEPT !.data.contradicting = <<>>] ELSE f
CalmFindings(findings) == [i \in DOMAIN findings |-> CalmFinding(findings[i])]

(* Nothing else of them is different.                                      *)
LEMMA CalmFindingIs ==
  ASSUME NEW f, FoundInput(f)
  PROVE  /\ CalmFinding(f).type = f.type
         /\ f.type # "cross_dataset" => CalmFinding(f) = f
         /\ f.type = "cross_dataset" =>
              CalmFinding(f).data = [x \in DOMAIN f.data |-> IF x = "contradicting" THEN <<>> ELSE f.data[x]]
<1>1. CASE f.type # "cross_dataset" BY <1>1 DEF CalmFinding
<1>2. CASE f.type = "cross_dataset"
  <2>1. "type" \in DOMAIN f /\ "data" \in DOMAIN f BY DEF FoundInput
  <2>2. CalmFinding(f) = [f EXCEPT !.data.contradicting = <<>>] BY <1>2 DEF CalmFinding
  <2>3. CalmFinding(f) = [x \in DOMAIN f |-> IF x = "data" THEN [f.data EXCEPT !.contradicting = <<>>] ELSE f[x]]
    BY <2>2
  <2>4. CalmFinding(f).type = f.type BY <2>1, <2>3
  <2>5. CalmFinding(f).data = [f.data EXCEPT !.contradicting = <<>>] BY <2>1, <2>3
  <2>6. [f.data EXCEPT !.contradicting = <<>>]
          = [x \in DOMAIN f.data |-> IF x = "contradicting" THEN <<>> ELSE f.data[x]]
    OBVIOUS
  <2> QED BY <1>2, <2>4, <2>5, <2>6
<1> QED BY <1>1, <1>2

(* What a source found, without what contradicts.                          *)
CalmData(d) ==
  IF d = <<>> THEN <<>> ELSE <<[x \in DOMAIN d[1] |-> IF x = "contradicting" THEN <<>> ELSE d[1][x]]>>

LEMMA CalmDataIs ==
  ASSUME NEW n \in Nat, NEW findings, DOMAIN findings = 1..n, \A i \in 1..n : FoundInput(findings[i]),
         NEW calm, calm = CalmFindings(findings)
  PROVE  /\ \A s \in {"policy", "memory", "adaptive", "retrieval"} :
              DataOf(calm, s) = DataOf(findings, s)
         /\ DataOf(calm, "cross_dataset") = CalmData(DataOf(findings, "cross_dataset"))
<1>1. DOMAIN calm = 1..n /\ \A i \in 1..n : calm[i] = CalmFinding(findings[i]) BY DEF CalmFindings
<1>2. \A i \in 1..n : calm[i].type = findings[i].type BY <1>1, CalmFindingIs
<1>3. ASSUME NEW s
      PROVE  {i \in DOMAIN calm : calm[i].type = FindingOf[s]}
               = {i \in DOMAIN findings : findings[i].type = FindingOf[s]}
  BY <1>1, <1>2
<1>4. ASSUME NEW s, NEW own, own = {i \in DOMAIN findings : findings[i].type = FindingOf[s]}, own # {}
      PROVE  /\ Max(own) \in 1..n /\ findings[Max(own)].type = FindingOf[s]
             /\ DataOf(findings, s) = <<findings[Max(own)].data>>
             /\ DataOf(calm, s) = <<calm[Max(own)].data>>
  <2>1. own \in SUBSET (0..n) BY <1>4
  <2>2. Max(own) \in own BY <1>4, <2>1, MaxIn
  <2>3. own = {i \in DOMAIN calm : calm[i].type = FindingOf[s]} BY <1>3, <1>4
  <2>4. DataOf(findings, s) = <<findings[Max(own)].data>> BY <1>4 DEF DataOf
  <2>5. DataOf(calm, s) = <<calm[Max(own)].data>> BY <1>4, <2>3 DEF DataOf
  <2> QED BY <1>4, <2>2, <2>4, <2>5
<1>5. ASSUME NEW s, {i \in DOMAIN findings : findings[i].type = FindingOf[s]} = {}
      PROVE  DataOf(findings, s) = <<>> /\ DataOf(calm, s) = <<>>
  BY <1>3, <1>5 DEF DataOf
<1>6. ASSUME NEW s \in {"policy", "memory", "adaptive", "retrieval"}
      PROVE  DataOf(calm, s) = DataOf(findings, s)
  <2>1. PICK own : own = {i \in DOMAIN findings : findings[i].type = FindingOf[s]} OBVIOUS
  <2>2. FindingOf[s] # "cross_dataset" BY DEF FindingOf
  <2>3. CASE own = {} BY <1>5, <2>1, <2>3
  <2>4. CASE own # {}
    <3>1. PICK m \in 1..n : m = Max(own) BY <1>4, <2>1, <2>4
    <3>2. /\ findings[m].type = FindingOf[s] /\ DataOf(findings, s) = <<findings[m].data>>
          /\ DataOf(calm, s) = <<calm[m].data>>
      BY <1>4, <2>1, <2>4, <3>1
    <3>3. calm[m] = findings[m] BY <1>1, <2>2, <3>2, CalmFindingIs
    <3> QED BY <3>2, <3>3
  <2> QED BY <2>3, <2>4
<1>7. DataOf(calm, "cross_dataset") = CalmData(DataOf(findings, "cross_dataset"))
  <2>1. PICK own : own = {i \in DOMAIN findings : findings[i].type = FindingOf["cross_dataset"]} OBVIOUS
  <2>2. FindingOf["cross_dataset"] = "cross_dataset" BY DEF FindingOf
  <2>3. CASE own = {}
    <3>1. DataOf(findings, "cross_dataset") = <<>> /\ DataOf(calm, "cross_dataset") = <<>>
      BY <1>5, <2>1, <2>3
    <3> QED BY <3>1 DEF CalmData
  <2>4. CASE own # {}
    <3>1. PICK m \in 1..n : m = Max(own) BY <1>4, <2>1, <2>4
    <3>2. /\ findings[m].type = "cross_dataset" /\ DataOf(findings, "cross_dataset") = <<findings[m].data>>
          /\ DataOf(calm, "cross_dataset") = <<calm[m].data>>
      BY <1>4, <2>1, <2>2, <2>4, <3>1
    <3>3. calm[m].data = [x \in DOMAIN findings[m].data |->
                            IF x = "contradicting" THEN <<>> ELSE findings[m].data[x]]
      BY <1>1, <3>2, CalmFindingIs
    <3>4. PICK d : d = findings[m].data OBVIOUS
    <3>5. DataOf(findings, "cross_dataset") = <<d>> /\ <<d>> # <<>> /\ <<d>>[1] = d BY <3>2, <3>4
    <3>6. CalmData(<<d>>) = <<[x \in DOMAIN d |-> IF x = "contradicting" THEN <<>> ELSE d[x]]>>
      BY DEF CalmData
    <3> QED BY <3>2, <3>3, <3>4, <3>5, <3>6
  <2> QED BY <2>3, <2>4
<1> QED BY <1>6, <1>7

(* What is read of it is the same, but for what contradicts.               *)
LEMMA CalmReads ==
  ASSUME NEW n \in Nat, NEW findings, DOMAIN findings = 1..n, \A i \in 1..n : FoundInput(findings[i]),
         NEW calm, calm = CalmFindings(findings),
         NEW d, d = DataOf(findings, "cross_dataset"), NEW e, e = DataOf(calm, "cross_dataset")
  PROVE  /\ e = <<>> <=> d = <<>>
         /\ d # <<>> => /\ e[1].insufficient = d[1].insufficient /\ e[1].checked = d[1].checked
                        /\ e[1].supporting = d[1].supporting /\ e[1].strong = d[1].strong
                        /\ e[1].contradicting = <<>>
<1>1. e = CalmData(d) BY CalmDataIs
<1>2. CASE d = <<>> BY <1>1, <1>2 DEF CalmData
<1>3. CASE d # <<>>
  <2>1. "cross_dataset" \in DOMAIN FindingOf /\ FindingOf["cross_dataset"] = "cross_dataset"
    BY DEF FindingOf
  <2>2. PICK i \in 1..n : /\ FoundInput(findings[i]) /\ findings[i].type = "cross_dataset"
                          /\ d = <<findings[i].data>>
    BY <1>3, <2>1, DataIs
  <2>3. {"insufficient", "checked", "supporting", "strong", "contradicting"} \subseteq DOMAIN findings[i].data
    BY <2>2 DEF FoundInput
  <2>4. PICK D : D = findings[i].data OBVIOUS
  <2>5. e = <<[x \in DOMAIN D |-> IF x = "contradicting" THEN <<>> ELSE D[x]]>> /\ d[1] = D
    BY <1>1, <1>3, <2>2, <2>4 DEF CalmData
  <2>6. PICK E : E = [x \in DOMAIN D |-> IF x = "contradicting" THEN <<>> ELSE D[x]] OBVIOUS
  <2>7. e = <<E>> BY <2>5, <2>6
  <2>8. e[1] = E /\ e # <<>> BY <2>7
  <2>9. /\ E.insufficient = D.insufficient /\ E.checked = D.checked /\ E.supporting = D.supporting
        /\ E.strong = D.strong /\ E.contradicting = <<>>
    BY <2>3, <2>4, <2>6
  <2> QED BY <1>3, <2>5, <2>8, <2>9
<1> QED BY <1>2, <1>3

(* So the same sources spoke, and said to do the same; but nothing of the  *)
(* other datasets contradicts.                                             *)
LEMMA CalmSame ==
  ASSUME NEW n \in Nat, NEW findings, DOMAIN findings = 1..n, \A i \in 1..n : FoundInput(findings[i]),
         NEW calm, calm = CalmFindings(findings)
  PROVE  /\ Matches(calm) = Matches(findings) /\ Remembered(calm) = Remembered(findings)
         /\ CausesFound(calm) = CausesFound(findings) /\ Correlated(calm) = Correlated(findings)
         /\ Items(calm, "cross_dataset", "supporting") = Items(findings, "cross_dataset", "supporting")
         /\ Items(calm, "retrieval", "chunks") = Items(findings, "retrieval", "chunks")
         /\ Comparable(calm) = Comparable(findings) /\ Seasonal(calm) = Seasonal(findings)
         /\ SourcesConsulted(calm) = SourcesConsulted(findings)
         /\ SourcesWithSignal(calm) = SourcesWithSignal(findings)
         /\ EvidenceConflicts(calm) = EvidenceConflicts(findings) \ {"cross_dataset"}
<1>1. \A s \in {"policy", "memory", "adaptive", "retrieval"} : DataOf(calm, s) = DataOf(findings, s)
  BY CalmDataIs
<1>1a. /\ DataOf(calm, "policy") = DataOf(findings, "policy")
       /\ DataOf(calm, "memory") = DataOf(findings, "memory")
       /\ DataOf(calm, "adaptive") = DataOf(findings, "adaptive")
       /\ DataOf(calm, "retrieval") = DataOf(findings, "retrieval")
  BY <1>1
<1>2. PICK d, e : d = DataOf(findings, "cross_dataset") /\ e = DataOf(calm, "cross_dataset") OBVIOUS
<1>3. /\ e = <<>> <=> d = <<>>
      /\ d # <<>> => /\ e[1].insufficient = d[1].insufficient
                     /\ e[1].supporting = d[1].supporting /\ e[1].strong = d[1].strong
                     /\ e[1].contradicting = <<>>
  BY <1>2, CalmReads
<1>4. /\ Matches(calm) = Matches(findings) /\ Remembered(calm) = Remembered(findings)
      /\ CausesFound(calm) = CausesFound(findings)
      /\ Items(calm, "retrieval", "chunks") = Items(findings, "retrieval", "chunks")
  BY <1>1a DEF Matches, Remembered, CausesFound, Items
<1>5. /\ Correlated(calm) = Correlated(findings)
      /\ Items(calm, "cross_dataset", "supporting") = Items(findings, "cross_dataset", "supporting")
      /\ Items(calm, "cross_dataset", "contradicting") = <<>>
  BY <1>2, <1>3 DEF Correlated, Items
<1>6. Comparable(calm) = Comparable(findings) BY <1>2, <1>3 DEF Comparable
<1>7. Seasonal(calm) = Seasonal(findings) BY <1>1a DEF Seasonal
<1>8. DOMAIN FindingOf = {"policy", "memory", "cross_dataset", "adaptive", "retrieval"} BY DEF FindingOf
<1>9. SourcesConsulted(calm) = SourcesConsulted(findings)
  <2>1. \A s \in DOMAIN FindingOf : DataOf(calm, s) # <<>> <=> DataOf(findings, s) # <<>>
    BY <1>1, <1>2, <1>3, <1>8
  <2> QED BY <2>1 DEF SourcesConsulted
<1>10. SourcesWithSignal(calm) = SourcesWithSignal(findings)
  <2> DEFINE Has(f, s) ==
        CASE s = "policy" -> Matches(f) # <<>>
          [] s = "memory" -> Remembered(f) # <<>>
          [] s = "cross_dataset" -> \/ Items(f, s, "supporting") # <<>>
                                    \/ Correlated(f) # <<>>
          [] s = "adaptive" -> DataOf(f, s)[1].combined
          [] s = "retrieval" -> CausesFound(f) # <<>>
  <2>1. \A f : SourcesWithSignal(f) = {s \in SourcesConsulted(f) : Has(f, s)} BY DEF SourcesWithSignal
  <2>2. ASSUME NEW s \in DOMAIN FindingOf PROVE Has(calm, s) = Has(findings, s)
    <3>1. CASE s = "policy" BY <1>4, <3>1
    <3>2. CASE s = "memory" BY <1>4, <3>2
    <3>3. CASE s = "cross_dataset" BY <1>5, <3>3
    <3>4. CASE s = "adaptive" BY <1>1a, <3>4
    <3>5. CASE s = "retrieval" BY <1>4, <3>5
    <3> QED BY <1>8, <3>1, <3>2, <3>3, <3>4, <3>5
  <2>3. SourcesConsulted(findings) \subseteq DOMAIN FindingOf BY DEF SourcesConsulted
  <2> HIDE DEF Has
  <2>4. {s \in SourcesConsulted(findings) : Has(calm, s)} = {s \in SourcesConsulted(findings) : Has(findings, s)}
    BY <2>2, <2>3
  <2> QED BY <1>9, <2>1, <2>4
<1>11. EvidenceConflicts(calm) = EvidenceConflicts(findings) \ {"cross_dataset"}
  <2> DEFINE Odd(f, b) ==
        LET approvals == {Matches(f)[i].approval : i \in DOMAIN Matches(f)}
            ends == {Remembered(f)[i].status : i \in DOMAIN Remembered(f)}
            causes == ByConfidence(CausesFound(f))
        IN CASE b = "policy" -> Cardinality(approvals) > 1
             [] b = "memory" -> {"RESOLVED", "ESCALATED"} \subseteq ends
             [] b = "cross_dataset" -> /\ Comparable(f)
                                       /\ Items(f, b, "contradicting") # <<>>
             [] b = "retrieval" -> /\ Len(causes) >= 2
                                   /\ causes[1].confidence - causes[2].confidence < CauseGap
  <2>1. \A f : EvidenceConflicts(f) = {b \in {"policy", "memory", "cross_dataset", "retrieval"} : Odd(f, b)}
    BY DEF EvidenceConflicts
  <2>2. Odd(calm, "policy") = Odd(findings, "policy") BY <1>4
  <2>3. Odd(calm, "memory") = Odd(findings, "memory") BY <1>4
  <2>4. ~Odd(calm, "cross_dataset") BY <1>5
  <2>5. Odd(calm, "retrieval") = Odd(findings, "retrieval") BY <1>4
  <2> HIDE DEF Odd
  <2> QED BY <2>1, <2>2, <2>3, <2>4, <2>5
<1> QED BY <1>4, <1>5, <1>6, <1>7, <1>9, <1>10, <1>11

-----------------------------------------------------------------------------
(* The score *)

(* Some hundredths, added up.                                               *)
Hundreds(s) == FoldLeft(LAMBDA a, x : a + x, 0, s)

HundredsSteps(h, s, V) ==
  /\ h \in [0..Len(s) -> V] /\ h[0] = 0
  /\ \A i \in 1..Len(s) : i - 1 \in 0..Len(s) /\ h[i] = h[i - 1] + s[i]

HundredsRuns(s, V) == \E h : HundredsSteps(h, s, V) /\ Hundreds(s) = h[Len(s)]

(* Such a fold goes through one step per entry of the list.                 *)
LEMMA HundredsFold ==
  ASSUME NEW E, NEW s \in Seq(E), NEW V, 0 \in V,
         \A a \in V, x \in E : a + x \in V
  PROVE  HundredsRuns(s, V)
<1> DEFINE base == 0
           g == [p \in V \X E |-> p[1] + p[2]]
           Iter(f) == f = [S \in SUBSET DOMAIN s |->
             IF S = {} THEN base ELSE f[S \ {Max(S)}] + s[Max(S)]]
           it == CHOOSE f : Iter(f)
<1>1. base \in V /\ g \in [V \X E -> V] OBVIOUS
<1>2. \A a \in V, x \in E : g[<<a, x>>] = a + x OBVIOUS
<1>3. Hundreds(s) = it[DOMAIN s] BY DEF Hundreds, FoldLeft, MapThenFoldSet
<1> HIDE DEF g, base
<1>4. PICK f : Folds(f, s, E, V, base, g) BY <1>1, FoldExists
<1>5. \A S \in SUBSET DOMAIN s : S # {} =>
        f[S] = f[S \ {Max(S)}] + s[Max(S)]
  BY <1>2, <1>4 DEF Folds
<1>6. Iter(f) BY <1>4, <1>5 DEF Folds
<1>7. Iter(it) BY <1>6
<1> HIDE DEF it
<1>8. Unfolds(it, s, E, V, base, g) BY <1>2, <1>7 DEF Unfolds
<1>9. PICK h : FoldRun(h, s, E, V, base, g) /\ it[DOMAIN s] = h[Len(s)]
  <2>1. Reaches(it, s, E, V, base, g) BY <1>1, <1>8, FoldRuns
  <2> QED BY <2>1 DEF Reaches
<1>10. HundredsSteps(h, s, V) BY <1>2, <1>9 DEF FoldRun, HundredsSteps, base
<1> QED BY <1>3, <1>9, <1>10 DEF HundredsRuns

(* Some scores, rounded and added up.                                       *)
ScoreSum(s) == FoldLeft(LAMBDA a, x : a + Rounded(x), 0, s)

ScoreSumSteps(h, s, V) ==
  /\ h \in [0..Len(s) -> V] /\ h[0] = 0
  /\ \A i \in 1..Len(s) : i - 1 \in 0..Len(s) /\ h[i] = h[i - 1] + Rounded(s[i])

ScoreSumRuns(s, V) == \E h : ScoreSumSteps(h, s, V) /\ ScoreSum(s) = h[Len(s)]

(* Such a fold goes through one step per entry of the list.                 *)
LEMMA ScoreSumFold ==
  ASSUME NEW E, NEW s \in Seq(E), NEW V, 0 \in V,
         \A a \in V, x \in E : a + Rounded(x) \in V
  PROVE  ScoreSumRuns(s, V)
<1> DEFINE base == 0
           g == [p \in V \X E |-> p[1] + Rounded(p[2])]
           Iter(f) == f = [S \in SUBSET DOMAIN s |->
             IF S = {} THEN base ELSE f[S \ {Max(S)}] + Rounded(s[Max(S)])]
           it == CHOOSE f : Iter(f)
<1>1. base \in V /\ g \in [V \X E -> V] OBVIOUS
<1>2. \A a \in V, x \in E : g[<<a, x>>] = a + Rounded(x) OBVIOUS
<1>3. ScoreSum(s) = it[DOMAIN s] BY DEF ScoreSum, FoldLeft, MapThenFoldSet
<1> HIDE DEF g, base
<1>4. PICK f : Folds(f, s, E, V, base, g) BY <1>1, FoldExists
<1>5. \A S \in SUBSET DOMAIN s : S # {} =>
        f[S] = f[S \ {Max(S)}] + Rounded(s[Max(S)])
  BY <1>2, <1>4 DEF Folds
<1>6. Iter(f) BY <1>4, <1>5 DEF Folds
<1>7. Iter(it) BY <1>6
<1> HIDE DEF it
<1>8. Unfolds(it, s, E, V, base, g) BY <1>2, <1>7 DEF Unfolds
<1>9. PICK h : FoldRun(h, s, E, V, base, g) /\ it[DOMAIN s] = h[Len(s)]
  <2>1. Reaches(it, s, E, V, base, g) BY <1>1, <1>8, FoldRuns
  <2> QED BY <2>1 DEF Reaches
<1>10. ScoreSumSteps(h, s, V) BY <1>2, <1>9 DEF FoldRun, ScoreSumSteps, base
<1> QED BY <1>3, <1>9, <1>10 DEF ScoreSumRuns

(* A mean of some hundredths is a fraction.                                *)
LEMMA MeanIs ==
  ASSUME NEW h \in Seq(Int), h # <<>>
  PROVE  Mean(h) \in Fractions
<1>1. PICK n \in Nat \ {0} : n = Len(h) OBVIOUS
<1>2. \A a \in Int, x \in Int : a + x \in Int OBVIOUS
<1>3. HundredsRuns(h, Int) BY <1>2, HundredsFold
<1>4. PICK f : HundredsSteps(f, h, Int) /\ Hundreds(h) = f[Len(h)] BY <1>3 DEF HundredsRuns
<1>5. PICK m \in Int : m = Hundreds(h)
  <2>1. f \in [0..n -> Int] /\ n \in 0..n BY <1>1, <1>4 DEF HundredsSteps
  <2> QED BY <1>1, <1>4, <2>1
<1>6. Mean(h) = <<Hundreds(h), 100 * n>> BY <1>1 DEF Mean, Hundreds
<1>7. 100 * n \in Nat \ {0} OBVIOUS
<1> QED BY <1>5, <1>6, <1>7 DEF Fractions

(* What is computed of fractions is a fraction.                            *)
LEMMA FractionsAre ==
  /\ \A p \in Fractions, q \in Fractions :
       Minus(p, q) \in Fractions /\ Times(p, q) \in Fractions
       /\ Larger(p, q) \in Fractions /\ Smaller(p, q) \in Fractions
  /\ \A x \in Int, y \in Nat \ {0} : <<x, y>> \in Fractions
<1>1. ASSUME NEW p \in Fractions, NEW q \in Fractions
      PROVE  Minus(p, q) \in Fractions /\ Times(p, q) \in Fractions
  <2>1. p[1] \in Int /\ p[2] \in Nat \ {0} /\ q[1] \in Int /\ q[2] \in Nat \ {0} BY DEF Fractions
  <2>2. PICK a \in Int, b \in Nat \ {0}, c \in Int, d \in Nat \ {0} :
          a = p[1] /\ b = p[2] /\ c = q[1] /\ d = q[2]
    BY <2>1
  <2>3. a * d - c * b \in Int /\ b * d \in Nat \ {0} /\ a * c \in Int OBVIOUS
  <2> QED BY <2>2, <2>3 DEF Minus, Times, Fractions
<1>2. \A p \in Fractions, q \in Fractions : Larger(p, q) \in Fractions /\ Smaller(p, q) \in Fractions
  BY DEF Larger, Smaller
<1>3. \A x \in Int, y \in Nat \ {0} : <<x, y>> \in Fractions BY DEF Fractions
<1> QED BY <1>1, <1>2, <1>3

(* The parts of the score.                                                 *)
SourcesRated(plan) == IF plan.made THEN <<<<Cardinality(plan.signal), 5>>>> ELSE <<>>
RagRated(d) == IF d = <<>> THEN <<>> ELSE <<RetrievalQuality(d[1])>>
MemoryRated(d, conflicts) == IF d = <<>> THEN <<>> ELSE <<MemoryQuality(d[1].matches, conflicts)>>
PolicyRated(d) == IF d = <<>> THEN <<>> ELSE <<Smaller(<<1, 1>>, <<Len(d[1].matches), 2>>)>>
CrossRated(d) == IF d = <<>> THEN <<>> ELSE <<CrossDatasetCoverage(d[1])>>
OneOf(b) == IF b THEN 1 ELSE 0
AdaptiveRated(d) ==
  IF d = <<>> THEN <<>> ELSE <<<<OneOf(~d[1].baseline_short) + OneOf(~d[1].season_short), 2>>>>
DiversityRated(findings, plan) == IF plan.made THEN <<EvidenceDiversity(findings, plan)>> ELSE <<>>
ActionsRated(plan) ==
  IF plan.actions = <<>> THEN <<<<0, 1>>>>
  ELSE <<<<Cardinality({i \in DOMAIN plan.actions : plan.actions[i].source # "runbook"}),
           Len(plan.actions)>>>>
DoneRated(plan, explained, rootCause, confidence) ==
  IF plan.made
  THEN <<<<Cardinality(plan.consulted)
           + 5 * (OneOf(rootCause) + OneOf(confidence # <<>>) + 1 + OneOf(explained)), 25>>>>
  ELSE <<>>

LEMMA ComponentsAre ==
  ASSUME NEW findings, NEW plan, NEW explained, NEW rootCause, NEW confidence
  PROVE  QualityComponents(findings, plan, explained, rootCause, confidence) =
           <<SourcesRated(plan), RagRated(DataOf(findings, "retrieval")),
             MemoryRated(DataOf(findings, "memory"), plan.conflicts),
             PolicyRated(DataOf(findings, "policy")), CrossRated(DataOf(findings, "cross_dataset")),
             AdaptiveRated(DataOf(findings, "adaptive")), DiversityRated(findings, plan),
             ActionsRated(plan), DoneRated(plan, explained, rootCause, confidence)>>
BY DEF QualityComponents, SourcesRated, RagRated, MemoryRated, PolicyRated, CrossRated, OneOf,
       AdaptiveRated, DiversityRated, ActionsRated, DoneRated, Share

(* A plan, part by part.                                                   *)
Sureness(confidence, signal, conflicts) ==
  LET base == IF confidence = <<>> THEN 0 ELSE confidence[1]
  IN CASE signal = {} -> 0
       [] signal # {} /\ conflicts # {} -> Min({base, ConfidenceCap})
       [] OTHER -> base

LEMMA PlanIs ==
  ASSUME NEW findings, NEW confidence, NEW requires, NEW runbook, NEW plan,
         plan = Plan(findings, confidence, requires, runbook)
  PROVE  /\ plan.made /\ plan.actions = RecommendedActions(findings, runbook)
         /\ plan.signal = SourcesWithSignal(findings)
         /\ plan.consulted = SourcesConsulted(findings)
         /\ plan.conflicts = EvidenceConflicts(findings)
         /\ plan.confidence = Sureness(confidence, SourcesWithSignal(findings), EvidenceConflicts(findings))
BY DEF Plan, Sureness

(* What contradicts never makes a plan surer.                              *)
LEMMA LessConflictSurer ==
  ASSUME NEW confidence \in Seq(Int), NEW signal, NEW conflicts, NEW fewer, fewer \subseteq conflicts
  PROVE  Sureness(confidence, signal, conflicts) <= Sureness(confidence, signal, fewer)
<1>1. PICK base \in Int : base = IF confidence = <<>> THEN 0 ELSE confidence[1]
  <2>1. CASE confidence = <<>> BY <2>1
  <2>2. CASE confidence # <<>>
    <3>1. confidence[1] \in Int BY <2>2
    <3> QED BY <2>2, <3>1
  <2> QED BY <2>1, <2>2
<1>2. PICK cap \in Int : cap = ConfidenceCap BY PlanLimits
<1>3. Min({base, cap}) = IF base <= cap THEN base ELSE cap BY OfTwo
<1>4. PICK low \in Int : low = Min({base, ConfidenceCap}) /\ low <= base
  <2>1. base <= cap \/ cap <= base OBVIOUS
  <2> QED BY <1>2, <1>3, <2>1
<1>5. \A c : Sureness(confidence, signal, c) =
               IF signal = {} THEN 0 ELSE IF c # {} THEN low ELSE base
  BY <1>1, <1>4 DEF Sureness
<1>6. CASE signal = {} BY <1>5, <1>6
<1>7. CASE signal # {} /\ conflicts = {}
  <2>1. fewer = {} BY <1>7
  <2> QED BY <1>5, <1>7, <2>1
<1>8. CASE signal # {} /\ conflicts # {}
  <2>1. Sureness(confidence, signal, conflicts) = low BY <1>5, <1>8
  <2>2. Sureness(confidence, signal, fewer) \in {low, base} BY <1>5, <1>8
  <2>3. low <= low /\ low <= base BY <1>4
  <2> QED BY <2>1, <2>2, <2>3
<1> QED BY <1>6, <1>7, <1>8

(* The plan without what contradicts is as sure, or surer.                 *)
CalmPlanOf(plan, quiet) ==
  /\ plan.made /\ quiet.made
  /\ quiet.actions = plan.actions /\ quiet.signal = plan.signal /\ quiet.consulted = plan.consulted
  /\ quiet.conflicts = plan.conflicts \ {"cross_dataset"}

LEMMA CalmPlanIs ==
  ASSUME NEW n \in Nat, NEW findings, DOMAIN findings = 1..n, \A i \in 1..n : FoundInput(findings[i]),
         NEW calm, calm = CalmFindings(findings),
         NEW confidence \in Seq(Int), NEW requires, NEW runbook,
         NEW plan, plan = Plan(findings, confidence, requires, runbook),
         NEW quiet, quiet = Plan(calm, confidence, requires, runbook)
  PROVE  CalmPlanOf(plan, quiet) /\ plan.confidence <= quiet.confidence
<1>1. GatheredActions(calm, runbook) = GatheredActions(findings, runbook)
  <2>1. /\ Matches(calm) = Matches(findings) /\ CausesFound(calm) = CausesFound(findings)
        /\ Correlated(calm) = Correlated(findings) /\ Comparable(calm) = Comparable(findings)
        /\ Seasonal(calm) = Seasonal(findings)
    BY CalmSame
  <2> QED BY <2>1 DEF GatheredActions
<1>2. RecommendedActions(calm, runbook) = RecommendedActions(findings, runbook)
  BY <1>1 DEF RecommendedActions
<1>3. /\ SourcesConsulted(calm) = SourcesConsulted(findings)
      /\ SourcesWithSignal(calm) = SourcesWithSignal(findings)
      /\ EvidenceConflicts(calm) = EvidenceConflicts(findings) \ {"cross_dataset"}
  BY CalmSame
<1>4. CalmPlanOf(plan, quiet) BY <1>2, <1>3, PlanIs DEF CalmPlanOf
<1>5. EvidenceConflicts(calm) \subseteq EvidenceConflicts(findings) BY <1>3
<1>6. plan.confidence <= quiet.confidence BY <1>3, <1>5, PlanIs, LessConflictSurer
<1> QED BY <1>4, <1>6

(* The quality of what was retrieved, and of what was remembered.          *)
LEMMA RetrievalRated ==
  ASSUME NEW D, IsList(D.causes), \A i \in DOMAIN D.causes : D.causes[i].confidence \in Int
  PROVE  RetrievalQuality(D) \in Fractions
<1>1. PICK causes : causes = D.causes OBVIOUS
<1>2. PICK m \in Nat : DOMAIN causes = 1..m /\ causes = [i \in 1..m |-> causes[i]]
  BY <1>1 DEF IsList
<1>3. PICK valid \in Int : valid = IF D.validated THEN 100 ELSE 0 OBVIOUS
<1>4. CASE D.retrieved = 0 BY <1>4, FractionsAre DEF RetrievalQuality
<1>5. CASE D.retrieved # 0 /\ causes = <<>>
  <2>1. PICK h : h = <<100, valid>> \o <<>> OBVIOUS
  <2>2. h \in Seq(Int) /\ h # <<>> BY <2>1
  <2>3. RetrievalQuality(D) = Mean(h) BY <1>1, <1>3, <1>5, <2>1 DEF RetrievalQuality
  <2> QED BY <2>2, <2>3, MeanIs
<1>6. CASE D.retrieved # 0 /\ causes # <<>>
  <2>0. m # 0 /\ 1 \in 1..m BY <1>2, <1>6
  <2>1. PICK first \in Int : first = ByConfidence(causes)[1].confidence
    <3>1. \A i \in 1..m : causes[i].confidence \in Int BY <1>1, <1>2
    <3>2. \A r \in 1..m : \E i \in 1..m : ByConfidence(causes)[r] = causes[i]
      BY <1>2, <3>1, CausesInOrder
    <3>3. \E i \in 1..m : ByConfidence(causes)[1] = causes[i] BY <2>0, <3>2
    <3> QED BY <3>1, <3>3
  <2>2. PICK h : h = <<100, valid>> \o <<first>> OBVIOUS
  <2>3. h \in Seq(Int) /\ h # <<>> BY <2>2
  <2>4. RetrievalQuality(D) = Mean(h) BY <1>1, <1>3, <1>6, <2>1, <2>2 DEF RetrievalQuality
  <2> QED BY <2>3, <2>4, MeanIs
<1> QED BY <1>4, <1>5, <1>6

LEMMA MemoryIsRated ==
  ASSUME NEW matches, IsList(matches), \A i \in DOMAIN matches : matches[i].similarity \in Int, NEW conflicts
  PROVE  MemoryQuality(matches, conflicts) \in Fractions
<1>1. PICK m \in Nat : DOMAIN matches = 1..m /\ matches = [i \in 1..m |-> matches[i]] BY DEF IsList
<1>2. CASE matches = <<>> BY <1>2, FractionsAre DEF MemoryQuality
<1>3. CASE matches # <<>>
  <2>1. PICK h : h = [i \in DOMAIN matches |-> matches[i].similarity] OBVIOUS
  <2>2. h \in Seq(Int) /\ h # <<>>
    <3>1. h = [i \in 1..m |-> matches[i].similarity] /\ \A i \in 1..m : matches[i].similarity \in Int
      BY <1>1, <2>1
    <3>2. h \in [1..m -> Int] BY <3>1
    <3>3. m # 0 BY <1>1, <1>3
    <3>4. h \in Seq(Int) /\ Len(h) = m BY <3>2
    <3> QED BY <3>3, <3>4
  <2>3. PICK base \in Fractions : base = Mean(h) BY <2>2, MeanIs
  <2>4. <<0, 1>> \in Fractions /\ <<15, 100>> \in Fractions BY FractionsAre
  <2>5. Larger(<<0, 1>>, Minus(base, <<15, 100>>)) \in Fractions BY <2>4, FractionsAre
  <2>6. MemoryQuality(matches, conflicts) =
          IF "memory" \in conflicts THEN Larger(<<0, 1>>, Minus(base, <<15, 100>>)) ELSE base
    BY <1>3, <2>1, <2>3 DEF MemoryQuality
  <2> QED BY <2>5, <2>6
<1> QED BY <1>2, <1>3

LEMMA CrossIsRated ==
  ASSUME NEW D, D.checked \in Nat, IsList(D.supporting), IsList(D.strong)
  PROVE  CrossDatasetCoverage(D) \in Fractions
<1>1. PICK a \in Nat, b \in Nat : a = Len(D.supporting) /\ b = Len(D.strong) BY DEF IsList
<1>2. CASE D.insufficient \/ D.checked = 0 BY <1>2, FractionsAre DEF CrossDatasetCoverage
<1>3. CASE ~(D.insufficient \/ D.checked = 0)
  <2>1. PICK c \in Nat \ {0} : c = D.checked BY <1>3
  <2>2. a + b \in Int OBVIOUS
  <2>3. <<a + b, c>> \in Fractions /\ <<1, 1>> \in Fractions BY <2>2, FractionsAre
  <2>4. Smaller(<<1, 1>>, <<a + b, c>>) \in Fractions BY <2>3, FractionsAre
  <2>5. CrossDatasetCoverage(D) = Smaller(<<1, 1>>, <<a + b, c>>) BY <1>1, <1>3, <2>1 DEF CrossDatasetCoverage
  <2> QED BY <2>4, <2>5
<1> QED BY <1>2, <1>3

LEMMA DiversityIsRated ==
  ASSUME NEW findings, NEW plan, Cardinality(plan.signal) \in Nat,
         IsList(Items(findings, "retrieval", "chunks"))
  PROVE  EvidenceDiversity(findings, plan) \in Fractions
<1>1. PICK chunks : chunks = Items(findings, "retrieval", "chunks") OBVIOUS
<1>2. PICK m \in Nat : /\ DOMAIN chunks = 1..m /\ chunks = [i \in 1..m |-> chunks[i]]
                       /\ Len(chunks) = m
  BY <1>1 DEF IsList
<1>3. PICK sources \in Fractions : sources = <<Cardinality(plan.signal), 5>>
  <2>1. PICK c \in Nat : c = Cardinality(plan.signal) OBVIOUS
  <2>2. <<c, 5>> \in Fractions BY FractionsAre
  <2> QED BY <2>1, <2>2
<1>4. CASE chunks = <<>> BY <1>1, <1>3, <1>4 DEF EvidenceDiversity
<1>5. CASE chunks # <<>>
  <2>1. m # 0 BY <1>2, <1>5
  <2>2. PICK k \in Nat : k = Cardinality({chunks[i].source : i \in DOMAIN chunks})
    <3>1. IsFiniteSet({chunks[i].source : i \in 1..m})
      <4>1. PICK g : g = [i \in 1..m |-> chunks[i].source] OBVIOUS
      <4>2. PICK T : T = {g[i] : i \in 1..m} OBVIOUS
      <4>3. T = {chunks[i].source : i \in 1..m} BY <4>1, <4>2
      <4> QED BY <4>2, <4>3, Images
    <3> QED BY <1>2, <3>1, FS_CardinalityType
  <2>3. PICK documents \in Fractions : documents = <<k, m>>
    <3>1. <<k, m>> \in Fractions BY <2>1, FractionsAre
    <3> QED BY <3>1
  <2>4. <<1, 2>> \in Fractions BY FractionsAre
  <2>5. Times(Plus(sources, documents), <<1, 2>>) \in Fractions BY <2>4, PlusIs, FractionsAre
  <2>6. EvidenceDiversity(findings, plan) = Times(Plus(sources, documents), <<1, 2>>)
    BY <1>1, <1>2, <1>3, <1>5, <2>2, <2>3 DEF EvidenceDiversity
  <2> QED BY <2>5, <2>6
<1> QED BY <1>4, <1>5

(* Every part of the score that can be computed is a fraction.             *)
LEMMA ScoredParts ==
  ASSUME NEW n \in Nat, NEW findings, DOMAIN findings = 1..n, \A i \in 1..n : FoundInput(findings[i])
  PROVE  /\ RagRated(DataOf(findings, "retrieval")) \in Seq(Fractions)
         /\ \A conflicts : MemoryRated(DataOf(findings, "memory"), conflicts) \in Seq(Fractions)
         /\ PolicyRated(DataOf(findings, "policy")) \in Seq(Fractions)
         /\ CrossRated(DataOf(findings, "cross_dataset")) \in Seq(Fractions)
         /\ AdaptiveRated(DataOf(findings, "adaptive")) \in Seq(Fractions)
<1>1. /\ DOMAIN FindingOf = {"policy", "memory", "cross_dataset", "adaptive", "retrieval"}
      /\ FindingOf["policy"] = "policy" /\ FindingOf["memory"] = "memory"
      /\ FindingOf["cross_dataset"] = "cross_dataset" /\ FindingOf["retrieval"] = "rag"
  BY DEF FindingOf
<1>0. <<>> \in Seq(Fractions) /\ \A x \in Fractions : <<x>> \in Seq(Fractions) OBVIOUS
<1>2. RagRated(DataOf(findings, "retrieval")) \in Seq(Fractions)
  <2>1. PICK d : d = DataOf(findings, "retrieval") OBVIOUS
  <2>2. CASE d = <<>> BY <1>0, <2>1, <2>2 DEF RagRated
  <2>3. CASE d # <<>>
    <3>1. PICK i \in 1..n : FoundInput(findings[i]) /\ findings[i].type = "rag" /\ d = <<findings[i].data>>
      BY <1>1, <2>1, <2>3, DataIs
    <3>2. PICK D : D = findings[i].data OBVIOUS
    <3>3. IsList(D.causes) /\ \A k \in DOMAIN D.causes : D.causes[k].confidence \in Int
      BY <3>1, <3>2 DEF FoundInput
    <3>4. RetrievalQuality(D) \in Fractions BY <3>3, RetrievalRated
    <3>5. RagRated(d) = <<RetrievalQuality(D)>> BY <2>3, <3>1, <3>2 DEF RagRated
    <3> QED BY <1>0, <2>1, <3>4, <3>5
  <2> QED BY <2>2, <2>3
<1>3. ASSUME NEW conflicts PROVE MemoryRated(DataOf(findings, "memory"), conflicts) \in Seq(Fractions)
  <2>1. PICK d : d = DataOf(findings, "memory") OBVIOUS
  <2>2. CASE d = <<>> BY <1>0, <2>1, <2>2 DEF MemoryRated
  <2>3. CASE d # <<>>
    <3>1. PICK i \in 1..n : FoundInput(findings[i]) /\ findings[i].type = "memory" /\ d = <<findings[i].data>>
      BY <1>1, <2>1, <2>3, DataIs
    <3>2. PICK ms : ms = findings[i].data.matches OBVIOUS
    <3>3. IsList(ms) /\ \A k \in DOMAIN ms : ms[k].similarity \in Int
      BY <3>1, <3>2 DEF FoundInput
    <3>4. MemoryQuality(ms, conflicts) \in Fractions BY <3>3, MemoryIsRated
    <3>5. MemoryRated(d, conflicts) = <<MemoryQuality(ms, conflicts)>>
      BY <2>3, <3>1, <3>2 DEF MemoryRated
    <3> QED BY <1>0, <2>1, <3>4, <3>5
  <2> QED BY <2>2, <2>3
<1>4. PolicyRated(DataOf(findings, "policy")) \in Seq(Fractions)
  <2>1. PICK d : d = DataOf(findings, "policy") OBVIOUS
  <2>2. CASE d = <<>> BY <1>0, <2>1, <2>2 DEF PolicyRated
  <2>3. CASE d # <<>>
    <3>1. PICK i \in 1..n : FoundInput(findings[i]) /\ findings[i].type = "policy" /\ d = <<findings[i].data>>
      BY <1>1, <2>1, <2>3, DataIs
    <3>2. IsList(findings[i].data.matches) BY <3>1 DEF FoundInput
    <3>3. PICK k \in Nat : k = Len(findings[i].data.matches) BY <3>2 DEF IsList
    <3>4. <<k, 2>> \in Fractions /\ <<1, 1>> \in Fractions BY FractionsAre
    <3>5. Smaller(<<1, 1>>, <<k, 2>>) \in Fractions BY <3>4, FractionsAre
    <3>6. PolicyRated(d) = <<Smaller(<<1, 1>>, <<k, 2>>)>> BY <2>3, <3>1, <3>3 DEF PolicyRated
    <3> QED BY <1>0, <2>1, <3>5, <3>6
  <2> QED BY <2>2, <2>3
<1>5. CrossRated(DataOf(findings, "cross_dataset")) \in Seq(Fractions)
  <2>1. PICK d : d = DataOf(findings, "cross_dataset") OBVIOUS
  <2>2. CASE d = <<>> BY <1>0, <2>1, <2>2 DEF CrossRated
  <2>3. CASE d # <<>>
    <3>1. PICK i \in 1..n : /\ FoundInput(findings[i]) /\ findings[i].type = "cross_dataset"
                            /\ d = <<findings[i].data>>
      BY <1>1, <2>1, <2>3, DataIs
    <3>2. PICK D : D = findings[i].data OBVIOUS
    <3>3. D.checked \in Nat /\ IsList(D.supporting) /\ IsList(D.strong) BY <3>1, <3>2 DEF FoundInput
    <3>4. CrossDatasetCoverage(D) \in Fractions BY <3>3, CrossIsRated
    <3>5. CrossRated(d) = <<CrossDatasetCoverage(D)>> BY <2>3, <3>1, <3>2 DEF CrossRated
    <3> QED BY <1>0, <2>1, <3>4, <3>5
  <2> QED BY <2>2, <2>3
<1>6. AdaptiveRated(DataOf(findings, "adaptive")) \in Seq(Fractions)
  <2>1. PICK d : d = DataOf(findings, "adaptive") OBVIOUS
  <2>2. CASE d = <<>> BY <1>0, <2>1, <2>2 DEF AdaptiveRated
  <2>3. CASE d # <<>>
    <3>1. \A b : OneOf(b) \in Int BY DEF OneOf
    <3>2. PICK k \in Int : k = OneOf(~d[1].baseline_short) + OneOf(~d[1].season_short) BY <3>1
    <3>3. <<k, 2>> \in Fractions BY FractionsAre
    <3>4. AdaptiveRated(d) = <<<<k, 2>>>> BY <2>3, <3>2 DEF AdaptiveRated
    <3> QED BY <1>0, <2>1, <3>3, <3>4
  <2> QED BY <2>2, <2>3
<1> QED BY <1>2, <1>3, <1>4, <1>5, <1>6

(* So is what the plan says of sources, actions and stages.                *)
LEMMA PlannedParts ==
  ASSUME NEW findings, IsList(Items(findings, "retrieval", "chunks")),
         NEW plan, plan.made, Cardinality(plan.signal) \in Nat, Cardinality(plan.consulted) \in Nat,
         NEW e \in Nat, plan.actions = [i \in 1..e |-> plan.actions[i]], Len(plan.actions) = e,
         NEW explained, NEW rootCause, NEW confidence
  PROVE  /\ SourcesRated(plan) \in Seq(Fractions)
         /\ DiversityRated(findings, plan) \in Seq(Fractions)
         /\ ActionsRated(plan) \in Seq(Fractions)
         /\ DoneRated(plan, explained, rootCause, confidence) \in Seq(Fractions) \ {<<>>}
<1>0. \A x \in Fractions : <<x>> \in Seq(Fractions) OBVIOUS
<1>1. PICK k \in Nat, m \in Nat : k = Cardinality(plan.signal) /\ m = Cardinality(plan.consulted) OBVIOUS
<1>2. SourcesRated(plan) \in Seq(Fractions)
  <2>1. <<k, 5>> \in Fractions BY FractionsAre
  <2>2. SourcesRated(plan) = <<<<k, 5>>>> BY <1>1 DEF SourcesRated
  <2> QED BY <1>0, <2>1, <2>2
<1>3. DiversityRated(findings, plan) \in Seq(Fractions)
  <2>1. EvidenceDiversity(findings, plan) \in Fractions BY DiversityIsRated
  <2>2. DiversityRated(findings, plan) = <<EvidenceDiversity(findings, plan)>> BY DEF DiversityRated
  <2> QED BY <1>0, <2>1, <2>2
<1>4. ActionsRated(plan) \in Seq(Fractions)
  <2>1. CASE plan.actions = <<>>
    <3>1. <<0, 1>> \in Fractions BY FractionsAre
    <3>2. ActionsRated(plan) = <<<<0, 1>>>> BY <2>1 DEF ActionsRated
    <3> QED BY <1>0, <3>1, <3>2
  <2>2. CASE plan.actions # <<>>
    <3>1. PICK backed : backed = {i \in DOMAIN plan.actions : plan.actions[i].source # "runbook"} OBVIOUS
    <3>2. Cardinality(backed) \in Nat
      <4>1. IsFiniteSet(1..e) /\ backed \subseteq 1..e BY <3>1, FS_Interval
      <4> QED BY <4>1, FS_Subset, FS_CardinalityType
    <3>3. PICK c \in Nat : c = Cardinality(backed) BY <3>2
    <3>4. CASE e # 0
      <4>1. <<c, e>> \in Fractions BY <3>4, FractionsAre
      <4>2. ActionsRated(plan) = <<<<c, e>>>> BY <2>2, <3>1, <3>3 DEF ActionsRated
      <4> QED BY <1>0, <4>1, <4>2
    <3>5. CASE e = 0
      <4>1. plan.actions = <<>> BY <3>5
      <4> QED BY <2>2, <4>1
    <3> QED BY <3>4, <3>5
  <2> QED BY <2>1, <2>2
<1>5. DoneRated(plan, explained, rootCause, confidence) \in Seq(Fractions) \ {<<>>}
  <2>1. \A b : OneOf(b) \in Int BY DEF OneOf
  <2>2. PICK r \in Int : r = OneOf(rootCause) + OneOf(confidence # <<>>) + 1 + OneOf(explained) BY <2>1
  <2>3. m + 5 * r \in Int OBVIOUS
  <2>4. <<m + 5 * r, 25>> \in Fractions BY <2>3, FractionsAre
  <2>5. DoneRated(plan, explained, rootCause, confidence) = <<<<m + 5 * r, 25>>>>
    BY <1>1, <2>2 DEF DoneRated
  <2> QED BY <1>0, <2>4, <2>5
<1> QED BY <1>2, <1>3, <1>4, <1>5

(* Integer division keeps order.                                           *)
LEMMA Divided ==
  ASSUME NEW x \in Int, NEW y \in Int, x <= y, NEW z \in Nat \ {0}
  PROVE  x \div z \in Int /\ y \div z \in Int /\ x \div z <= y \div z
<1>1. PICK p \in Int, q \in Int : p = x \div z /\ q = y \div z OBVIOUS
<1>3. PICK r \in 0..(z - 1), s \in 0..(z - 1) : x = z * p + r /\ y = z * q + s
  <2>1. PICK a \in Int, b \in Int : a = z * p /\ b = z * q OBVIOUS
  <2>2. a <= x /\ x < a + z /\ b <= y /\ y < b + z BY <1>1, <2>1
  <2>3. PICK r \in 0..(z - 1), s \in 0..(z - 1) : r = x - a /\ s = y - b BY <2>2
  <2>4. x = a + r /\ y = b + s BY <2>3
  <2> QED BY <2>1, <2>4
<1>4. p <= q
  <2> SUFFICES ASSUME q + 1 <= p PROVE FALSE
    OBVIOUS
  <2>1. (q + 1) * z <= p * z BY Scaled
  <2>2. (q + 1) * z = z * q + z /\ p * z = z * p OBVIOUS
  <2>3. PICK a \in Int, b \in Int : a = z * p /\ b = z * q OBVIOUS
  <2>4. x = a + r /\ y = b + s /\ b + z <= a BY <1>3, <2>1, <2>2, <2>3
  <2> QED BY <2>4
<1> QED BY <1>1, <1>4

(* The sum of some rounded fractions.                                      *)
LEMMA RoundedIs ==
  ASSUME NEW p \in Fractions
  PROVE  Rounded(p) \in Int
<1>1. PICK a \in Int, b \in Nat \ {0} : a = p[1] /\ b = p[2] BY DEF Fractions
<1>2. PICK x \in Int, z \in Nat \ {0} : x = 20000 * a + b /\ z = 2 * b OBVIOUS
<1>3. x \div z \in Int BY Divided
<1> QED BY <1>1, <1>2, <1>3 DEF Rounded

LEMMA ScoreSumIs ==
  ASSUME NEW s \in Seq(Fractions)
  PROVE  ScoreSum(s) \in Int
<1>1. \A a \in Int, x \in Fractions : a + Rounded(x) \in Int BY RoundedIs
<1>2. ScoreSumRuns(s, Int) BY <1>1, ScoreSumFold
<1>3. PICK h : ScoreSumSteps(h, s, Int) /\ ScoreSum(s) = h[Len(s)] BY <1>2 DEF ScoreSumRuns
<1>4. PICK n \in Nat : n = Len(s) OBVIOUS
<1>5. h \in [0..n -> Int] /\ n \in 0..n BY <1>3, <1>4 DEF ScoreSumSteps
<1> QED BY <1>3, <1>4, <1>5

(* The score of some parts, when so many disagree.                         *)
ScoreOf(known, disagree) ==
  LET penalty == 500 * Min({disagree, 4})
  IN Max({0, (2 * (ScoreSum(known) - penalty * Len(known)) + Len(known)) \div (2 * Len(known))})

(* Fewer that disagree never make it lower.                                *)
LEMMA FewerScoreMore ==
  ASSUME NEW known \in Seq(Fractions), known # <<>>,
         NEW few \in Nat, NEW many \in Nat, few <= many
  PROVE  ScoreOf(known, many) <= ScoreOf(known, few)
<1>1. PICK l \in Nat \ {0} : l = Len(known) OBVIOUS
<1>2. PICK sum \in Int : sum = ScoreSum(known) BY ScoreSumIs
<1>3. PICK four \in Int : four = 4 OBVIOUS
<1>4. PICK f \in Nat, m \in Nat : f = Min({few, four}) /\ m = Min({many, four}) /\ f <= m
  <2>1. PICK a \in Int, b \in Int : a = few /\ b = many OBVIOUS
  <2>2. Min({a, four}) = IF a <= four THEN a ELSE four BY OfTwo
  <2>3. Min({b, four}) = IF b <= four THEN b ELSE four BY OfTwo
  <2>4. PICK f \in Nat, m \in Nat : f = Min({a, four}) /\ m = Min({b, four}) /\ f <= m
    BY <1>3, <2>1, <2>2, <2>3
  <2> QED BY <2>1, <2>4
<1>5. PICK pf \in Int, pm \in Int : pf = 500 * f /\ pm = 500 * m /\ pf <= pm
  <2>1. 500 * f \in Int /\ 500 * m \in Int /\ 500 * f <= 500 * m BY <1>4
  <2> QED BY <2>1
<1>6. PICK lf \in Int, lm \in Int : lf = pf * l /\ lm = pm * l /\ lf <= lm
  <2>1. pf * l \in Int /\ pm * l \in Int OBVIOUS
  <2>2. pf * l <= pm * l BY <1>5, Scaled
  <2> QED BY <2>1, <2>2
<1>7. PICK xf \in Int, xm \in Int, z \in Nat \ {0} :
        xf = 2 * (sum - lf) + l /\ xm = 2 * (sum - lm) + l /\ z = 2 * l /\ xm <= xf
  <2>1. 2 * (sum - lf) + l \in Int /\ 2 * (sum - lm) + l \in Int /\ 2 * l \in Nat \ {0}
    OBVIOUS
  <2>2. 2 * (sum - lm) + l <= 2 * (sum - lf) + l BY <1>6
  <2> QED BY <2>1, <2>2
<1>8. PICK qf \in Int, qm \in Int : qf = xf \div z /\ qm = xm \div z /\ qm <= qf
  <2>1. xm \div z \in Int /\ xf \div z \in Int /\ xm \div z <= xf \div z BY <1>7, Divided
  <2> QED BY <2>1
<1>9. PICK zero \in Int : zero = 0 OBVIOUS
<1>10. ScoreOf(known, few) = Max({zero, qf})
  <2>1. 500 * Min({few, 4}) = pf BY <1>3, <1>4, <1>5
  <2>2. ScoreOf(known, few) = Max({0, (2 * (sum - pf * l) + l) \div (2 * l)})
    BY ZenonT(60), <1>1, <1>2, <2>1 DEF ScoreOf
  <2>3. (2 * (sum - pf * l) + l) \div (2 * l) = qf BY <1>6, <1>7, <1>8
  <2> QED BY <1>9, <2>2, <2>3
<1>11. ScoreOf(known, many) = Max({zero, qm})
  <2>1. 500 * Min({many, 4}) = pm BY <1>3, <1>4, <1>5
  <2>2. ScoreOf(known, many) = Max({0, (2 * (sum - pm * l) + l) \div (2 * l)})
    BY ZenonT(60), <1>1, <1>2, <2>1 DEF ScoreOf
  <2>3. (2 * (sum - pm * l) + l) \div (2 * l) = qm BY <1>6, <1>7, <1>8
  <2> QED BY <1>9, <2>2, <2>3
<1>12. Max({zero, qf}) = (IF zero >= qf THEN zero ELSE qf) /\ Max({zero, qm}) = (IF zero >= qm THEN zero ELSE qm)
  BY OfTwo
<1>13. PICK sf \in Int, sm \in Int : sf = Max({zero, qf}) /\ sm = Max({zero, qm}) /\ sm <= sf
  BY <1>8, <1>12
<1> QED BY <1>10, <1>11, <1>13

(* Lists of which the last is not empty are not, one after the other.      *)
LEMMA FlattenSome ==
  ASSUME NEW S, NEW n \in Nat \ {0}, NEW ss \in Seq(Seq(S)), Len(ss) = n, ss[n] # <<>>
  PROVE  FlattenSeq(ss) \in Seq(S) /\ FlattenSeq(ss) # <<>>
<1>1. PICK h : Flattens(h, ss, S) BY FlattenIs
<1>2. PICK a \in Seq(S), b \in Seq(S) : a = h[n - 1] /\ b = ss[n] /\ FlattenSeq(ss) = a \o b
  <2>1. /\ h \in [0..n -> Seq(S)] /\ h[n] = FlattenSeq(ss)
        /\ \A i \in 1..n : i - 1 \in 0..n /\ h[i] = h[i - 1] \o ss[i]
    BY <1>1 DEF Flattens
  <2>2. n \in 1..n /\ n - 1 \in 0..n OBVIOUS
  <2>3. h[n - 1] \in Seq(S) /\ ss[n] \in Seq(S) BY <2>1, <2>2
  <2> QED BY <2>1, <2>2, <2>3
<1>3. PICK c \in Nat, d \in Nat : c = Len(a) /\ d = Len(b) /\ d # 0 BY <1>2
<1>4. Len(a \o b) = c + d BY <1>3
<1> QED BY <1>2, <1>3, <1>4

(* Without what contradicts, every part of the score is the same.          *)
LEMMA CalmParts ==
  ASSUME NEW n \in Nat, NEW findings, DOMAIN findings = 1..n, \A i \in 1..n : FoundInput(findings[i]),
         NEW calm, calm = CalmFindings(findings),
         NEW plan, NEW quiet, CalmPlanOf(plan, quiet),
         NEW explained, NEW rootCause, NEW confidence
  PROVE  QualityComponents(calm, quiet, explained, rootCause, confidence)
           = QualityComponents(findings, plan, explained, rootCause, confidence)
<1>1. SourcesRated(quiet) = SourcesRated(plan) BY DEF CalmPlanOf, SourcesRated
<1>2. /\ DataOf(calm, "policy") = DataOf(findings, "policy")
      /\ DataOf(calm, "memory") = DataOf(findings, "memory")
      /\ DataOf(calm, "adaptive") = DataOf(findings, "adaptive")
      /\ DataOf(calm, "retrieval") = DataOf(findings, "retrieval")
  <2>1. \A s \in {"policy", "memory", "adaptive", "retrieval"} : DataOf(calm, s) = DataOf(findings, s)
    BY CalmDataIs
  <2> QED BY <2>1
<1>3. MemoryRated(DataOf(calm, "memory"), quiet.conflicts)
        = MemoryRated(DataOf(findings, "memory"), plan.conflicts)
  <2>1. "memory" \in quiet.conflicts <=> "memory" \in plan.conflicts BY DEF CalmPlanOf
  <2>2. \A matches : MemoryQuality(matches, quiet.conflicts) = MemoryQuality(matches, plan.conflicts)
    BY <2>1 DEF MemoryQuality
  <2> QED BY <1>2, <2>2 DEF MemoryRated
<1>4. CrossRated(DataOf(calm, "cross_dataset")) = CrossRated(DataOf(findings, "cross_dataset"))
  <2>1. PICK d, e : d = DataOf(findings, "cross_dataset") /\ e = DataOf(calm, "cross_dataset") OBVIOUS
  <2>2. /\ e = <<>> <=> d = <<>>
        /\ d # <<>> => /\ e[1].insufficient = d[1].insufficient /\ e[1].checked = d[1].checked
                       /\ e[1].supporting = d[1].supporting /\ e[1].strong = d[1].strong
    BY <2>1, CalmReads
  <2>3. CASE d = <<>> BY <2>1, <2>2, <2>3 DEF CrossRated
  <2>4. CASE d # <<>>
    <3>1. CrossDatasetCoverage(e[1]) = CrossDatasetCoverage(d[1]) BY <2>2, <2>4 DEF CrossDatasetCoverage
    <3> QED BY <2>1, <2>2, <2>4, <3>1 DEF CrossRated
  <2> QED BY <2>3, <2>4
<1>5. DiversityRated(calm, quiet) = DiversityRated(findings, plan)
  <2>1. Items(calm, "retrieval", "chunks") = Items(findings, "retrieval", "chunks") BY CalmSame
  <2>2. EvidenceDiversity(calm, quiet) = EvidenceDiversity(findings, plan)
    BY <2>1 DEF EvidenceDiversity, CalmPlanOf
  <2> QED BY <2>2 DEF DiversityRated, CalmPlanOf
<1>6. ActionsRated(quiet) = ActionsRated(plan) BY DEF ActionsRated, CalmPlanOf
<1>7. DoneRated(quiet, explained, rootCause, confidence) = DoneRated(plan, explained, rootCause, confidence)
  BY DEF DoneRated, CalmPlanOf
<1> QED BY <1>1, <1>2, <1>3, <1>4, <1>5, <1>6, <1>7, ComponentsAre

(* The parts that can be computed, one after the other.                    *)
LEMMA PartsKnown ==
  ASSUME NEW n \in Nat, NEW findings, DOMAIN findings = 1..n, \A i \in 1..n : FoundInput(findings[i]),
         NEW confidence, NEW requires, NEW runbook, IsList(runbook),
         NEW plan, plan = Plan(findings, confidence, requires, runbook),
         NEW explained, NEW rootCause, NEW known,
         known = FlattenSeq(QualityComponents(findings, plan, explained, rootCause, confidence))
  PROVE  known \in Seq(Fractions) /\ known # <<>>
<1>1. IsFiniteSet(plan.signal) /\ IsFiniteSet(plan.consulted)
  <2>1. plan.signal \subseteq plan.consulted /\ plan.consulted \subseteq DOMAIN FindingOf
    <3>1. SourcesConsulted(findings) \subseteq DOMAIN FindingOf BY DEF SourcesConsulted
    <3>2. SourcesWithSignal(findings) \subseteq SourcesConsulted(findings) BY DEF SourcesWithSignal
    <3>3. plan.signal = SourcesWithSignal(findings) /\ plan.consulted = SourcesConsulted(findings) BY PlanIs
    <3> QED BY <3>1, <3>2, <3>3
  <2>2. DOMAIN FindingOf = {"policy", "memory", "cross_dataset", "adaptive", "retrieval"} BY DEF FindingOf
  <2>3. IsFiniteSet(DOMAIN FindingOf)
    <3>1. IsFiniteSet({"policy"}) BY FS_Singleton
    <3>2. IsFiniteSet({"policy"} \cup {"memory"}) BY <3>1, FS_AddElement
    <3>3. IsFiniteSet(({"policy"} \cup {"memory"}) \cup {"cross_dataset"}) BY <3>2, FS_AddElement
    <3>4. IsFiniteSet((({"policy"} \cup {"memory"}) \cup {"cross_dataset"}) \cup {"adaptive"})
      BY <3>3, FS_AddElement
    <3>5. IsFiniteSet(((({"policy"} \cup {"memory"}) \cup {"cross_dataset"}) \cup {"adaptive"})
                        \cup {"retrieval"})
      BY <3>4, FS_AddElement
    <3> QED BY <2>2, <3>5
  <2> QED BY <2>1, <2>3, FS_Subset
<1>2. Cardinality(plan.signal) \in Nat /\ Cardinality(plan.consulted) \in Nat BY <1>1, FS_CardinalityType
<1>3. PICK e \in Nat : plan.actions = [i \in 1..e |-> plan.actions[i]] /\ Len(plan.actions) = e
  <2>1. PICK G : G = GatheredActions(findings, runbook) OBVIOUS
  <2>2. PICK a, b, c, d, e : Gathers(G, findings, a, b, c, d, e) BY <2>1, GatheredIs
  <2>3. e \in Nat /\ Len(G) = e /\ G = [i \in 1..e |-> G[i]] BY <2>2 DEF Gathers
  <2>4. plan.actions = G BY <2>1, <2>2, ActionsAre, PlanIs
  <2> QED BY <2>3, <2>4
<1>4. plan.made BY PlanIs
<1>5. IsList(Items(findings, "retrieval", "chunks")) BY FoundLists
<1>6. PICK c1, c2, c3, c4, c5, c6, c7, c8, c9 :
        /\ c1 = SourcesRated(plan) /\ c2 = RagRated(DataOf(findings, "retrieval"))
        /\ c3 = MemoryRated(DataOf(findings, "memory"), plan.conflicts)
        /\ c4 = PolicyRated(DataOf(findings, "policy"))
        /\ c5 = CrossRated(DataOf(findings, "cross_dataset"))
        /\ c6 = AdaptiveRated(DataOf(findings, "adaptive")) /\ c7 = DiversityRated(findings, plan)
        /\ c8 = ActionsRated(plan) /\ c9 = DoneRated(plan, explained, rootCause, confidence)
  OBVIOUS
<1>7. /\ c2 \in Seq(Fractions) /\ c3 \in Seq(Fractions) /\ c4 \in Seq(Fractions)
      /\ c5 \in Seq(Fractions) /\ c6 \in Seq(Fractions)
  BY <1>6, ScoredParts
<1>8. /\ c1 \in Seq(Fractions) /\ c7 \in Seq(Fractions) /\ c8 \in Seq(Fractions)
      /\ c9 \in Seq(Fractions) /\ c9 # <<>>
  BY <1>2, <1>3, <1>4, <1>5, <1>6, PlannedParts
<1>9. PICK F : F = Seq(Fractions) OBVIOUS
<1>10. PICK cs : cs = <<c1, c2, c3, c4, c5, c6, c7, c8, c9>> OBVIOUS
<1>11. cs \in Seq(F) /\ Len(cs) = 9 /\ cs[9] = c9 BY <1>7, <1>8, <1>9, <1>10
<1>12. QualityComponents(findings, plan, explained, rootCause, confidence) = cs
  BY <1>6, <1>10, ComponentsAre
<1>13. PICK nine \in Nat \ {0} : nine = 9 OBVIOUS
<1>14. cs \in Seq(Seq(Fractions)) /\ Len(cs) = nine /\ cs[nine] # <<>> BY <1>8, <1>9, <1>11, <1>13
<1>15. FlattenSeq(cs) \in Seq(Fractions) /\ FlattenSeq(cs) # <<>> BY <1>14, FlattenSome
<1> QED BY <1>12, <1>15

LEMMA OverallIs ==
  ASSUME NEW findings, NEW plan, NEW explained, NEW rootCause, NEW confidence
  PROVE  OverallScore(findings, plan, explained, rootCause, confidence) =
           ScoreOf(FlattenSeq(QualityComponents(findings, plan, explained, rootCause, confidence)),
                   Cardinality(plan.conflicts))
<1> DEFINE scored(known, sum, disagree) ==
             Max({0, (2 * (sum - 500 * Min({disagree, 4}) * Len(known)) + Len(known)) \div (2 * Len(known))})
           all == FlattenSeq(QualityComponents(findings, plan, explained, rootCause, confidence))
<1>1. OverallScore(findings, plan, explained, rootCause, confidence) =
        scored(all, FoldLeft(LAMBDA n, p : n + Rounded(p), 0, all), Cardinality(plan.conflicts))
  BY DEF OverallScore
<1>2. \A known, disagree : ScoreOf(known, disagree) = scored(known, ScoreSum(known), disagree)
  BY DEF ScoreOf
<1>3. ScoreSum(all) = FoldLeft(LAMBDA n, p : n + Rounded(p), 0, all) BY DEF ScoreSum
<1> HIDE DEF scored, all
<1>4. OverallScore(findings, plan, explained, rootCause, confidence) = ScoreOf(all, Cardinality(plan.conflicts))
  BY <1>1, <1>2, <1>3
<1> QED BY <1>4 DEF all

(* What contradicts never makes the investigation better.                  *)
LEMMA CalmScoresMore ==
  ASSUME NEW n \in Nat, NEW findings, DOMAIN findings = 1..n, \A i \in 1..n : FoundInput(findings[i]),
         NEW calm, calm = CalmFindings(findings),
         NEW confidence \in Seq(Int), NEW requires, NEW runbook, IsList(runbook),
         NEW plan, plan = Plan(findings, confidence, requires, runbook),
         NEW quiet, quiet = Plan(calm, confidence, requires, runbook),
         NEW explained, NEW rootCause
  PROVE  OverallScore(findings, plan, explained, rootCause, confidence)
           <= OverallScore(calm, quiet, explained, rootCause, confidence)
<1>1. CalmPlanOf(plan, quiet) BY CalmPlanIs
<1>2. PICK known : known = FlattenSeq(QualityComponents(findings, plan, explained, rootCause, confidence))
  OBVIOUS
<1>3. known = FlattenSeq(QualityComponents(calm, quiet, explained, rootCause, confidence))
  BY <1>1, <1>2, CalmParts
<1>4. known \in Seq(Fractions) /\ known # <<>> BY <1>2, PartsKnown
<1>5. PICK few \in Nat, many \in Nat :
        many = Cardinality(plan.conflicts) /\ few = Cardinality(quiet.conflicts) /\ few <= many
  <2>1. PICK C : C = plan.conflicts OBVIOUS
  <2>2. PICK D : D = quiet.conflicts OBVIOUS
  <2>3. D \subseteq C BY <1>1, <2>1, <2>2 DEF CalmPlanOf
  <2>4. C \subseteq {"policy", "memory", "cross_dataset", "retrieval"}
    <3>1. EvidenceConflicts(findings) \subseteq {"policy", "memory", "cross_dataset", "retrieval"}
      BY DEF EvidenceConflicts
    <3>2. C = EvidenceConflicts(findings) BY <2>1, PlanIs
    <3> QED BY <3>1, <3>2
  <2>5. IsFiniteSet({"policy", "memory", "cross_dataset", "retrieval"})
    <3>1. IsFiniteSet({"policy"}) BY FS_Singleton
    <3>2. IsFiniteSet({"policy"} \cup {"memory"}) BY <3>1, FS_AddElement
    <3>3. IsFiniteSet(({"policy"} \cup {"memory"}) \cup {"cross_dataset"}) BY <3>2, FS_AddElement
    <3>4. IsFiniteSet((({"policy"} \cup {"memory"}) \cup {"cross_dataset"}) \cup {"retrieval"})
      BY <3>3, FS_AddElement
    <3>5. (({"policy"} \cup {"memory"}) \cup {"cross_dataset"}) \cup {"retrieval"}
            = {"policy", "memory", "cross_dataset", "retrieval"}
      OBVIOUS
    <3> QED BY <3>4, <3>5
  <2>6. IsFiniteSet(C) BY <2>4, <2>5, FS_Subset
  <2>7. Cardinality(D) <= Cardinality(C) /\ IsFiniteSet(D) BY <2>3, <2>6, FS_Subset
  <2>8. Cardinality(D) \in Nat /\ Cardinality(C) \in Nat BY <2>6, <2>7, FS_CardinalityType
  <2> QED BY <2>1, <2>2, <2>7, <2>8
<1>6. OverallScore(findings, plan, explained, rootCause, confidence) = ScoreOf(known, many)
  BY <1>2, <1>5, OverallIs
<1>7. OverallScore(calm, quiet, explained, rootCause, confidence) = ScoreOf(known, few)
  BY <1>3, <1>5, OverallIs
<1> QED BY <1>4, <1>5, <1>6, <1>7, FewerScoreMore

-----------------------------------------------------------------------------
(* The reasons *)

(* What explains a plan is true of it.                                     *)
Explains(c, plan, why, score) ==
  LET Calm(f) == IF f.type = "cross_dataset" THEN [f EXCEPT !.data.contradicting = <<>>] ELSE f
      calm == [i \in DOMAIN c.findings |-> Calm(c.findings[i])]
      calmPlan == Plan(calm, c.confidence, c.requires, c.runbook)
  IN /\ \A i \in DOMAIN plan.actions :
          /\ why.graph[i].evidence = plan.actions[i].from
          /\ plan.actions[i].source # "runbook" =>
               plan.actions[i].from \in EvidenceGraph(c.findings, plan.actions[i].source)
          /\ \A j \in 1..i : PriorityIndex(plan.actions[j].source) <= PriorityIndex(plan.actions[i].source)
     /\ \A s \in why.missing.silent \cup why.missing.unasked :
          why.contribution[s].influenced = {} \/ s = "adaptive"
     /\ plan.made => /\ plan.confidence <= calmPlan.confidence
                     /\ score <= OverallScore(calm, calmPlan, TRUE, FALSE, c.confidence)
     /\ ~plan.approval => why.missing.silent \cup why.missing.unasked # DOMAIN FindingOf

(* What an explanation says of a plan's recommendations and of a source.   *)
LEMMA ExplainIs ==
  ASSUME NEW findings, NEW plan, NEW confidence, NEW why, why = Explain(findings, plan, confidence),
         NEW e \in Nat, DOMAIN plan.actions = 1..e
  PROVE  /\ \A i \in 1..e : why.graph[i].evidence = EvidenceAt(findings, plan.actions, i)
         /\ why.missing.silent = plan.consulted \ plan.signal
         /\ why.missing.unasked = DOMAIN FindingOf \ plan.consulted
         /\ \A s \in DOMAIN FindingOf :
              (\A i \in 1..e : plan.actions[i].source # s) => why.contribution[s].influenced = {}
<1>1. PICK graph : graph = DecisionGraph(findings, plan.actions) OBVIOUS
<1>2. why.graph = graph BY <1>1 DEF Explain
<1>3. why.missing = MissingEvidence(plan) BY DEF Explain
<1>4. why.contribution = [s \in DOMAIN FindingOf |-> Contribution(findings, plan, graph, s)]
  BY <1>1 DEF Explain
<1>5. /\ DOMAIN graph = 1..e
      /\ \A i \in 1..e : /\ graph[i].source = plan.actions[i].source
                         /\ graph[i].evidence = EvidenceAt(findings, plan.actions, i)
  BY <1>1 DEF DecisionGraph, EvidenceAt
<1>6. ASSUME NEW s \in DOMAIN FindingOf, \A i \in 1..e : plan.actions[i].source # s
      PROVE  why.contribution[s].influenced = {}
  <2>1. {j \in DOMAIN graph : graph[j].source = s} = {} BY <1>5, <1>6
  <2>2. why.contribution[s].influenced = {graph[i].order : i \in {j \in DOMAIN graph : graph[j].source = s}}
    BY <1>4 DEF Contribution
  <2> QED BY <2>1, <2>2
<1> QED BY <1>2, <1>3, <1>5, <1>6 DEF MissingEvidence

LEMMA PlanExplained ==
  ASSUME NEW c, ConcludeInput(c),
         NEW plan, plan = Plan(c.findings, c.confidence, c.requires, c.runbook),
         NEW why, why = Explain(c.findings, plan, c.confidence),
         NEW score, score = OverallScore(c.findings, plan, TRUE, FALSE, c.confidence)
  PROVE  Explains(c, plan, why, score)
<1>1. PICK findings, confidence, requires, runbook :
        /\ findings = c.findings /\ confidence = c.confidence
        /\ requires = c.requires /\ runbook = c.runbook
  OBVIOUS
<1>2. IsList(findings) /\ confidence \in Seq(Int) /\ IsList(runbook) BY <1>1 DEF ConcludeInput
<1>3. PICK n \in Nat : DOMAIN findings = 1..n BY <1>2 DEF IsList
<1>4. \A i \in 1..n : FoundInput(findings[i]) BY <1>1, <1>3 DEF ConcludeInput
<1>5. PICK calm : calm = CalmFindings(findings) OBVIOUS
<1>6. PICK quiet : quiet = Plan(calm, confidence, requires, runbook) OBVIOUS
<1>7. plan = Plan(findings, confidence, requires, runbook) BY <1>1
<1>8. plan.confidence <= quiet.confidence BY <1>2, <1>3, <1>4, <1>5, <1>6, <1>7, CalmPlanIs
<1>9. score <= OverallScore(calm, quiet, TRUE, FALSE, confidence)
  <2>1. score = OverallScore(findings, plan, TRUE, FALSE, confidence) BY <1>1
  <2>2. OverallScore(findings, plan, TRUE, FALSE, confidence) <= OverallScore(calm, quiet, TRUE, FALSE, confidence)
    BY <1>2, <1>3, <1>4, <1>5, <1>6, <1>7, CalmScoresMore
  <2> QED BY <2>1, <2>2
<1>10. PICK G : G = GatheredActions(findings, runbook) OBVIOUS
<1>11. PICK ga, gb, gc, gd, e : Gathers(G, findings, ga, gb, gc, gd, e)
  BY <1>2, <1>3, <1>4, <1>10, GatheredIs
<1>12. e \in Nat /\ DOMAIN G = 1..e /\ plan.actions = G
  <2>1. e \in Nat /\ G = [i \in 1..e |-> G[i]] BY <1>11 DEF Gathers
  <2>2. plan.actions = G BY <1>7, <1>10, <1>11, ActionsAre, PlanIs
  <2> QED BY <2>1, <2>2
<1>13. /\ \A i \in 1..e : why.graph[i].evidence = EvidenceAt(findings, G, i)
       /\ why.missing.silent = plan.consulted \ plan.signal
       /\ why.missing.unasked = DOMAIN FindingOf \ plan.consulted
       /\ \A s \in DOMAIN FindingOf :
            (\A i \in 1..e : G[i].source # s) => why.contribution[s].influenced = {}
  BY <1>1, <1>12, ExplainIs
<1>14. /\ plan.signal = SourcesWithSignal(findings) /\ plan.consulted = SourcesConsulted(findings)
       /\ plan.signal \subseteq plan.consulted /\ plan.consulted \subseteq DOMAIN FindingOf
  <2>1. SourcesConsulted(findings) \subseteq DOMAIN FindingOf BY DEF SourcesConsulted
  <2>2. SourcesWithSignal(findings) \subseteq SourcesConsulted(findings) BY DEF SourcesWithSignal
  <2> QED BY <1>7, <2>1, <2>2, PlanIs
<1>15. ASSUME NEW i \in 1..e
       PROVE  /\ why.graph[i].evidence = G[i].from
              /\ G[i].source # "runbook" => G[i].from \in EvidenceGraph(findings, G[i].source)
              /\ \A j \in 1..i : PriorityIndex(G[j].source) <= PriorityIndex(G[i].source)
  <2>1. /\ EvidenceAt(findings, G, i) = G[i].from
        /\ G[i].source # "runbook" => G[i].from \in EvidenceGraph(findings, G[i].source)
    BY <1>3, <1>4, <1>11, TracedBack
  <2>2. ASSUME NEW j \in 1..i PROVE PriorityIndex(G[j].source) <= PriorityIndex(G[i].source)
    <3>1. j \in 1..e /\ (j < i \/ j = i) BY <1>12
    <3>2. /\ PriorityIndex(G[i].source) \in Int
          /\ j < i => PriorityIndex(G[j].source) <= PriorityIndex(G[i].source)
      BY <1>11, <3>1, GatheredInOrder
    <3> QED BY <3>1, <3>2
  <2> QED BY <1>13, <2>1, <2>2
<1>16. ASSUME NEW s \in why.missing.silent \cup why.missing.unasked
       PROVE  why.contribution[s].influenced = {} \/ s = "adaptive"
  <2>1. s \in DOMAIN FindingOf /\ s \notin plan.signal BY <1>13, <1>14
  <2>2. s # "runbook" BY <2>1 DEF FindingOf
  <2>3. \A i \in 1..e : G[i].source \in plan.signal \cup {"adaptive", "runbook"}
    BY <1>3, <1>4, <1>11, <1>14, AdvisersSpoke
  <2> QED BY <1>13, <2>1, <2>2, <2>3
<1>17. ~plan.approval => why.missing.silent \cup why.missing.unasked # DOMAIN FindingOf
  <2>1. SourcesWithSignal(findings) = {} => plan.approval
    <3>1. EvidenceQuality(0) = "insufficient" BY DEF EvidenceQuality
    <3>2. Cardinality({}) = 0 BY FS_EmptySet
    <3> QED BY <1>7, <3>1, <3>2 DEF Plan
  <2> QED BY <1>13, <1>14, <2>1
<1>18. calm = [i \in DOMAIN c.findings |->
                 IF c.findings[i].type = "cross_dataset"
                 THEN [c.findings[i] EXCEPT !.data.contradicting = <<>>] ELSE c.findings[i]]
  BY <1>1, <1>5 DEF CalmFindings, CalmFinding
<1>19. /\ \A i \in DOMAIN plan.actions :
            /\ why.graph[i].evidence = plan.actions[i].from
            /\ plan.actions[i].source # "runbook" =>
                 plan.actions[i].from \in EvidenceGraph(c.findings, plan.actions[i].source)
            /\ \A j \in 1..i : PriorityIndex(plan.actions[j].source) <= PriorityIndex(plan.actions[i].source)
       /\ plan.confidence <= Plan(calm, c.confidence, c.requires, c.runbook).confidence
       /\ score <= OverallScore(calm, Plan(calm, c.confidence, c.requires, c.runbook), TRUE, FALSE, c.confidence)
  BY <1>1, <1>6, <1>8, <1>9, <1>12, <1>15
<1> QED BY <1>16, <1>17, <1>18, <1>19 DEF Explains

(* So is what explains a plan that failed.                                 *)
LEMMA FailureExplained ==
  ASSUME NEW c, NEW why, why = Explain(c.findings, FailedPlan, c.confidence), NEW score
  PROVE  Explains(c, FailedPlan, why, score)
<1>1. FailedPlan.actions = <<>> /\ ~FailedPlan.made /\ FailedPlan.approval BY DEF FailedPlan
<1>2. PICK e \in Nat : e = 0 /\ DOMAIN FailedPlan.actions = 1..e
  <2>1. DOMAIN FailedPlan.actions = 1..0 BY <1>1
  <2> QED BY <2>1
<1>3. /\ why.missing.silent = FailedPlan.consulted \ FailedPlan.signal
      /\ why.missing.unasked = DOMAIN FindingOf \ FailedPlan.consulted
      /\ \A s \in DOMAIN FindingOf :
           (\A i \in 1..e : FailedPlan.actions[i].source # s) => why.contribution[s].influenced = {}
  <2>1. PICK plan : plan = FailedPlan OBVIOUS
  <2>2. PICK findings, confidence : findings = c.findings /\ confidence = c.confidence OBVIOUS
  <2>3. why = Explain(findings, plan, confidence) /\ DOMAIN plan.actions = 1..e BY <1>2, <2>1, <2>2
  <2>4. /\ why.missing.silent = plan.consulted \ plan.signal
        /\ why.missing.unasked = DOMAIN FindingOf \ plan.consulted
        /\ \A s \in DOMAIN FindingOf :
             (\A i \in 1..e : plan.actions[i].source # s) => why.contribution[s].influenced = {}
    BY <2>3, ExplainIs
  <2> QED BY <2>1, <2>4
<1>4. FailedPlan.consulted = {} BY DEF FailedPlan
<1>5. \A s \in why.missing.silent \cup why.missing.unasked : why.contribution[s].influenced = {}
  BY <1>2, <1>3, <1>4
<1>6. DOMAIN FailedPlan.actions = {} BY <1>1
<1> QED BY <1>1, <1>5, <1>6 DEF Explains

-----------------------------------------------------------------------------
(* What is told of an investigation that is over *)

(* Every call is one of the inputs, and what it is answered is what the    *)
(* code returns for it.                                                    *)
PlatformAnswers ==
  /\ \E op \in DOMAIN PlatformInputs : \E in \in PlatformInputs[op] : call = [op |-> op, in |-> in]
  /\ answer # <<>> =>
       /\ call.op = "replay" =>
            answer = <<[pages |-> Pages(call.in.stored, call.in.limit),
                        timeline |-> Timeline(call.in.stored)]>>
       /\ call.op = "conclude" =>
            LET c == call.in
                plan == IF c.fails THEN FailedPlan
                        ELSE Plan(c.findings, c.confidence, c.requires, c.runbook)
            IN answer = <<[plan |-> plan, why |-> Explain(c.findings, plan, c.confidence),
                           score |-> OverallScore(c.findings, plan, TRUE, FALSE, c.confidence)]>>

LEMMA PlatformAnswersHold == PlatformSpec => []PlatformAnswers
<1>1. AskingPlatform => PlatformAnswers BY DEF AskingPlatform, Ask, PlatformAnswers
<1>2. PlatformAnswers /\ [AnsweringPlatform]_analysisVars => PlatformAnswers'
  <2> SUFFICES ASSUME PlatformAnswers, [AnsweringPlatform]_analysisVars PROVE PlatformAnswers'
    OBVIOUS
  <2>1. /\ \E op \in DOMAIN PlatformInputs : \E in \in PlatformInputs[op] : call = [op |-> op, in |-> in]
        /\ call' = call
    BY DEF PlatformAnswers, AnsweringPlatform, AskHealth, AskReplay, AskSummary, AskMesh, AskConclude,
           Answers, analysisVars
  <2>2. CASE AskHealth BY <2>1, <2>2 DEF AskHealth, Asked, Answers, PlatformAnswers
  <2>3. CASE AskReplay BY <2>1, <2>3 DEF AskReplay, Asked, Answers, PlatformAnswers
  <2>4. CASE AskSummary BY <2>1, <2>4 DEF AskSummary, Asked, Answers, PlatformAnswers
  <2>5. CASE AskMesh BY <2>1, <2>5 DEF AskMesh, Asked, Answers, PlatformAnswers
  <2>6. CASE AskConclude BY <2>1, <2>6 DEF AskConclude, Asked, Answers, PlatformAnswers
  <2>7. CASE UNCHANGED analysisVars BY <2>7 DEF analysisVars, PlatformAnswers
  <2> QED BY <2>2, <2>3, <2>4, <2>5, <2>6, <2>7 DEF AnsweringPlatform
<1> QED BY <1>1, <1>2, PTL DEF PlatformSpec

(* What is answered is true of the investigation, for every input of the   *)
(* assumed form.                                                           *)
LEMMA RecordAnswers == PlatformAnswers => RecordSound
<1> SUFFICES ASSUME PlatformAnswers PROVE RecordSound OBVIOUS
<1>0. PICK op \in DOMAIN PlatformInputs :
        \E in \in PlatformInputs[op] : call = [op |-> op, in |-> in]
  BY DEF PlatformAnswers
<1>1. PICK in \in PlatformInputs[op] : call = [op |-> op, in |-> in] BY <1>0
<1>2. call.op = op /\ call.in = in BY <1>1
<1>3. ReplayTellsTheRecord
  <2> SUFFICES ASSUME op = "replay", answer # <<>> PROVE ReplayTellsTheRecord
    BY <1>2 DEF ReplayTellsTheRecord, Answered
  <2>1. ReplayInput(in) BY PlatformInputsAssumption
  <2>2. ReplayInput(call.in) /\ answer[1].pages = Pages(call.in.stored, call.in.limit)
    BY <1>2, <2>1 DEF PlatformAnswers
  <2>3. TellsRecord(Findings(call.in.stored), answer[1].pages) BY <2>2, ReplayHolds
  <2> QED BY <2>3 DEF ReplayTellsTheRecord, TellsRecord, TellsAll
<1>4. TimelineAddsUp
  <2> SUFFICES ASSUME op = "replay", answer # <<>> PROVE TimelineAddsUp
    BY <1>2 DEF TimelineAddsUp, Answered
  <2>1. ReplayInput(in) BY PlatformInputsAssumption
  <2>2. ReplayInput(call.in) /\ answer[1].timeline = Timeline(call.in.stored)
    BY <1>2, <2>1 DEF PlatformAnswers
  <2>3. TimelineAdds(answer[1].timeline) BY <2>2, TimelineHolds
  <2> QED BY <2>3 DEF TimelineAddsUp, TimelineAdds
<1>5. ExplanationHolds
  <2> SUFFICES ASSUME op = "conclude", answer # <<>> PROVE ExplanationHolds
    BY <1>2 DEF ExplanationHolds, Answered
  <2>1. ConcludeInput(in) BY PlatformInputsAssumption
  <2>2. PICK plan : plan = IF in.fails THEN FailedPlan
                           ELSE Plan(in.findings, in.confidence, in.requires, in.runbook)
    OBVIOUS
  <2>3. PICK why, score : /\ why = Explain(in.findings, plan, in.confidence)
                          /\ score = OverallScore(in.findings, plan, TRUE, FALSE, in.confidence)
    OBVIOUS
  <2>4. answer = <<[plan |-> plan, why |-> why, score |-> score]>>
    BY <1>2, <2>2, <2>3 DEF PlatformAnswers
  <2>5. Explains(in, plan, why, score)
    <3>1. CASE in.fails BY <2>2, <2>3, <3>1, FailureExplained
    <3>2. CASE ~in.fails BY <2>1, <2>2, <2>3, <3>2, PlanExplained
    <3> QED BY <3>1, <3>2
  <2>6. Explains(call.in, answer[1].plan, answer[1].why, answer[1].score)
    BY <1>2, <2>4, <2>5
  <2> QED BY <2>6 DEF ExplanationHolds, Explains
<1> QED BY <1>3, <1>4, <1>5 DEF RecordSound

(* What is told of a finished investigation is what happened in it, for    *)
(* every stored record and every findings: its replay shows every finding  *)
(* once, in order, and the state each left; its timeline adds up; and its  *)
(* plan is explained by the evidence it was made from (replay.py:352,      *)
(* replay.py:656, explainability.py:260).                                  *)
THEOREM RecordIsSound == PlatformSpec => []RecordSound
BY PlatformAnswersHold, RecordAnswers, PTL

=============================================================================
