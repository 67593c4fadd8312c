------------------------------- MODULE Basics -------------------------------
(***************************************************************************)
(* What several of the algorithms are written with: exact arithmetic on    *)
(* fractions <<numerator, denominator>> with a positive denominator, for   *)
(* scores, rates and confidences that the code keeps as floats; and lists  *)
(* that are filtered or sorted. (SelectSeq and SortSeq say the same, but   *)
(* the provers cannot look into them.)                                     *)
(***************************************************************************)
EXTENDS Integers, FiniteSets

IsFraction(p) == p[2] > 0

AtMost(p, q) == p[1] * q[2] <= q[1] * p[2]

Below(p, q) == p[1] * q[2] < q[1] * p[2]

Equals(p, q) == p[1] * q[2] = q[1] * p[2]

Plus(p, q) == <<p[1] * q[2] + q[1] * p[2], p[2] * q[2]>>

Minus(p, q) == <<p[1] * q[2] - q[1] * p[2], p[2] * q[2]>>

Times(p, q) == <<p[1] * q[1], p[2] * q[2]>>

Distance(p, q) == IF AtMost(p, q) THEN Minus(q, p) ELSE Minus(p, q)

Smaller(p, q) == IF AtMost(p, q) THEN p ELSE q

Larger(p, q) == IF AtMost(p, q) THEN q ELSE p

Clamp01(p) == Larger(<<0, 1>>, Smaller(<<1, 1>>, p))

-----------------------------------------------------------------------------

(* The elements of a set in a strict order, which is a set of pairs.        *)
InOrder(S, before) ==
  [r \in 1..Cardinality(S) |->
     CHOOSE x \in S : Cardinality({y \in S : <<y, x>> \in before}) = r - 1]

Increasing(S) == InOrder(S, {p \in S \X S : p[1] < p[2]})

(* The entries of a list at some of its positions, in order.                *)
Entries(list, P) == [r \in DOMAIN Increasing(P) |-> list[Increasing(P)[r]]]

Keeping(list, Test(_)) == Entries(list, {i \in DOMAIN list : Test(list[i])})

(* A list by what comes before what; entries of which neither does stay in  *)
(* the order they have.                                                     *)
Ranking(list, Before(_, _)) ==
  LET D == DOMAIN list
      order == InOrder(D, {p \in D \X D : \/ Before(list[p[1]], list[p[2]])
                                          \/ ~Before(list[p[2]], list[p[1]]) /\ p[1] < p[2]})
  IN [r \in DOMAIN order |-> list[order[r]]]

=============================================================================
