---------------------------- MODULE Calibration ----------------------------
(***************************************************************************)
(* The statistics of confidence calibration (intelligence/calibration.py): *)
(* labelled samples out of incidents and verdicts, isotonic regression by  *)
(* pooling adjacent violators, and the held-out measurement that decides   *)
(* whether a mapping is good enough to be adopted.                         *)
(*                                                                         *)
(* A confidence is a number of steps of 1/Scale. Fitted values are exact   *)
(* fractions: the code's rounding to six digits is left out, it neither    *)
(* reorders values nor moves a mean across a threshold of these inputs.    *)
(***************************************************************************)
EXTENDS Basics, Sequences, SequencesExt, FiniteSetsExt

CONSTANTS
  Scale,            \* steps of a confidence between 0.0 and 1.0
  Buckets,          \* DEFAULT_BUCKETS
  MinSamples,       \* MIN_TRAINING_SAMPLES
  Stride,           \* every Stride-th sample is held out
  MinImprovement    \* MIN_ECE_IMPROVEMENT, a fraction

ASSUME CalibrationAssumption ==
  /\ Scale \in Nat \ {0} /\ Buckets \in Nat \ {0}
  /\ MinSamples \in Nat /\ MinSamples >= 2
  /\ Stride \in Nat /\ Stride >= 2
  /\ IsFraction(MinImprovement) /\ AtMost(<<0, 1>>, MinImprovement)

NoConfidence == "no_confidence"
OutOfRange == "confidence_out_of_range"
Confidences == 0..Scale

-----------------------------------------------------------------------------
(* Labelled samples *)

(* Mutant: the first verdict counts.                                        *)
FirstVerdictOn(id, verdicts) ==
  LET own == SelectSeq(verdicts, LAMBDA v : v.incident = id)
  IN IF own = <<>> THEN "" ELSE own[1].verdict

(* The verdict that counts for an incident: the rows come oldest first and  *)
(* each overwrites the one before it.                                       *)
VerdictOn(id, verdicts) ==
  LET own == SelectSeq(verdicts, LAMBDA v : v.incident = id)
  IN IF own = <<>> THEN "" ELSE Last(own).verdict

HumanVerdicts == {"approved", "rejected", "changes_requested", "escalated"}

(* What becomes of one incident: a sample, or the reason it is skipped. A   *)
(* verdict outranks the status; a neutral one hides it.                     *)
Label(inc, verdicts) ==
  LET verdict == VerdictOn(inc.id, verdicts)
      Sample(o, s) == [skip |-> "none", conf |-> inc.conf[1], outcome |-> o, source |-> s]
      Skip(reason) == [skip |-> reason]
  IN CASE inc.conf = <<>> -> Skip(NoConfidence)
       [] inc.conf # <<>> /\ inc.conf[1] \notin Confidences -> Skip(OutOfRange)
       [] OTHER -> CASE verdict = "approved" -> Sample(TRUE, "verdict")
                     [] verdict = "rejected" -> Sample(FALSE, "verdict")
                     [] verdict \in {"changes_requested", "escalated"} -> Skip("neutral_verdict")
                     [] verdict \notin HumanVerdicts /\ inc.status = "RESOLVED" -> Sample(TRUE, "status")
                     [] verdict \notin HumanVerdicts /\ inc.status = "FAILED" -> Sample(FALSE, "status")
                     [] OTHER -> Skip("no_outcome_signal")

Reasons == {NoConfidence, OutOfRange, "neutral_verdict", "no_outcome_signal"}

(* extract_labeled_samples: the samples in order, and a count per reason.   *)
ExtractSamples(incidents, verdicts) ==
  LET labels == [i \in DOMAIN incidents |-> Label(incidents[i], verdicts)]
  IN [samples |-> SelectSeq(labels, LAMBDA l : l.skip = "none"),
      skipped |-> [r \in Reasons |-> Len(SelectSeq(labels, LAMBDA l : l.skip = r))]]

-----------------------------------------------------------------------------
(* Isotonic regression *)

(* A block pools neighbouring confidences: successes, samples, and the      *)
(* confidences from first to last.                                          *)
Rate(b) == <<b.hits, b.weight>>

Pooled(a, b) == [hits |-> a.hits + b.hits, weight |-> a.weight + b.weight,
                 xs |-> a.xs \o b.xs]

(* The body of the while loop: if the last block's rate is below the one    *)
(* before it, the two are pooled.                                           *)
PoolOnce(blocks) ==
  LET n == Len(blocks)
  IN IF n >= 2 /\ Below(Rate(blocks[n]), Rate(blocks[n - 1]))
     THEN Append(SubSeq(blocks, 1, n - 2), Pooled(blocks[n - 1], blocks[n]))
     ELSE blocks

(* The while loop, which goes round less often than there are blocks.       *)
Pool(blocks) == FoldLeft(LAMBDA bs, b : PoolOnce(bs), blocks, blocks)

(* fit_isotonic: equal confidences are pooled first, then the distinct ones *)
(* are pushed in increasing order. A knot per confidence: where it lies and *)
(* the rate of the block it ended in.                                       *)
FitIsotonic(samples) ==
  LET At(x) == SelectSeq(samples, LAMBDA s : s.conf = x)
      Single(x) == [hits |-> Len(SelectSeq(At(x), LAMBDA s : s.outcome)),
                    weight |-> Len(At(x)), xs |-> <<x>>]
      xs == SetToSortSeq({samples[i].conf : i \in DOMAIN samples}, LAMBDA a, b : a < b)
      blocks == FoldLeft(LAMBDA bs, x : Pool(Append(bs, Single(x))), <<>>, xs)
      Knots(b) == [i \in DOMAIN b.xs |-> [x |-> b.xs[i], y |-> Rate(b)]]
  IN FlattenSeq([i \in DOMAIN blocks |-> Knots(blocks[i])])

(* Mutant: the ratio is taken from the wrong end of the segment.            *)
ApplyFromTheRight(conf, knots) ==
  IF knots = <<>> THEN <<conf, Scale>>
  ELSE IF conf <= knots[1].x THEN Clamp01(knots[1].y)
  ELSE IF conf >= Last(knots).x THEN Clamp01(Last(knots).y)
  ELSE LET i == SelectInSeq(knots, LAMBDA k : conf <= k.x)
           left == knots[i - 1]
           right == knots[i]
       IN Clamp01(Plus(left.y, Times(<<right.x - conf, right.x - left.x>>,
                                     Minus(right.y, left.y))))

(* apply_calibration: linear between knots, flat outside them.              *)
ApplyCalibration(conf, knots) ==
  IF knots = <<>> THEN <<conf, Scale>>
  ELSE IF conf <= knots[1].x THEN Clamp01(knots[1].y)
  ELSE IF conf >= Last(knots).x THEN Clamp01(Last(knots).y)
  ELSE LET i == SelectInSeq(knots, LAMBDA k : conf <= k.x)
           left == knots[i - 1]
           right == knots[i]
       IN Clamp01(Plus(left.y, Times(<<conf - left.x, right.x - left.x>>,
                                     Minus(right.y, left.y))))

-----------------------------------------------------------------------------
(* The measurement *)

(* calibration_curve's ECE. A bucket's share times the gap between its mean *)
(* prediction and its rate is |sum of predictions - successes| / all, so    *)
(* that no mean is needed. Predictions are fractions.                       *)
ECE(predictions, outcomes) ==
  LET n == Len(predictions)
      Bucket(p) == Min({(p[1] * Buckets) \div p[2], Buckets - 1})
      Total(b) == FoldLeft(LAMBDA sum, i :
                             IF Bucket(predictions[i]) # b THEN sum
                             ELSE Plus(sum, Minus(predictions[i],
                                                  <<IF outcomes[i] THEN 1 ELSE 0, 1>>)),
                           <<0, 1>>, [i \in 1..n |-> i])
  IN IF n = 0 THEN <<0, 1>>
     ELSE Times(<<1, n>>,
                FoldLeft(LAMBDA sum, b : Plus(sum, Distance(<<0, 1>>, Total(b - 1))),
                         <<0, 1>>, [b \in 1..Buckets |-> b]))

(* Mutant: the fit sees the held-out samples as well.                       *)
FitOnAll(samples) ==
  LET positions == [i \in DOMAIN samples |-> i]
      chosen == SelectSeq(positions, LAMBDA i : (i - 1) % Stride = 0)
      holdout == [j \in DOMAIN chosen |-> samples[chosen[j]]]
      knots == FitIsotonic(samples)
      outcomes == [i \in DOMAIN holdout |-> holdout[i].outcome]
      before == ECE([i \in DOMAIN holdout |-> <<holdout[i].conf, Scale>>], outcomes)
      after == ECE([i \in DOMAIN holdout |-> ApplyCalibration(holdout[i].conf, knots)],
                   outcomes)
  IN [usable |-> AtMost(MinImprovement, Minus(before, after)), knots |-> knots]

(* CalibrationEngine.fit: every Stride-th sample, the first included, is    *)
(* held out; the mapping is usable when it lowers the held-out ECE enough.  *)
Fit(samples) ==
  LET positions == [i \in DOMAIN samples |-> i]
      Of(Test(_)) == LET chosen == SelectSeq(positions, Test)
                     IN [j \in DOMAIN chosen |-> samples[chosen[j]]]
      train == Of(LAMBDA i : (i - 1) % Stride # 0)
      holdout == Of(LAMBDA i : (i - 1) % Stride = 0)
      knots == FitIsotonic(train)
      outcomes == [i \in DOMAIN holdout |-> holdout[i].outcome]
      before == ECE([i \in DOMAIN holdout |-> <<holdout[i].conf, Scale>>], outcomes)
      after == ECE([i \in DOMAIN holdout |-> ApplyCalibration(holdout[i].conf, knots)],
                   outcomes)
  IN IF \/ Len(samples) < MinSamples
        \/ train = <<>> \/ holdout = <<>>
        \/ Cardinality({train[i].outcome : i \in DOMAIN train}) < 2
     THEN [usable |-> FALSE, knots |-> <<>>]
     ELSE [usable |-> AtMost(MinImprovement, Minus(before, after)), knots |-> knots]

-----------------------------------------------------------------------------
(* Reference definitions *)

(* The isotonic regression of samples at x by its min-max formula: the      *)
(* largest, over starts at or below x, of the smallest, over ends at or     *)
(* above x, of the success rate between start and end.                      *)
IsotonicAt(samples, x) ==
  LET xs == {samples[i].conf : i \in DOMAIN samples}
      Between(a, b) == SelectSeq(samples, LAMBDA s : a <= s.conf /\ s.conf <= b)
      Mean(a, b) == <<Len(SelectSeq(Between(a, b), LAMBDA s : s.outcome)),
                      Len(Between(a, b))>>
      Lowest(a) == FoldSet(LAMBDA b, m : Smaller(Mean(a, b), m), <<2, 1>>,
                           {b \in xs : b >= x})
  IN FoldSet(LAMBDA a, m : Larger(Lowest(a), m), <<-1, 1>>, {a \in xs : a <= x})

(* A mapping keeps the order of confidences.                                *)
KeepsRanking(knots) ==
  \A c \in Confidences \ {0} :
    AtMost(ApplyCalibration(c - 1, knots), ApplyCalibration(c, knots))

=============================================================================
