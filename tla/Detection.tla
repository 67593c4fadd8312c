----------------------------- MODULE Detection -----------------------------
(***************************************************************************)
(* What the monitor computes about one observation of a metric (agents/kpi *)
(* and the pure parts of agents/monitor): curated threshold rules, the     *)
(* rolling statistical detector, the changepoint and seasonal detectors,   *)
(* the signals they add up to, and the KPI agent's characterization.       *)
(*                                                                         *)
(* Numbers are binary floats of few digits: fractions <<numerator,         *)
(* denominator>>, rounded wherever the code computes with floats, since a  *)
(* test for exactly zero turns on it. Observations are integers, whose     *)
(* unit is any power of two. What a detector hands on is rounded again, to *)
(* decimals (the code's sixth digit), where the signals are computed from  *)
(* it. The mean and the standard deviation are the statistics module's,    *)
(* which computes exactly.                                                 *)
(***************************************************************************)
EXTENDS Basics, Sequences, SequencesExt, FiniteSetsExt

CONSTANTS
  Rules,           \* detection_rules.yaml: domain -> key -> threshold
  Window,          \* StatisticalDetector.window_size
  MinSegment,      \* ChangepointDetector.min_segment_size
  Period,          \* DETECTION_SEASONAL_PERIOD, of both advanced detectors
  MinCycles,       \* SeasonalHybridDetector.min_cycles
  Precision,       \* the binary digits of a float's significand
  Unit,            \* what bounds are rounded to multiples of
  ZUnits           \* z-scores are rounded to multiples of 1 / ZUnits

ASSUME DetectionAssumption ==
  /\ Window \in Nat \ {0}
  /\ \A n \in {MinSegment, Period, MinCycles} : n \in Nat /\ n >= 2
  /\ \A n \in {Precision, Unit, ZUnits} : n \in Nat \ {0}

None == "none"

Triggered(name) == [triggered |-> TRUE, rule |-> name]
Quiet == [triggered |-> FALSE, rule |-> None]

-----------------------------------------------------------------------------
(* Floats *)

(* The integer nearest to a fraction that is not negative; half to even.    *)
Nearest(p) ==
  LET q == p[1] \div p[2]
      over == 2 * (p[1] % p[2])
  IN IF over > p[2] \/ (over = p[2] /\ q % 2 = 1) THEN q + 1 ELSE q

Signed(p, Rounding(_)) ==
  IF p[1] >= 0 THEN Rounding(p)
  ELSE LET r == Rounding(<<-p[1], p[2]>>) IN <<-r[1], r[2]>>

Exponents == -14..8        \* a bound: no number here is outside

PowerOf2(k) == IF k >= 0 THEN <<2^k, 1>> ELSE <<1, 2^(-k)>>

(* The float nearest to a number.                                           *)
Float(number) ==
  Signed(number,
         LAMBDA p : LET Digits(k) == Times(p, PowerOf2(-k))
                        k == CHOOSE e \in Exponents :
                               /\ AtMost(<<2^(Precision - 1), 1>>, Digits(e))
                               /\ Below(Digits(e), <<2^Precision, 1>>)
                    IN IF p[1] = 0 THEN <<0, 1>>
                       ELSE Times(<<Nearest(Digits(k)), 1>>, PowerOf2(k)))

(* round, to a multiple of the unit.                                        *)
RoundedTo(number, unit) ==
  Signed(number, LAMBDA p : <<Nearest(<<p[1], p[2] * unit>>) * unit, 1>>)

Gap(p, q) == Float(Minus(p, q))

Sum2(p, q) == Float(Plus(p, q))

Product(p, q) == Float(Times(p, q))

Quotient(p, q) == Float(<<p[1] * q[2], p[2] * q[1]>>)

Magnitude(p) == IF p[1] < 0 THEN <<-p[1], p[2]>> ELSE p

AsLevels(values) == [i \in DOMAIN values |-> <<values[i], 1>>]

-----------------------------------------------------------------------------
(* The rule engine *)

(* Mutant: the drop is taken the wrong way round.                           *)
PercentRise(current, previous) ==
  IF previous = 0 THEN <<0, 1>> ELSE <<(current - previous) * 100, previous>>

(* _percent_change, 0 when there is nothing to compare with.                *)
PercentDrop(current, previous) ==
  IF previous = 0 THEN <<0, 1>> ELSE <<(previous - current) * 100, previous>>

EvaluateSales(cfg, current, previous) ==
  CASE current < cfg.absolute_minimum -> Triggered("absolute_minimum")
    [] /\ current >= cfg.absolute_minimum
       /\ Below(<<cfg.daily_drop_percent, 1>>, PercentDrop(current, previous))
         -> Triggered("daily_drop_percent")
    [] OTHER -> Quiet

EvaluateComplaints(cfg, current, previous) ==
  IF current * 100 > previous * (100 + cfg.daily_increase_threshold)
  THEN Triggered("daily_increase_threshold") ELSE Quiet

(* Mutant: an empty shelf is no reading.                                    *)
InventoryInStock(cfg, current, previous) ==
  CASE current > 0 /\ current <= cfg.critical_threshold -> Triggered("critical_threshold")
    [] /\ current > cfg.critical_threshold
       /\ current <= cfg.low_stock_threshold -> Triggered("low_stock_threshold")
    [] OTHER -> Quiet

EvaluateInventory(cfg, current, previous) ==
  CASE current <= cfg.critical_threshold -> Triggered("critical_threshold")
    [] /\ current > cfg.critical_threshold
       /\ current <= cfg.low_stock_threshold -> Triggered("low_stock_threshold")
    [] OTHER -> Quiet

Domains == {"sales", "complaints", "inventory"}

(* RuleEngine.__init__: approved overrides replace single thresholds.       *)
WithOverrides(rules, overrides) ==
  [dom \in Domains |->
     [key \in DOMAIN rules[dom] |->
        IF <<dom, key>> \in DOMAIN overrides THEN overrides[<<dom, key>>]
        ELSE rules[dom][key]]]

(* RuleEngine.evaluate: an unknown metric never triggers.                   *)
EvaluateRule(rules, metric, current, previous) ==
  CASE metric = "sales" -> EvaluateSales(rules.sales, current, previous)
    [] metric = "complaints" -> EvaluateComplaints(rules.complaints, current, previous)
    [] metric = "inventory" -> EvaluateInventory(rules.inventory, current, previous)
    [] OTHER -> Quiet

-----------------------------------------------------------------------------
(* The rolling statistical detector *)

Sorted(values) == SortSeq(values, LAMBDA a, b : a <= b)

(* _winsorize: values are cut to the ones at two positions of the sorted    *)
(* window. The positions are what int() makes of 0.05 n and 0.95 n - 1.     *)
Winsorize(values) ==
  LET n == Len(values)
      low == Sorted(values)[(5 * n) \div 100 + 1]
      high == Sorted(values)[(95 * n) \div 100]
  IN IF n < 3 THEN values
     ELSE [i \in 1..n |-> Min({Max({values[i], low}), high})]

(* _percentile_bounds at p: interpolated between neighbours.                *)
Percentile(values, p) ==
  LET n == Len(values)
      sorted == AsLevels(Sorted(values))
      at == p * (n - 1)
      lo == at \div 100
      frac == Float(<<at % 100, 100>>)
  IN IF at % 100 = 0 THEN sorted[lo + 1]
     ELSE Sum2(Product(sorted[lo + 1], Gap(<<1, 1>>, frac)), Product(sorted[lo + 2], frac))

(* Z_SCORE_THRESHOLD, and what |z| must exceed to exceed it when rounded.   *)
ZScoreThreshold == <<3, 1>>
RoundedThreshold == <<6 * ZUnits + 1, 2 * ZUnits>>

(* |z| > limit, squared: sums instead of a mean and a standard deviation. A *)
(* window without dispersion has z = 0.                                     *)
ZScoreAlarm(current, values, limit) ==
  LET n == Len(values)
      sum == FoldLeft(+, 0, values)
      squares == FoldLeft(LAMBDA s, v : s + v * v, 0, values)
      spread == n * squares - sum * sum
  IN /\ n >= 2 /\ spread > 0
     /\ Below(<<limit[1] * limit[1] * n * spread, limit[2] * limit[2]>>,
              <<(n * current - sum) * (n * current - sum) * (n - 1), 1>>)

(* The window: the most recent values.                                      *)
Recent(history) == SubSeq(history, Max({1, Len(history) - Window + 1}), Len(history))

Breach(current, low, high) ==
  CASE Below(<<current, 1>>, low) -> "below_p5"
    [] ~Below(<<current, 1>>, low) /\ Below(high, <<current, 1>>) -> "above_p95"
    [] OTHER -> "inside"

(* StatisticalDetector.detect: whether there is an anomaly is decided       *)
(* before rounding; what it is, _collect_signals reads off the rounded      *)
(* z-score and bounds.                                                      *)
StatisticalDetect(current, history) ==
  LET window == Winsorize(Recent(history))
      low == Percentile(window, 5)
      high == Percentile(window, 95)
  IN IF history = <<>> THEN [anomaly |-> FALSE, z |-> FALSE, side |-> "inside"]
     ELSE [anomaly |-> \/ ZScoreAlarm(current, window, ZScoreThreshold)
                       \/ Breach(current, low, high) # "inside",
           z |-> ZScoreAlarm(current, window, RoundedThreshold),
           side |-> Breach(current, RoundedTo(low, Unit), RoundedTo(high, Unit))]

-----------------------------------------------------------------------------
(* Robust levels *)

Median(values) ==
  LET n == Len(values)
      sorted == SortSeq(values, AtMost)
  IN IF n % 2 = 1 THEN sorted[(n + 1) \div 2]
     ELSE Product(Sum2(sorted[n \div 2], sorted[n \div 2 + 1]), <<1, 2>>)

MAD(values, center) ==
  IF Len(values) < 2 THEN <<0, 1>>
  ELSE Median([i \in DOMAIN values |-> Magnitude(Gap(values[i], center))])

(* _mad_sigma: the median absolute deviation times _MAD_TO_SIGMA.           *)
MADSigma(values, center) == Product(MAD(values, center), Float(<<7413, 5000>>))

SigmaLimit == <<3, 1>>

-----------------------------------------------------------------------------
(* The changepoint detector *)

(* _deseasonalize: each phase loses the distance of its median from the     *)
(* median of all. Phase 0 is the first value of the series.                 *)
Deseasonalize(series) ==
  LET Phase(k) == LET at == SelectSeq([i \in DOMAIN series |-> i],
                                      LAMBDA i : (i - 1) % Period = k)
                  IN [j \in DOMAIN at |-> series[at[j]]]
      overall == Median(series)
  IN IF Len(series) < 2 * Period THEN series
     ELSE [i \in DOMAIN series |->
             Gap(series[i], Gap(Median(Phase((i - 1) % Period)), overall))]

(* Mutant: only a rise is a shift.                                          *)
RiseOnly(before, after) == Gap(after, before)

LevelShift(before, after) == Magnitude(Gap(after, before))

(* The level shift between two segments, and its score: over the dispersion *)
(* before it (after it, where there is none); none where there is neither.  *)
ShiftScore(before, after) ==
  LET own == MADSigma(before, Median(before))
      sigma == IF own[1] > 0 THEN own ELSE MADSigma(after, Median(after))
      shift == LevelShift(Median(before), Median(after))
  IN [shift |-> shift, score |-> IF sigma[1] > 0 THEN <<Quotient(shift, sigma)>> ELSE <<>>]

NoChange == [detected |-> FALSE, at |-> 0, shift |-> <<0, 1>>]

(* The split with the largest score, the first among equals; those without  *)
(* any dispersion do not count.                                             *)
LargestShift(shifts) ==
  LET splits == {k \in DOMAIN shifts : shifts[k].score # <<>>}
      Score(k) == shifts[k].score[1]
      best == CHOOSE k \in splits :
                \A j \in splits : \/ Below(Score(j), Score(k))
                                  \/ Equals(Score(j), Score(k)) /\ k <= j
  IN IF splits = {} THEN NoChange
     ELSE [detected |-> Below(SigmaLimit, Score(best)), at |-> best, shift |-> shifts[best].shift]

(* ChangepointDetector.detect                                               *)
ChangepointDetect(current, history) ==
  LET raw == AsLevels(Append(history, current))
      n == Len(raw)
      series == IF n < 2 * MinSegment THEN raw ELSE Deseasonalize(raw)
  IN LargestShift([k \in MinSegment..(n - MinSegment) |->
                     ShiftScore(SubSeq(series, 1, k), SubSeq(series, k + 1, n))])

-----------------------------------------------------------------------------
(* The seasonal detector *)

(* Mutant: phases count from the start of the window.                       *)
PhaseOfWindow(offset, i) == (i - 1) % Period

(* phase_of: positions of the window count from the start of the history,   *)
(* whose first, incomplete cycle is left out of the window.                 *)
PhaseOf(offset, i) == (offset + i - 1) % Period

(* SeasonalHybridDetector.detect                                            *)
SeasonalDetect(current, history) ==
  LET n == Len(history)
      offset == n % Period
      window == AsLevels(SubSeq(history, offset + 1, n))
      level == Median(window)
      Phase(k) == LET at == SelectSeq([i \in DOMAIN window |-> i],
                                      LAMBDA i : PhaseOf(offset, i) = k)
                  IN [j \in DOMAIN at |-> window[at[j]]]
      Seasonal(k) == Gap(Median(Phase(k)), level)
      residuals == [i \in DOMAIN window |->
                      Gap(Gap(window[i], level), Seasonal(PhaseOf(offset, i)))]
      center == Median(residuals)
      sigma == MADSigma(residuals, center)
      expected == Sum2(level, Seasonal(n % Period))
      residual == Gap(<<current, 1>>, expected)
      score == Quotient(Magnitude(Gap(residual, center)), sigma)
  IN IF n < Period * MinCycles THEN [anomaly |-> FALSE, residual |-> <<0, 1>>]
     ELSE [anomaly |-> IF sigma[1] = 0 THEN residual[1] # 0 ELSE Below(SigmaLimit, score),
           residual |-> residual]

-----------------------------------------------------------------------------
(* Signals *)

(* _extract_series: the cells of a column that are numbers, in order. A     *)
(* cell is a sequence of at most one number: a row without the column, an   *)
(* empty cell and a text are empty alike and are skipped.                   *)
ExtractSeries(cells) == FlattenSeq(cells)

(* Mutant: the bounds are only looked at when the z-score did not fire and  *)
(* an anomaly below them is not a signal.                                   *)
CollectHighSignals(rule, stat, change, season) ==
  (IF rule.triggered THEN <<rule.rule>> ELSE <<>>)
  \o (IF stat.anomaly /\ stat.z THEN <<"z_score">> ELSE <<>>)
  \o (IF stat.anomaly /\ stat.side = "above_p95" THEN <<stat.side>> ELSE <<>>)
  \o (IF change.detected THEN <<"changepoint">> ELSE <<>>)
  \o (IF season.anomaly THEN <<"seasonal_residual">> ELSE <<>>)

(* _collect_signals: one per rule, up to two for the statistical detector,  *)
(* one for each advanced detector.                                          *)
CollectSignals(rule, stat, change, season) ==
  (IF rule.triggered THEN <<rule.rule>> ELSE <<>>)
  \o (IF stat.anomaly /\ stat.z THEN <<"z_score">> ELSE <<>>)
  \o (IF stat.anomaly /\ stat.side # "inside" THEN <<stat.side>> ELSE <<>>)
  \o (IF change.detected THEN <<"changepoint">> ELSE <<>>)
  \o (IF season.anomaly THEN <<"seasonal_residual">> ELSE <<>>)

SeverityOf(signals) ==
  CASE Len(signals) >= 2 -> "HIGH" [] Len(signals) = 1 -> "MEDIUM" [] OTHER -> "LOW"

(* process_kpi up to the event: what is detected of the newest of a series, *)
(* the one before it being "previous".                                      *)
Observe(metric, series) ==
  LET current == Last(series)
      history == Front(series)
      rule == EvaluateRule(Rules, metric, current, Last(history))
      stat == StatisticalDetect(current, history)
      change == ChangepointDetect(current, history)
      season == SeasonalDetect(current, history)
      signals == CollectSignals(rule, stat, change, season)
  IN [rule |-> rule, stat |-> stat, change |-> change, season |-> season,
      signals |-> signals, severity |-> SeverityOf(signals)]

=============================================================================
