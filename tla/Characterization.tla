-------------------------- MODULE Characterization --------------------------
(***************************************************************************)
(* What an investigation says of an anomalous metric without a forecast or *)
(* a language model: the KPI agent (agents/kpi/kpi_agent.py), the adaptive *)
(* detection engine (intelligence/adaptive_detection.py) and the domains a *)
(* composite rule engine offers.                                           *)
(*                                                                         *)
(* A missing value is <<>> and a value v is <<v>>, rows of a history too;  *)
(* quotients are exact fractions without the code's rounding.              *)
(***************************************************************************)
EXTENDS Detection

CONSTANTS
  RecentWindow,           \* _RECENT_WINDOW
  MinPersistencePoints,   \* _MIN_PERSISTENCE_POINTS
  MinTrendPoints,         \* _MIN_TREND_POINTS
  MinBaselinePoints,      \* MIN_BASELINE_POINTS
  MinSeasonalityPoints    \* MIN_SEASONALITY_POINTS

ASSUME CharacterizationAssumption ==
  \A n \in {RecentWindow, MinPersistencePoints, MinTrendPoints,
            MinBaselinePoints, MinSeasonalityPoints} : n \in Nat /\ n >= 2

-----------------------------------------------------------------------------
(* The KPI agent *)

(* _fetch_history: the newest rows up to the limit, without those that hold *)
(* no number; a store that fails is an empty history.                       *)
FetchHistory(rows, limit, fails) ==
  IF fails THEN <<>>
  ELSE FlattenSeq(SubSeq(rows, Max({1, Len(rows) - limit + 1}), Len(rows)))

(* The event's expected value unless there is none or it is zero, else the  *)
(* history's median.                                                        *)
Baseline(expected, history) ==
  CASE expected # <<>> /\ expected # <<0>> -> <<<<expected[1], 1>>>>
    [] ~(expected # <<>> /\ expected # <<0>>) /\ history # <<>> ->
         <<Median(AsLevels(history))>>
    [] OTHER -> <<>>

(* _mad_sigma: the median absolute deviation times 1.4826                   *)
RobustSigma(history) ==
  IF Len(history) < 2 THEN <<0, 1>>
  ELSE Times(<<7413, 5000>>, MAD(AsLevels(history), Median(AsLevels(history))))

Side(p) == CASE p[1] < 0 -> "below" [] p[1] > 0 -> "above" [] OTHER -> "at"

(* p over q, of any sign; <<>> when q is zero.                              *)
Ratio(p, q) ==
  CASE q[1] > 0 -> <<<<p[1] * q[2], p[2] * q[1]>>>>
    [] q[1] < 0 -> <<<<-(p[1] * q[2]), -(p[2] * q[1])>>>>
    [] OTHER -> <<>>

(* _deviation; material means one percent or more.                          *)
Deviation(current, base, history) ==
  LET off == Gap(<<current, 1>>, base)
      percent == Ratio(off, base)
  IN [side |-> Side(off), percent |-> percent,
      sigmas |-> Ratio(Magnitude(off), RobustSigma(history)),
      material |-> percent # <<>> /\ AtMost(<<1, 100>>, Magnitude(percent[1]))]

(* Mutant: the first observation that is back across the baseline counts.   *)
RunLengthWithBreak(current, base, recent) ==
  LET Below0(v) == Below(<<v, 1>>, base)
      breaks == {i \in DOMAIN recent : Below0(recent[i]) # Below0(current)}
  IN IF breaks = {} THEN Len(recent) + 1 ELSE Len(recent) - Max(breaks) + 2

(* The newest observations on the current one's side, and the current one.  *)
RunLength(current, base, recent) ==
  LET Below0(v) == Below(<<v, 1>>, base)
      breaks == {i \in DOMAIN recent : Below0(recent[i]) # Below0(current)}
  IN Len(recent) - (IF breaks = {} THEN 0 ELSE Max(breaks)) + 1

LastOf(history) ==
  SubSeq(history, Max({1, Len(history) - RecentWindow + 1}), Len(history))

(* _persistence, or <<>> when there are too few observations to say.        *)
Persistence(current, base, history) ==
  LET run == RunLength(current, base, LastOf(history))
  IN IF Len(history) < MinPersistencePoints THEN <<>>
     ELSE <<[run |-> run, sustained |-> run >= MinPersistencePoints]>>

(* Mutant: the positions are not centred.                                   *)
SlopeUncentred(window) ==
  LET n == Len(window)
  IN FoldLeft(LAMBDA s, i : s + 2 * i * window[i], 0, [i \in 1..n |-> i])

(* The numerator of the least-squares slope, doubled to stay in integers.   *)
(* The denominator is positive: there are at least two positions.           *)
Slope(window) ==
  LET n == Len(window)
  IN FoldLeft(LAMBDA s, i : s + (2 * i - n - 1) * window[i], 0, [i \in 1..n |-> i])

(* _trend *)
Trend(history) ==
  IF Len(history) < MinTrendPoints THEN <<>>
  ELSE LET slope == Slope(LastOf(history))
       IN <<CASE slope > 0 -> "rising" [] slope < 0 -> "falling" [] OTHER -> "flat">>

DetectorNames == <<"rule", "statistical", "forecast", "changepoint", "seasonal_hybrid">>

(* _read_detectors: the detectors whose own verdict on the event is yes.    *)
ReadDetectors(verdicts) ==
  SelectSeq(DetectorNames, LAMBDA d : d \in DOMAIN verdicts /\ verdicts[d])

(* _compose_statement, as the clauses it claims; <<>> when it claims none.  *)
ComposeStatement(deviation, persistence, trend, fired) ==
  LET clauses ==
        (IF deviation = <<>> THEN <<>> ELSE <<deviation[1].side>>)
        \o (IF persistence = <<>> THEN <<>>
            ELSE <<IF persistence[1].sustained THEN "sustained" ELSE "not yet sustained">>)
        \o (IF trend \in {<<>>, <<"flat">>} THEN <<>> ELSE trend)
  IN IF clauses = <<>> /\ fired # <<>> THEN <<"flagged">> ELSE clauses

(* The part of the confidence that the size of the deviation adds.          *)
DeviationPart(deviation) ==
  CASE deviation = <<>> -> 0
    [] deviation # <<>> /\ deviation[1].sigmas # <<>> ->
         LET p == deviation[1].sigmas[1] IN Min({(100 * p[1]) \div (12 * p[2]), 25})
    [] OTHER -> IF deviation[1].material THEN 10 ELSE 0

HistoryPart(points) ==
  CASE points >= RecentWindow -> 15
    [] points \in MinTrendPoints..(RecentWindow - 1) -> 8
    [] OTHER -> 0

(* Mutant: agreement between detectors is not capped.                       *)
ConfidenceUncapped(deviation, persistence, fired, points) ==
  20 * Len(fired) + DeviationPart(deviation)
  + (IF persistence # <<>> /\ persistence[1].sustained THEN 20 ELSE 0) + HistoryPart(points)

(* _confidence, in hundredths: what detectors agree on, the size of the     *)
(* deviation, whether it lasts and how much history there is, each capped,  *)
(* and the whole at 1.                                                      *)
KPIConfidence(deviation, persistence, fired, points) ==
  Min({100, Min({20 * Len(fired), 40}) + DeviationPart(deviation)
            + (IF persistence # <<>> /\ persistence[1].sustained THEN 20 ELSE 0)
            + HistoryPart(points)})

(* _analyze_unsafe: with neither a baseline nor a detector nothing is said. *)
AnalyzeKPI(current, expected, history, verdicts) ==
  LET base == Baseline(expected, history)
      fired == ReadDetectors(verdicts)
      deviation == IF base = <<>> THEN <<>> ELSE <<Deviation(current, base[1], history)>>
      persistence == IF base = <<>> THEN <<>> ELSE Persistence(current, base[1], history)
      trend == Trend(history)
  IN IF base = <<>> /\ fired = <<>>
     THEN [said |-> <<>>, persistence |-> <<>>, trend |-> <<>>, confidence |-> 0]
     ELSE [said |-> ComposeStatement(deviation, persistence, trend, fired),
           persistence |-> persistence, trend |-> trend,
           confidence |-> KPIConfidence(deviation, persistence, fired, Len(history))]

-----------------------------------------------------------------------------
(* Adaptive detection *)

(* _parse_rows: a row [value, day] counts when it holds a number, and for   *)
(* the seasonal question when it also holds a date.                         *)
ParseRows(rows) ==
  [values |-> FlattenSeq([i \in DOMAIN rows |-> rows[i].value]),
   dated |-> SelectSeq(rows, LAMBDA r : r.value # <<>> /\ r.day # <<>>)]

(* A sample variance times n (n - 1), in fractions.                         *)
Spread(levels) ==
  LET n == Len(levels)
      sum == FoldLeft(Plus, <<0, 1>>, levels)
      squares == FoldLeft(LAMBDA s, v : Plus(s, Times(v, v)), <<0, 1>>, levels)
  IN Minus(Times(<<n, 1>>, squares), Times(sum, sum))

(* _detect_seasonality: the deviation of the weekdays' means is at least    *)
(* half the deviation of all values; compared as squares.                   *)
DetectSeasonality(dated) ==
  LET days == SetToSortSeq({dated[i].day[1] : i \in DOMAIN dated}, LAMBDA a, b : a < b)
      all == [i \in DOMAIN dated |-> <<dated[i].value[1], 1>>]
      On(d) == SelectSeq(dated, LAMBDA r : r.day[1] = d)
      Mean(d) == <<FoldLeft(LAMBDA s, r : s + r.value[1], 0, On(d)), Len(On(d))>>
      Variance(levels) == Times(Spread(levels), <<1, Len(levels) * (Len(levels) - 1)>>)
      means == [i \in DOMAIN days |-> Mean(days[i])]
  IN IF Len(days) < 2 \/ Spread(all)[1] = 0 THEN FALSE
     ELSE AtMost(Times(<<1, 4>>, Variance(all)), Variance(means))

(* _analyze_unsafe of the engine: which signals agree that it is an anomaly.*)
AnalyzeAdaptive(current, rows, verdicts) ==
  LET parsed == ParseRows(rows)
      weekdays == {parsed.dated[i].day[1] : i \in DOMAIN parsed.dated}
      baseline == /\ Len(parsed.values) >= MinBaselinePoints
                  /\ StatisticalDetect(current, parsed.values).anomaly
      Says(d) == d \in DOMAIN verdicts /\ verdicts[d]
      signals == (IF baseline THEN {"adaptive_baseline"} ELSE {})
                 \cup (IF Says("statistical") THEN {"existing_statistical"} ELSE {})
                 \cup (IF Says("forecast") THEN {"existing_forecast"} ELSE {})
  IN [combined |-> signals # {}, signals |-> signals,
      seasonal |-> IF Len(parsed.dated) < MinSeasonalityPoints
                      \/ Cardinality(weekdays) < 2
                   THEN <<>> ELSE <<DetectSeasonality(parsed.dated)>>]

(* CompositeRuleEngine.loaded_domains: a provider that raises is left out.  *)
LoadedDomains(base, providers) ==
  base \cup UNION {p.domains : p \in {q \in providers : ~q.raises}}

=============================================================================
