-------------------------- MODULE DetectionChecks --------------------------
(***************************************************************************)
(* Calls of detection, characterization, forecasting and calibration.      *)
(***************************************************************************)
EXTENDS Calls, Calibration, Characterization, Forecasting

-----------------------------------------------------------------------------
(* Calls *)

PastIncidents == [id : {"i1", "i2"}, conf : {<<>>, <<1>>, <<Scale + 1>>},
                  status : {"RESOLVED", "FAILED", "OPEN"}]
ExtractCalls ==
  {[incidents |-> i, verdicts |-> v] :
     i \in {s \in SeqsUpTo(PastIncidents, 2) : Len(s) = 2 => s[1].id # s[2].id},
     v \in SeqsUpTo([incident : {"i1"}, verdict : {"approved", "rejected", "escalated"}], 2)}

Samples == [conf : Confidences, outcome : BOOLEAN, source : {"status"}]
FitCalls == [1..4 -> Samples]

RuleCalls == [metric : Domains \cup {"other"}, current : 0..6, previous : 0..6]

ObserveCalls ==
  [metric : {"sales"},
   series : UNION {[1..n -> {6, 10, 72}] : n \in {2, 6}}
            \cup {Append(s, x) : s \in [1..6 -> {6, 72}], x \in {6, 10, 72}}]

KPICalls == [current : {1, 5}, expected : {<<>>, <<0>>, <<2>>},
             history : SeqsUpTo({1, 2, 4}, 3) \cup [1..4 -> {1, 4}],
             verdicts : {[d \in S |-> TRUE] : S \in {{}, {"rule"}, {"statistical", "forecast"}, {"rule", "changepoint", "seasonal_hybrid"}}}]

PrepareCalls ==
  {rows \in SeqsUpTo([ds : {<<>>, <<1>>, <<2>>}, y : {<<>>, <<0>>, <<4>>}], 3) :
     \E i \in DOMAIN rows : rows[i].y # <<>> /\ rows[i].ds # <<>>}

(* Rows by date, as a store may list them: the oldest or the newest first.  *)
Dated(values, newestFirst) ==
  [i \in DOMAIN values |-> [ds |-> <<IF newestFirst THEN Len(values) + 1 - i ELSE i>>,
                            y |-> values[i]]]
Histories ==
  {values \in SeqsUpTo({<<>>, <<0>>, <<1>>, <<4>>}, 4) \cup [1..5 -> {<<>>, <<1>>, <<4>>}] :
     \E i \in DOMAIN values : values[i] # <<>>}
BacktestCalls ==
  {[rows |-> Dated(values, newestFirst), model |-> m[1], holdout |-> m[2], folds |-> m[3]] :
     values \in Histories, newestFirst \in BOOLEAN,
     m \in {<<"naive", 1, 1>>, <<"naive", 2, 1>>, <<"naive", 1, 2>>, <<"prophet", 1, 1>>}}

SelectCalls ==
  [results : [{"prophet", "naive"} ->
                [mape : {<<>>, <<<<10, 1>>>>, <<<<20, 1>>>>, <<<<30, 1>>>>}]],
   ceiling : {0, 25}]

DeviationCalls == [actual : 0..6, yhat : 0..4, half : 0..2]

AskingDetection ==
  \/ \E in \in ExtractCalls : Ask("extract", in)
  \/ \E in \in FitCalls : Ask("fit", in)
  \/ \E in \in RuleCalls : Ask("rule", in)
  \/ \E in \in ObserveCalls : Ask("observe", in)
  \/ \E in \in KPICalls : Ask("kpi", in)
  \/ \E in \in PrepareCalls : Ask("prepare", in)
  \/ \E in \in BacktestCalls : Ask("backtest", in)
  \/ \E in \in SelectCalls : Ask("select", in)
  \/ \E in \in DeviationCalls : Ask("deviation", in)

-----------------------------------------------------------------------------
(* Answering *)

AskExtract == Asked("extract") /\ Answers(ExtractSamples(call.in.incidents, call.in.verdicts))

AskFit == Asked("fit") /\ Answers(Fit(call.in))

AskRule == Asked("rule")
           /\ Answers(EvaluateRule(Rules, call.in.metric, call.in.current, call.in.previous))

AskObserve == Asked("observe") /\ Answers(Observe(call.in.metric, call.in.series))

AskKPI == Asked("kpi") /\ Answers(AnalyzeKPI(call.in.current, call.in.expected,
                                             call.in.history, call.in.verdicts))

AskPrepare == Asked("prepare") /\ Answers(Prepare(call.in))

AskBacktest == Asked("backtest")
               /\ Answers(BacktestPrepared(call.in.rows, call.in.model, call.in.holdout,
                                           call.in.folds))

AskSelect == Asked("select")
             /\ Answers(TrainValidated(<<"prophet", "naive">>, call.in.results, call.in.ceiling))

AskDeviation == Asked("deviation")
                /\ Answers(DetectDeviation(call.in.actual,
                     [yhat |-> call.in.yhat, lower |-> call.in.yhat - call.in.half,
                      upper |-> call.in.yhat + call.in.half]))

-----------------------------------------------------------------------------
(* Properties *)

(* Only the newest verdict on an incident counts for calibration, and every *)
(* incident is a sample or counted under one reason (calibration.py:137).   *)
NewestVerdictCounts ==
  Answered("extract") =>
    LET a == answer[1]
        v == call.in.verdicts
    IN /\ v # <<>> => a = ExtractSamples(call.in.incidents, <<Last(v)>>)
       /\ Len(a.samples) + FoldSet(LAMBDA r, n : n + a.skipped[r], 0, Reasons)
            = Len(call.in.incidents)

(* Pooling adjacent violators yields the isotonic regression: at every      *)
(* confidence the value of the min-max formula (calibration.py:341).        *)
FitIsBest ==
  Answered("fit") =>
    LET knots == FitIsotonic(call.in)
    IN /\ {knots[i].x : i \in DOMAIN knots} = {call.in[i].conf : i \in DOMAIN call.in}
       /\ \A i \in DOMAIN knots : Equals(knots[i].y, IsotonicAt(call.in, knots[i].x))

(* A calibration that may be adopted was measured on incidents it was not   *)
(* fitted on, and never turns a more confident answer into a less confident *)
(* one (calibration.py:538, 417).                                           *)
AdoptableIsHonest ==
  Answered("fit") /\ answer[1].usable =>
    /\ KeepsRanking(answer[1].knots)
    /\ \A i \in DOMAIN call.in :
         (i - 1) % Stride = 0 =>
            Fit([call.in EXCEPT ![i].outcome = ~@]).knots \in {answer[1].knots, <<>>}

(* A metric that gets worse never leaves a breach: lower sales, more        *)
(* complaints, less stock (rule_engine.py:264-459).                         *)
WorseStaysBreached ==
  Answered("rule") /\ call.in.metric \in Domains /\ answer[1].triggered =>
    LET worse == IF call.in.metric = "complaints" THEN call.in.current + 1
                 ELSE call.in.current - 1
    IN EvaluateRule(Rules, call.in.metric, worse, call.in.previous).triggered

(* Three times the most that rounding one sum of a series takes away.       *)
RoundingError(series) ==
  <<3 * Max({Magnitude(<<series[i], 1>>)[1] : i \in DOMAIN series}), 2^Precision>>

Repeats(series) ==
  /\ Len(series) > MinCycles * Period
  /\ \A i \in 1..(Len(series) - 1 - Period) : series[i] = series[i + Period]

(* Where a metric repeated its cycle exactly so far, however much of a      *)
(* cycle the history begins with, any value that differs from the cycle's   *)
(* next by more than what rounding makes is a seasonal anomaly, and when it *)
(* does come, nothing but what rounding makes of it is ever taken for an    *)
(* anomaly or a changepoint (advanced_detectors.py:413-421, 444-447).       *)
CycleIsNoAlarm ==
  Answered("observe") /\ Repeats(call.in.series) =>
    LET series == call.in.series
        n == Len(series)
        a == answer[1]
        off == Magnitude(<<series[n] - series[n - Period], 1>>)
        Slight(p) == AtMost(Magnitude(p), RoundingError(series))
    IN /\ ~Slight(off) => a.season.anomaly
       /\ off[1] = 0 => /\ a.season.anomaly => Slight(a.season.residual)
                        /\ a.change.detected => Slight(a.change.shift)

(* advanced_detectors.py:356-358: "A normal Saturday:                       *)
(* result["seasonal_anomaly"] is False", and 444-447: a residual then is "a *)
(* real departure from a pattern the data has held exactly". Floats make    *)
(* one of a cycle that repeats exactly: the level plus what a phase is      *)
(* above it need not be the phase's own value again.                        *)
RepeatedCycleIsQuiet ==
  Answered("observe") /\ Repeats(call.in.series) =>
    (Last(call.in.series) = call.in.series[Len(call.in.series) - Period] =>
       ~answer[1].season.anomaly)

(* A changepoint is found in a metric exactly when it is found in the       *)
(* metric turned upside down: a drop weighs as much as a rise               *)
(* (advanced_detectors.py:194).                                             *)
ShiftEitherWay ==
  Answered("observe") =>
    LET mirrored == [i \in DOMAIN call.in.series |-> -call.in.series[i]]
    IN answer[1].change = ChangepointDetect(Last(mirrored), Front(mirrored))

(* What any detector flags becomes a signal, and two detectors agreeing is  *)
(* never less than HIGH, but for a statistical alarm so close to its limits *)
(* that rounding them hides it: it may then tell of no breach               *)
(* (monitor_agent.py:622, 713; statistical_detector.py:76-79).              *)
EveryAlarmSignalled ==
  Answered("observe") =>
    LET a == answer[1]
        current == <<Last(call.in.series), 1>>
        window == Winsorize(Recent(Front(call.in.series)))
        Near(bound) == AtMost(Times(<<2, 1>>, Distance(current, bound)), <<Unit, 1>>)
        hidden == /\ ~ZScoreAlarm(current[1], window, RoundedThreshold)
                  /\ \/ Near(Percentile(window, 5)) \/ Near(Percentile(window, 95))
                     \/ Breach(current[1], Percentile(window, 5), Percentile(window, 95)) = "inside"
        alarms == {d \in {"rule", "stat", "change", "season"} :
                     CASE d = "rule" -> a.rule.triggered [] d = "stat" -> a.stat.anomaly
                       [] d = "change" -> a.change.detected [] OTHER -> a.season.anomaly}
        told == IF hidden THEN alarms \ {"stat"} ELSE alarms
    IN /\ alarms = {} => a.signals = <<>>
       /\ told # {} => a.signals # <<>>
       /\ Cardinality(told) >= 2 => a.severity = "HIGH"

(* monitor_agent.py:680-682: where no bound is breached "the anomaly must   *)
(* have come from z-score alone (already added above)". An anomaly by less  *)
(* than what its bound or its score is rounded by is told by no signal.     *)
AnyAlarmIsSignalled ==
  Answered("observe") => (answer[1].stat.anomaly => answer[1].signals # <<>>)

(* "Sustained" is said exactly when the newest observations and the current *)
(* one, as many as it takes, lie on one side of the baseline, and a trend   *)
(* turns round with the history (kpi_agent.py:382, 420).                    *)
SustainedOnOneSide ==
  Answered("kpi") =>
    LET c == call.in
        a == answer[1]
        base == Baseline(c.expected, c.history)
        seen == Append(LastOf(c.history), c.current)
        newest == SubSeq(seen, Len(seen) - MinPersistencePoints + 1, Len(seen))
    IN /\ a.persistence # <<>> =>
            (a.persistence[1].sustained <=>
               Cardinality({Below(<<newest[i], 1>>, base[1]) : i \in DOMAIN newest}) = 1)
       /\ a.trend # <<>> =>
            LET back == AnalyzeKPI(c.current, c.expected, Reverse(LastOf(c.history)),
                                   c.verdicts).trend
            IN <<a.trend, back>> \in {<< <<"rising">>, <<"falling">> >>,
                                     << <<"falling">>, <<"rising">> >>,
                                     << <<"flat">>, <<"flat">> >>}

(* Confidence stays within 1 and a detector that agrees never lowers it     *)
(* (kpi_agent.py:597).                                                      *)
AgreementNeverLowers ==
  Answered("kpi") =>
    LET c == call.in
        With(d) == AnalyzeKPI(c.current, c.expected, c.history,
                              [x \in DOMAIN c.verdicts \cup {d} |-> TRUE]).confidence
    IN /\ answer[1].confidence \in 0..100
       /\ \A i \in DOMAIN DetectorNames :
            answer[1].confidence <= With(DetectorNames[i])

(* Preparing a series invents nothing: every dated row is kept, in order of *)
(* dates, and no value leaves the range of the known ones                   *)
(* (forecast_data_pipeline.py:61).                                          *)
PreparedWithinKnown ==
  Answered("prepare") =>
    LET a == answer[1]
        rows == SelectSeq(call.in, LAMBDA r : r.ds # <<>>)
        known == {rows[i].y[1] : i \in {j \in DOMAIN rows : rows[j].y # <<>>}}
    IN /\ Len(a) = Len(rows)
       /\ \A i \in 2..Len(a) : a[i - 1].ds <= a[i].ds
       /\ \A i \in DOMAIN a : /\ AtMost(<<Min(known), 1>>, a[i].y)
                               /\ AtMost(a[i].y, <<Max(known), 1>>)

(* The rows a backtest had, and its fold f: what was held out of it, with   *)
(* all that came later, and the rows if that had been measured otherwise.   *)
Values(rows) == [i \in DOMAIN Prepare(rows) |-> Prepare(rows)[i].y]
Later(c, f) ==
  {i \in DOMAIN c.rows : c.rows[i].ds[1] > Len(c.rows) - (f + 1) * c.holdout}
Remeasured(c, f) ==
  [i \in DOMAIN c.rows |-> IF i \in Later(c, f) /\ c.rows[i].y # <<>>
                           THEN [c.rows[i] EXCEPT !.y = <<9>>] ELSE c.rows[i]]

(* The value of row i is filled from a row in S, or cut at a percentile.    *)
FilledFrom(rows, i, S) ==
  LET known == {j \in DOMAIN rows : rows[j].y # <<>>}
      nearest == {Max({j \in known : j <= i} \cup {0}), Min({j \in known : j >= i} \cup {99})}
  IN nearest \cap S # {}
CutOff(rows, i) ==
  LET filled == ImputeY([j \in DOMAIN rows |-> rows[j].y])
  IN ~Equals(WinsoriseY(filled)[i], filled[i])

(* A backtest trains on the older rows and is scored on the newer, however  *)
(* the store lists them, and what it is scored on reaches what it trains on *)
(* only through the preparation of all rows: another measurement there      *)
(* changes a training value only where that was missing and filled from it, *)
(* or is cut at a percentile. A metric that repeats is predicted without    *)
(* error, and a forecaster that cannot be used has no measure               *)
(* (forecast_agent.py:269, 289; backtesting.py:241-244, 355).               *)
NoLookahead ==
  Answered("backtest") /\ answer[1].why # "insufficient_data" =>
    LET c == call.in
        n == Len(c.rows)
        dates == [i \in DOMAIN Prepare(c.rows) |-> Prepare(c.rows)[i].ds]
        y == Values(c.rows)
    IN /\ \A f \in 0..(c.folds - 1) :
            LET train == Training(dates, f, c.holdout)
                held == HeldOut(dates, f, c.holdout)
                other == Remeasured(c, f)
            IN /\ \A i \in DOMAIN train, j \in DOMAIN held : train[i] < held[j]
               /\ \A i \in DOMAIN c.rows \ Later(c, f) :
                    \/ Equals(y[c.rows[i].ds[1]], Values(other)[c.rows[i].ds[1]])
                    \/ FilledFrom(c.rows, i, Later(c, f))
                    \/ CutOff(c.rows, i) \/ CutOff(other, i)
       /\ (\A i \in 1..(n - NaivePeriod) : Equals(y[i], y[i + NaivePeriod]))
            => IF c.model = "naive" THEN Equals(answer[1].mape[1], <<0, 1>>)
               ELSE answer[1].mape = <<>>

(* backtesting.py:17: a backtest "measures a model against data it never    *)
(* saw", 178 "data it was not trained on". The percentiles and the fillings *)
(* its training values come from are taken over the held-out rows too.      *)
NeverSeen ==
  Answered("backtest") /\ answer[1].why # "insufficient_data" =>
    \A f \in 0..(call.in.folds - 1) :
      LET Trained(rows) == Training(Values(rows), f, call.in.holdout)
          other == Trained(Remeasured(call.in, f))
      IN \A i \in DOMAIN other : Equals(Trained(call.in.rows)[i], other[i])

(* Which candidate wins does not depend on the order they are tried in,     *)
(* unless they measured alike, where Prophet wins (backtesting.py:299).     *)
SelectionIsFair ==
  Answered("select") =>
    LET r == call.in.results
        won == answer[1].winner
    IN /\ SelectBest(<<"naive", "prophet">>, r) # won => r["naive"] = r["prophet"] /\ won = "prophet"
       /\ answer[1].refused => \A m \in DOMAIN r :
            r[m].mape # <<>> => Below(<<call.in.ceiling, 1>>, r[m].mape[1])

-----------------------------------------------------------------------------
(* What the runs check *)

(* Calibration follows the reviewers' newest verdicts, fits the best of the *)
(* candidates, and adopts only what improves on rows it did not see         *)
(* (calibration.py:538).                                                    *)
CalibrationSound == NewestVerdictCounts /\ FitIsBest /\ AdoptableIsHonest

(* Every detector: worse stays an alarm, a cycle that repeats is none but   *)
(* for what rounding makes of it, a shift is found either way, and no alarm *)
(* is lost on its way to the event but one within the rounding of its       *)
(* limits (monitor_agent.py:622).                                           *)
DetectionSound == WorseStaysBreached /\ CycleIsNoAlarm /\ ShiftEitherWay /\ EveryAlarmSignalled

(* What is said of a metric and of its future: persistence, trend and       *)
(* confidence, and forecasts that invent nothing and train on older rows,   *)
(* which the newer ones reach only by filling gaps and cutting extremes     *)
(* (kpi_agent.py:382, backtesting.py:172, forecast_agent.py:269).           *)
ForecastSound ==
  /\ SustainedOnOneSide /\ AgreementNeverLowers
  /\ PreparedWithinKnown /\ NoLookahead /\ SelectionIsFair

=============================================================================
