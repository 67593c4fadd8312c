---------------------------- MODULE Forecasting ----------------------------
(***************************************************************************)
(* Forecast preparation, backtesting and deviation (agents/forecast and    *)
(* pipelines/forecast_data_pipeline.py). Prophet itself is external: where  *)
(* what it predicts matters, it is the input.                              *)
(* Errors and quantiles are exact fractions.                               *)
(***************************************************************************)
EXTENDS Basics, Sequences, SequencesExt, FiniteSetsExt

CONSTANTS
  MinTrainRows,        \* _MIN_TRAIN_ROWS and _MIN_TRAINING_ROWS
  NaivePeriod,         \* SeasonalNaiveForecaster.period
  WinsorPercent,       \* _LOWER_PCT; _UPPER_PCT is as far from 100
  DeviationThreshold   \* _DEVIATION_THRESHOLD_PCT

ASSUME ForecastingAssumption ==
  /\ MinTrainRows \in Nat \ {0} /\ NaivePeriod \in Nat \ {0}
  /\ DeviationThreshold \in Nat /\ WinsorPercent \in 0..49

NoForecast == <<>>

-----------------------------------------------------------------------------
(* Preparation *)

AbsDiff(a, b) == IF a >= b THEN a - b ELSE b - a

(* A fraction in lowest terms, which keeps sums of them small.              *)
Reduced(p) ==
  LET gcd[a \in Nat, b \in Nat] == IF b = 0 THEN a ELSE gcd[b, a % b]
      g == gcd[AbsDiff(p[1], 0), p[2]]
  IN <<p[1] \div g, p[2] \div g>>

(* The positions of a series that hold a value; a value is <<v>> or <<>>.   *)
Known(ys) == {i \in DOMAIN ys : ys[i] # <<>>}

(* Mutant: gaps are filled with the value before them only.                 *)
ImputeForward(ys) ==
  [i \in DOMAIN ys |->
     LET before == {j \in Known(ys) : j <= i}
     IN IF before = {} THEN <<0, 1>> ELSE <<ys[Max(before)][1], 1>>]

(* _impute_y: linear between known neighbours, flat before the first and    *)
(* after the last.                                                          *)
ImputeY(ys) ==
  [i \in DOMAIN ys |->
     LET before == {j \in Known(ys) : j <= i}
         after == {j \in Known(ys) : j >= i}
         Y(j) == ys[j][1]
     IN CASE before = {} -> <<Y(Min(after)), 1>>
          [] after = {} -> <<Y(Max(before)), 1>>
          [] OTHER -> LET a == Max(before)
                          b == Min(after)
                      IN IF a = b THEN <<Y(a), 1>>
                         ELSE <<Y(a) * (b - i) + Y(b) * (i - a), b - a>>]

(* The p-th percentile of fractions, interpolated between neighbours.       *)
Quantile(values, p) ==
  LET sorted == SortSeq(values, AtMost)
      at == p * (Len(values) - 1)
      lo == at \div 100
      part == at % 100
  IN IF part = 0 THEN sorted[lo + 1]
     ELSE Reduced(Plus(Times(<<100 - part, 100>>, sorted[lo + 1]),
                       Times(<<part, 100>>, sorted[lo + 2])))

(* _winsorise_y at the two percentiles of all the values.                   *)
WinsoriseY(values) ==
  IF Len(values) < 2 THEN values
  ELSE [i \in DOMAIN values |->
          Larger(Quantile(values, WinsorPercent),
                 Smaller(values[i], Quantile(values, 100 - WinsorPercent)))]

(* validate: rows without a date go, gaps are filled and tails cut in the   *)
(* order the rows came, and only then the rows are sorted by date. A series *)
(* without any value cannot be prepared (its gaps stay and training fails). *)
Prepare(rows) ==
  LET dated == SelectSeq(rows, LAMBDA r : r.ds # <<>>)
      ys == WinsoriseY(ImputeY([i \in DOMAIN dated |-> dated[i].y]))
      order == SortSeq([i \in DOMAIN dated |-> i],
                       LAMBDA i, j : \/ dated[i].ds[1] < dated[j].ds[1]
                                     \/ dated[i].ds = dated[j].ds /\ i <= j)
  IN [i \in DOMAIN dated |-> [ds |-> dated[order[i]].ds[1], y |-> ys[order[i]]]]

-----------------------------------------------------------------------------
(* Backtesting *)

(* The mean of errors, in percent; none at all of no errors.                *)
MeanPercent(errors) ==
  IF errors = <<>> THEN <<>>
  ELSE <<Reduced(Times(<<100, Len(errors)>>,
                       FoldLeft(LAMBDA s, e : Reduced(Plus(s, e)), <<0, 1>>, errors)))>>

RelativeError(actual, predicted) ==
  LET off == Distance(actual, predicted)
  IN <<off[1] * actual[2], off[2] * AbsDiff(actual[1], 0)>>

(* Mutant: a zero actual counts as a full error.                            *)
MAPEWithZeros(actuals, predictions) ==
  [scored |-> Len(actuals), excluded |-> 0,
   mape |-> MeanPercent([i \in DOMAIN actuals |->
                           IF actuals[i][1] = 0 THEN <<1, 1>>
                           ELSE RelativeError(actuals[i], predictions[i])])]

(* mean_absolute_percentage_error: zero actuals are left out and counted.   *)
MAPE(actuals, predictions) ==
  LET at == SelectSeq([i \in DOMAIN actuals |-> i], LAMBDA i : actuals[i][1] # 0)
  IN [scored |-> Len(at), excluded |-> Len(actuals) - Len(at),
      mape |-> MeanPercent([r \in DOMAIN at |->
                              RelativeError(actuals[at[r]], predictions[at[r]])])]

Unusable(why) == [mape |-> <<>>, scored |-> 0, excluded |-> 0, why |-> why]

(* Mutant: every fold is trained on all that precedes the whole holdout's   *)
(* end.                                                                     *)
TrainingOfAll(series, fold, holdout) == SubSeq(series, 1, Len(series) - fold * holdout)

(* The rows a fold trains on: all before its held-out rows, fold 0's being  *)
(* the last.                                                                *)
Training(series, fold, holdout) ==
  SubSeq(series, 1, Len(series) - (fold + 1) * holdout)

HeldOut(series, fold, holdout) ==
  LET cut == Len(series) - (fold + 1) * holdout IN SubSeq(series, cut + 1, cut + holdout)

(* SeasonalNaiveForecaster: the last period over and over. A training       *)
(* series shorter than the period is repeated as it is.                     *)
SeasonalNaive(train, periods) ==
  LET tail == SubSeq(train, Max({1, Len(train) - NaivePeriod + 1}), Len(train))
  IN IF train = <<>> THEN NoForecast
     ELSE [i \in 1..periods |-> tail[1 + ((i - 1) % Len(tail))]]

(* The candidates; Prophet appears as the library that cannot be used.      *)
Forecast(model, train, periods) ==
  IF model = "naive" THEN SeasonalNaive(train, periods) ELSE NoForecast

(* backtest: a fold that fails or predicts too little ends it.              *)
Backtest(series, model, holdout, folds) ==
  LET Predicted(f) == Forecast(model, Training(series, f, holdout), holdout)
      bad == {f \in 0..(folds - 1) : Len(Predicted(f)) < holdout}
      All(Part(_)) == FlattenSeq([f \in 1..folds |-> Part(f - 1)])
      score == MAPE(All(LAMBDA f : HeldOut(series, f, holdout)),
                    All(LAMBDA f : SubSeq(Predicted(f), 1, holdout)))
  IN CASE Len(series) < MinTrainRows + holdout * folds -> Unusable("insufficient_data")
       [] Len(series) >= MinTrainRows + holdout * folds /\ bad # {} -> Unusable("failed")
       [] OTHER -> score @@ [why |-> IF score.mape = <<>> THEN "insufficient_data" ELSE "none"]

(* load_or_train backtests what preparation made of all the rows, the ones  *)
(* to be held out included.                                                 *)
BacktestPrepared(rows, model, holdout, folds) ==
  LET prepared == Prepare(rows)
  IN Backtest([i \in DOMAIN prepared |-> prepared[i].y], model, holdout, folds)

(* Mutant: a later candidate wins a tie.                                    *)
SelectLastBest(names, results) ==
  LET usable == {i \in DOMAIN names : results[names[i]].mape # <<>>}
      Error(i) == results[names[i]].mape[1]
  IN IF usable = {} THEN "none"
     ELSE names[CHOOSE i \in usable :
                  \A j \in usable : Below(Error(i), Error(j)) \/ (Equals(Error(i), Error(j)) /\ j <= i)]

(* select_best_model over the results: the lowest error among the usable    *)
(* ones, the earlier candidate among equals.                                *)
SelectBest(names, results) ==
  LET usable == {i \in DOMAIN names : results[names[i]].mape # <<>>}
      Error(i) == results[names[i]].mape[1]
  IN IF usable = {} THEN "none"
     ELSE names[CHOOSE i \in usable :
                  \A j \in usable : Below(Error(i), Error(j)) \/ (Equals(Error(i), Error(j)) /\ i <= j)]

(* _train_validated: what becomes of the candidates' results. A metric that *)
(* could not be measured is served unmeasured, one that was measured above  *)
(* the ceiling (0: none) is refused, and Prophet is what is served even     *)
(* where the naive candidate measured better.                               *)
TrainValidated(names, results, ceiling) ==
  LET winner == SelectBest(names, results)
      measured == winner # "none"
  IN [winner |-> winner,
      refused |-> /\ measured /\ ceiling > 0
                  /\ Below(<<ceiling, 1>>, results[winner].mape[1]),
      reason |-> CASE ~measured -> "not_measured"
                   [] measured /\ winner # "prophet" -> "naive_was_better"
                   [] OTHER -> "none"]

-----------------------------------------------------------------------------
(* Deviation *)

(* Mutant: outside the interval is enough.                                  *)
OutsideInterval(actual, row) ==
  [deviates |-> actual < row.lower \/ actual > row.upper,
   side |-> IF actual > row.yhat THEN "above" ELSE "below"]

(* detect_deviation: outside the interval, and more than the threshold away *)
(* from the forecast (in percent of it; everything is far from zero).       *)
DetectDeviation(actual, row) ==
  LET off == AbsDiff(actual, row.yhat)
      far == IF row.yhat = 0 THEN actual # 0
             ELSE 100 * off > DeviationThreshold * AbsDiff(row.yhat, 0)
  IN [deviates |-> (actual < row.lower \/ actual > row.upper) /\ far,
      side |-> IF actual > row.yhat THEN "above" ELSE "below"]

=============================================================================
