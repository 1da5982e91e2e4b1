----------------------------- MODULE TokenMetrics -----------------------------
(***************************************************************************)
(* The Token metrics Lambda (lambda/token_metrics/index.py): usage is      *)
(* published to CloudWatch under dimensions, and a collection every 15     *)
(* minutes sums the day and raises the budget alarm.  CloudWatch keeps a   *)
(* metric per set of dimensions.                                           *)
(***************************************************************************)
EXTENDS Naturals

CONSTANTS
  Budget,    \* DAILY_TOKEN_BUDGET; the cost budget is handled alike
  MaxUse,    \* bound: tokens of one report
  MaxTotal   \* bound: tokens of one day

ASSUME TokenMetricsAssumption == Budget \in Nat /\ MaxUse \in Nat /\ MaxTotal \in Nat

VARIABLES
  plain,     \* today's tokens published under Environment alone
  ofUsers,   \* today's tokens published under Environment and UserId
  collect,   \* the collection: "idle", "started", "summed"
  floor,     \* history: tokens of the day the collection could see when it started
  sum,       \* total_tokens
  blind,     \* get_metric_statistics failed: its exception counts as 0
  alarm,     \* the last collection's outcome: "none", "quiet", "raised", "lost"
  last,      \* tokens of the day that ended since the collection started
  rolled     \* midnight passed since the collection started

metricVars == <<plain, ofUsers, collect, floor, sum, blind, alarm, last, rolled>>

MetricsInit ==
  /\ plain = 0 /\ ofUsers = 0
  /\ collect = "idle" /\ floor = 0 /\ sum = 0
  /\ blind = FALSE /\ alarm = "none" /\ last = 0 /\ rolled = FALSE
-----------------------------------------------------------------------------
\* report_usage: with a user id the value is not part of the metric that has
\* the Environment dimension alone.
ReportUsage ==
  /\ \E n \in 1..MaxUse, user \in BOOLEAN :
       /\ plain + ofUsers + n <= MaxTotal
       /\ IF user THEN ofUsers' = ofUsers + n /\ UNCHANGED plain
                  ELSE plain' = plain + n /\ UNCHANGED ofUsers
  /\ UNCHANGED <<collect, floor, sum, blind, alarm, last, rolled>>

\* handler: the day is fixed.
CollectionStarts ==
  /\ collect = "idle"
  /\ collect' = "started" /\ floor' = plain /\ last' = 0 /\ rolled' = FALSE
  /\ alarm' = "none"
  /\ UNCHANGED <<plain, ofUsers, sum, blind>>

\* Mutant: the day is looked up a second time.
SumOfCurrentDay == plain

\* Mutant: periods that overlap count a value twice.
SumPerMetric == 2 * (last + plain)

\* The query names the Environment dimension alone, and goes from the midnight
\* before the collection started until now: two days' values when that is past
\* the next one.
MetricSum == last + plain

\* _get_metric_sum: an exception counts as no usage.
ReadSum ==
  /\ collect = "started"
  /\ \/ sum' = MetricSum /\ blind' = FALSE
     \/ sum' = 0 /\ blind' = TRUE
  /\ collect' = "summed"
  /\ UNCHANGED <<plain, ofUsers, floor, alarm, last, rolled>>

\* Mutant: the alarm comes when the budget is reached.
ReachesBudget(n) == n >= Budget

ExceedsBudget(n) == n > Budget

\* _send_alarm: a failure is only logged.
SendAlarm == alarm' \in {"raised", "lost"}

\* Without a topic the alarm is lost.
Evaluate ==
  /\ collect = "summed"
  /\ IF ExceedsBudget(sum) THEN SendAlarm ELSE alarm' = "quiet"
  /\ collect' = "idle"
  /\ UNCHANGED <<plain, ofUsers, floor, sum, blind, last, rolled>>

\* A collection takes less than a day.
Midnight ==
  /\ ~rolled \/ collect = "idle"
  /\ plain' = 0 /\ ofUsers' = 0 /\ last' = plain /\ rolled' = TRUE
  /\ UNCHANGED <<collect, floor, sum, blind, alarm>>

MetricsNext == ReportUsage \/ CollectionStarts \/ ReadSum \/ Evaluate \/ Midnight

MetricsSpec == MetricsInit /\ [][MetricsNext]_metricVars
-----------------------------------------------------------------------------
MetricsTypeOK ==
  /\ plain \in 0..MaxTotal /\ ofUsers \in 0..MaxTotal /\ last \in 0..MaxTotal
  /\ collect \in {"idle", "started", "summed"}
  /\ floor \in 0..MaxTotal /\ sum \in 0..(2 * MaxTotal)
  /\ blind \in BOOLEAN /\ rolled \in BOOLEAN
  /\ alarm \in {"none", "quiet", "raised", "lost"}

\* An alarm is about one day's usage, as long as midnight did not pass while it
\* was computed or since (token_metrics/index.py:48, 68, 150).
AlarmMeansOverBudget == alarm = "raised" /\ ~rolled => plain > Budget

\* Usage beyond the budget that was published (without a user id) before a
\* collection started is reported by it, at midnight too, unless CloudWatch
\* could not be read (token_metrics/index.py:148-167).
NoOverrunMissed == alarm = "quiet" /\ ~blind => floor <= Budget

\* A collection raises the alarm when it must, and only then.
AlarmIsTrue == AlarmMeansOverBudget /\ NoOverrunMissed
=============================================================================
