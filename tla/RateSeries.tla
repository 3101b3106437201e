----------------------------- MODULE RateSeries -----------------------------
(***************************************************************************)
(* What a history request does with the points it has: combining the two   *)
(* dollar legs of a cross pair, rounding, and taking the last point of     *)
(* each week or month.  service/currency_service.go, handler/currency.go.  *)
(* Dates are day numbers, a rate is a whole number of 1/Precision.         *)
(***************************************************************************)
EXTENDS Integers, Sequences, FiniteSets

CONSTANTS
  Precision,                      \* of roundRate: 10^4 in the code
  MaxDays,                        \* of parseRangeDays: 365
  WeekLength, MonthLength, YearLength   \* the calendar

ASSUME SeriesAssumption ==
  /\ Precision \in Nat \ {0} /\ MaxDays \in Nat
  /\ WeekLength \in Nat \ {0} /\ MonthLength \in Nat \ {0} /\ YearLength \in Nat \ {0}

\* parseRangeDays accepts 1d to 365d; the window has both its ends.
parseRangeDays(n) == n \in 1 .. MaxDays
Window(endDate, days) == endDate - days .. endDate

\* float64(int64(rate*10000+0.5))/10000, of a product of two rounded rates ...
roundProduct_Truncated(a, b) == (a * b) \div Precision
roundProduct(a, b) == (2 * a * b + Precision) \div (2 * Precision)
\* ... and of a rate that is given as x / scale.
roundRate_Truncated(x, scale) == (x * Precision) \div scale
roundRate(x, scale) == (2 * x * Precision + scale) \div (2 * scale)

\* The k-th smallest number of a set.
Nth(S, k) == CHOOSE n \in S : Cardinality({m \in S : m <= n}) = k

\* left and right are in the order of their dates; a date has one rate.
combineByDate(left, right) ==
  LET rightMap == [d \in {right[i].date : i \in DOMAIN right} |->
                     (CHOOSE i \in DOMAIN right : right[i].date = d)]
      common == {i \in DOMAIN left : left[i].date \in DOMAIN rightMap}
      combined(p) == [date |-> p.date, rate |-> roundProduct(p.rate, right[rightMap[p.date]].rate)]
  IN  [k \in 1 .. Cardinality(common) |-> combined(left[Nth(common, k)])]

\* from = to: the rate 1 for every day.
samePair(startDate, endDate) ==
  [i \in 1 .. endDate - startDate + 1 |-> [date |-> startDate + i - 1, rate |-> Precision]]

Year(d)  == d \div YearLength
Week(d)  == d \div WeekLength
\* time.ISOWeek: a week belongs to the year of its middle day.
WeekYear(w) == Year(w * WeekLength + WeekLength \div 2)
ISOWeek(d) == <<WeekYear(Week(d)),
                Cardinality({w \in 0 .. Week(d) : WeekYear(w) = WeekYear(Week(d))})>>

bucket_CalendarYear(aggregation, d) ==
  CASE aggregation = "weekly"  -> <<Year(d), ISOWeek(d)[2]>>
    [] aggregation = "monthly" -> <<Year(d), (d % YearLength) \div MonthLength>>
    [] OTHER -> <<d>>
bucket(aggregation, d) ==
  CASE aggregation = "weekly"  -> ISOWeek(d)
    [] aggregation = "monthly" -> <<Year(d), (d % YearLength) \div MonthLength>>
    [] OTHER -> <<d>>

\* One pass: a bucket keeps its place, its point is the last one seen.
aggregatePoints(points, aggregation) ==
  IF aggregation = "daily" THEN points
  ELSE LET after[n \in 0 .. Len(points)] ==
             IF n = 0 THEN <<>>
             ELSE LET acc == after[n - 1]
                      p == points[n]
                      same == {i \in DOMAIN acc :
                                 bucket(aggregation, acc[i].date) = bucket(aggregation, p.date)}
                  IN  IF same = {} THEN Append(acc, p)
                      ELSE [acc EXCEPT ![CHOOSE i \in same : TRUE] = p]
       IN  after[Len(points)]
-----------------------------------------------------------------------------
(* What it should be. *)

\* In which week or month a day is, counted without years.
Period(aggregation, d) ==
  CASE aggregation = "daily" -> d
    [] aggregation = "weekly" -> Week(d)
    [] aggregation = "monthly" -> Year(d) * YearLength + (d % YearLength) \div MonthLength

\* An answered series is in the order of time and has, of the dates on which
\* both legs (date -> rate) have one, the last of each day, week or month, with
\* its own rate, also where a window crosses the end of the year.
LastOfEachPeriod(points, left, right, aggregation) ==
  LET both == DOMAIN left \cap DOMAIN right IN
  /\ {points[i].date : i \in DOMAIN points} =
       {d \in both : \A e \in both : Period(aggregation, e) = Period(aggregation, d) => e <= d}
  /\ \A i, j \in DOMAIN points : i < j => points[i].date < points[j].date
  /\ \A i \in DOMAIN points :
       points[i].rate = roundProduct(left[points[i].date], right[points[i].date])

\* A cross rate is off the product of its legs by no more than the three
\* roundings on the way there can add up to (all sides times 4 P^2 scale^2).
RoundedClose(x, y, scale) ==
  LET P == Precision
      c == roundProduct(roundRate(x, scale), roundRate(y, scale))
      off == 4 * c * P * scale * scale - 4 * P * P * x * y
      bound == 2 * P * scale * scale + 2 * P * scale * (x + y) + scale * scale
  IN  off <= bound /\ -off <= bound
=============================================================================
