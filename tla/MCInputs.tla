---------------------------- MODULE MCInputs ----------------------------
(***************************************************************************)
(* Everything that depends on one request's input alone, over bounded      *)
(* inputs: the pure parts (PageRanges, RateSeries, ArchiveUpload), where   *)
(* the invariants compare what the code makes of an input with what it     *)
(* should be, and the forms of MergeUpload, which is stepped through.      *)
(***************************************************************************)
EXTENDS MergeUpload, PageRanges, RateSeries, ArchiveUpload

CONSTANTS files, files0, other

VARIABLE input

Nothing == [kind |-> "nothing"]

\* Page lists: numbers around 1, 9/10 (string order) and the largest int.
Numbers == {0, 1, 2, 9, 10, 12, MaxInt, MaxInt + 1}
Parts   == {<<>>} \cup {<<n>> : n \in Numbers} \cup {<<n, m>> : n, m \in Numbers}
ProperParts == {<<1>>, <<1, 1>>, <<2>>, <<1, 10>>, <<2, 9>>, <<9, 10>>, <<10>>}
Lists   == {<<p>> : p \in Parts} \cup {<<p, q>> : p \in Parts, q \in {<<1>>, <<>>, <<9, 12>>}}
             \cup {<<p, q, r>> : p, q, r \in ProperParts}

AskSplit ==
  \/ \E n \in 0 .. 12 : input' = [kind |-> "split", mode |-> "all", parts |-> <<>>, pages |-> n]
  \/ \E l \in Lists, n \in {1, 2, 9, 10, 12} :
       input' = [kind |-> "split", mode |-> "ranges", parts |-> l, pages |-> n]

\* Windows that end before, at and after the end of a year; each leg lacks the
\* rates of up to two days (holidays).
Rates(from, days, lost, slope) == [d \in Window(from, days) \ lost |-> 1 + slope * (d % 5)]
Lost(from, days) == {l \in SUBSET Window(from, days) : Cardinality(l) <= 2}

AskSeries ==
  \/ \E n \in 0 .. MaxDays + 1, to \in YearLength .. 2 * YearLength + 1,
        agg \in {"daily", "weekly", "monthly"} :
       input' = [kind |-> "same", days |-> n, to |-> to, agg |-> agg]
  \/ \E n \in {4, MaxDays}, to \in {YearLength, YearLength + 2, 2 * YearLength - 1},
        agg \in {"daily", "weekly", "monthly"} :
       /\ parseRangeDays(n)
       /\ \E l, r \in Lost(to, n) :
            input' = [kind |-> "series", days |-> n, to |-> to, agg |-> agg,
                      left |-> Rates(to, n, l, 1), right |-> Rates(to, n, r, 2)]

AskRate == \E x, y \in 0 .. 60, scale \in {10, 30, 100} :
             input' = [kind |-> "rate", x |-> x, y |-> y, scale |-> scale]

Stems == {<<>>} \cup [1 .. 1 -> {".", " ", "/", "?", "w"}] \cup [1 .. 2 -> {".", " ", "/", "?", "w"}]
           \cup [1 .. 3 -> {".", " ", "/", "?", "w"}] \cup [1 .. 4 -> {".", " ", "/", "?", "w"}]
Ends  == {<<>>, <<".", "Z">>, <<".", "G">>, <<".", "T">>, <<"a", ".", "w">>}

AskUpload ==
  \/ \E env \in {-5, 0, 1, 2, 19, 48, 49, 50, 500}, size \in 0 .. 51 * MB, framing \in 1 .. MB + 1 :
       input' = [kind |-> "size", env |-> env, size |-> size, framing |-> framing]
  \/ \E s \in Stems, e \in Ends, p \in {"zip", "gzip", "other"}, u \in BOOLEAN :
       input' = [kind |-> "name", name |-> s \o e, head |-> [prefix |-> p, ustar |-> u]]

\* Either the form is merged or, if it is empty, one of the other inputs is asked.
Ask == /\ form = <<>> /\ pc = "parse" /\ input = Nothing
       /\ AskSplit \/ AskSeries \/ AskRate \/ AskUpload
       /\ UNCHANGED vars
Answered == input # Nothing /\ input' = Nothing /\ UNCHANGED vars
MergeStep == input = Nothing /\ Next /\ UNCHANGED input

InputInit == input = Nothing /\ Init
InputNext == Ask \/ Answered \/ MergeStep
InputSpec == InputInit /\ [][InputNext]_<<input, vars>>
-----------------------------------------------------------------------------
\* What is delivered for every page list is what was asked for (PageRanges).
SplitDelivers == input.kind = "split" => Delivers(input.mode, input.parts, input.pages)

\* The ZIP does not depend on the order of the ranges (PageRanges).
SplitDeterministic ==
  input.kind = "split" /\ input.mode = "ranges" => Deterministic(input.parts, input.pages)

Points(f) == [i \in 1 .. Cardinality(DOMAIN f) |->
                [date |-> Nth(DOMAIN f, i), rate |-> f[Nth(DOMAIN f, i)]]]
Ones(to, days) == [d \in Window(to, days) |-> Precision]

\* Cross series and same-currency series, aggregated, have the last rate of each
\* period in order (RateSeries).
SeriesAggregated ==
  /\ input.kind = "series" =>
       LastOfEachPeriod(aggregatePoints(combineByDate(Points(input.left), Points(input.right)),
                                        input.agg), input.left, input.right, input.agg)
  /\ input.kind = "same" /\ parseRangeDays(input.days) =>
       LastOfEachPeriod(aggregatePoints(samePair(input.to - input.days, input.to), input.agg),
                        Ones(input.to, input.days), Ones(input.to, input.days), input.agg)

\* The rounding error of a cross rate is bounded (RateSeries).
CrossRounding == input.kind = "rate" => RoundedClose(input.x, input.y, input.scale)

\* The limits of configuration, router, handler and service agree (ArchiveUpload).
UploadLimitsAgree == input.kind = "size" => LimitsAgree(input.env, input.size, input.framing)

\* Every name, accepted or not, is safe once sanitized (ArchiveUpload).
NamesSafe == input.kind = "name" => SafeName(input.name)

\* The stored name keeps its extension (ArchiveUpload).
NamesKeepExtension == input.kind = "name" => ExtensionKept(input.name, input.head)
=============================================================================
