---------------------------- MODULE CurrencyRates ----------------------------
(***************************************************************************)
(* Exchange rates: conversions, historical series and the warm-up, over    *)
(* the in-memory cache, the exchange_rates table and the provider.         *)
(* service/currency_service.go, repository/exchange_rate.go,               *)
(* scheduler/currency_warmup.go.                                           *)
(* A pair has one rate a day, fixed when the provider issues it, so a rate *)
(* is told by its date; date d begins (UTC midnight) at time d * Day.      *)
(***************************************************************************)
EXTENDS Naturals, Sequences, SequencesExt, FiniteSetsExt

CONSTANTS
  Currencies, USD,
  Requests, Warmups,
  Conversions,         \* the <<from, to>> the conversion requests ask for
  Series,              \* the <<from, to>> the history requests ask for
  None,
  Day,                 \* the time units of a day
  CacheTTL, StaleWindow, HistoryRetention, WarmupLimit,
  RangeDays,           \* the range of the history requests
  MaxLag,              \* days (weekends, holidays) the provider may not issue a rate
  MaxLatency,          \* how long a step of a request may take
  MaxTime, MaxCount, MaxCrashes  \* bounds on the clock, on requests per pair, on restarts

Workers == Requests \cup Warmups
Pair    == Currencies \X Currencies
Date    == 0 .. (MaxTime \div Day)

\* The rate kept for one day: fetched_at and expires_at; the newest one read; and
\* what the cache has.
Stored == [at : Nat, expires : Nat]
Rate   == [date : Date, at : Nat, expires : Nat]
Entry  == [date : Date, expires : Nat]

ASSUME RatesAssumption ==
  /\ IsFiniteSet(Currencies) /\ None \notin Nat \cup Stored \cup Rate \cup Entry
  /\ USD \in Currencies /\ Conversions \subseteq Pair /\ Series \subseteq Pair
  /\ Requests \cap Warmups = {}
  /\ Day \in Nat \ {0} /\ CacheTTL \in Nat /\ StaleWindow \in Nat /\ RangeDays \in Nat
  /\ HistoryRetention \in Nat /\ WarmupLimit \in Nat \ {0} /\ MaxLag \in Nat
  /\ MaxLatency \in Nat /\ MaxTime \in Nat /\ MaxCount \in Nat /\ MaxCrashes \in Nat

VARIABLES
  now,
  issued,        \* the provider: date -> when its rate came out, or None
  latestCache,   \* pair -> [date, expires] or None
  table,         \* exchange_rates: <<pair, date>> -> row or None
  requestCount,  \* pair -> number of requests
  work,          \* the requests and the warm-up runs in progress
  crashes

vars == <<now, issued, latestCache, table, requestCount, work, crashes>>

Steps == {"idle", "leg", "database", "ask", "persist", "keep", "rows", "askseries",
          "persistseries", "next", "answered", "failed"}
Work  == [pc : Steps, task : {"none", "convert", "history", "warm"}, todo : Seq(Pair),
          legs : Seq(Pair), start : Nat, row : Rate \cup {None}, series : SUBSET Date,
          stale : BOOLEAN, got : SUBSET (Pair \X Date),
          err : {"none", "internal", "ErrRateUnavailable", "wrapped ErrRateUnavailable"}]

Idle == [pc |-> "idle", task |-> "none", todo |-> <<>>, legs |-> <<>>, start |-> 0,
         row |-> None, series |-> {}, stale |-> FALSE, got |-> {}, err |-> "none"]

Init ==
  /\ now = 0 /\ crashes = 0
  /\ issued = [d \in Date |-> IF d = 0 THEN 0 ELSE None]
  /\ latestCache = [p \in Pair |-> None]
  /\ table = [r \in Pair \X Date |-> None]
  /\ requestCount = [p \in Pair |-> 0]
  /\ work = [w \in Workers |-> Idle]

\* A pair without the dollar is resolved over the dollar.
Legs(p) == IF p[1] # USD /\ p[2] # USD THEN <<<<p[1], USD>>, <<USD, p[2]>>>> ELSE <<p>>

Leg(w) == Head(work[w].legs)

\* The leg is resolved: got grows by the leg's date(s); a conversion or a series
\* is answered after its last leg, the warm-up goes on to its next pair.
Resolved(w, dates, stale) ==
  LET r == [work[w] EXCEPT !.legs = Tail(@), !.stale = @ \/ stale, !.row = None,
                           !.series = {}, !.got = @ \cup ({Leg(w)} \X dates)]
      done == IF r.task = "warm" THEN "next" ELSE "answered"
  IN  work' = [work EXCEPT ![w] = [r EXCEPT !.pc = IF r.legs = <<>> THEN done
                                     ELSE IF r.task = "history" THEN "rows" ELSE "leg"]]

\* The error ends the request; the warm-up skips the pair.
Failed(w, e) ==
  work' = [work EXCEPT ![w] = IF @.task = "warm"
                              THEN [@ EXCEPT !.pc = "next", !.legs = <<>>, !.row = None]
                              ELSE [@ EXCEPT !.pc = "failed", !.err = e, !.legs = <<>>,
                                             !.series = {}, !.got = {}]]
-----------------------------------------------------------------------------
(* Conversions: cache, then database, then provider. *)

incrementPair(p) ==
  /\ requestCount[p] < MaxCount
  /\ requestCount' = [requestCount EXCEPT ![p] = @ + 1]

\* from = to needs no rate, but counts.
Convert(w, p) ==
  /\ work[w].pc \in {"idle", "answered", "failed"} /\ w \in Requests
  /\ incrementPair(p)
  /\ work' = [work EXCEPT ![w] =
       IF p[1] = p[2] THEN [Idle EXCEPT !.pc = "answered", !.task = "convert"]
       ELSE [Idle EXCEPT !.pc = "leg", !.task = "convert", !.legs = Legs(p), !.start = now]]
  /\ UNCHANGED <<now, issued, latestCache, table, crashes>>

Cached_NoExpiry(p) == latestCache[p] # None
Cached(p) == latestCache[p] # None /\ now < latestCache[p].expires

CacheHit(w) ==
  /\ work[w].pc = "leg" /\ Cached(Leg(w))
  /\ Resolved(w, {latestCache[Leg(w)].date}, FALSE)
  /\ UNCHANGED <<now, issued, latestCache, table, requestCount, crashes>>

CacheMiss(w) ==
  /\ work[w].pc = "leg" /\ ~Cached(Leg(w))
  /\ work' = [work EXCEPT ![w].pc = "database", ![w].start = now]
  /\ UNCHANGED <<now, issued, latestCache, table, requestCount, crashes>>

\* ORDER BY rate_date DESC: of the rows it may read, the one of the newest date.
Rows(p) == {d \in Date : table[<<p, d>>] # None}
Row(p, d) == [date |-> d, at |-> table[<<p, d>>].at, expires |-> table[<<p, d>>].expires]
GetLatest(p) == IF Rows(p) = {} THEN None ELSE Row(p, Max(Rows(p)))

Fresh(w, r) == work[w].start < r.expires
InStaleWindow_Dropped(w, r) == TRUE
InStaleWindow(w, r) == work[w].start <= r.at + StaleWindow

\* A fresh row, or an expired one within the stale window, is the answer; a
\* failed query is no row.
ReadDatabase(w) ==
  /\ work[w].pc = "database"
  /\ \E r \in {GetLatest(Leg(w)), None} :
       work' = [work EXCEPT ![w].row = r,
                            ![w].stale = @ \/ (r # None /\ ~Fresh(w, r) /\ InStaleWindow(w, r)),
                            ![w].pc = IF r # None /\ (Fresh(w, r) \/ InStaleWindow(w, r))
                                      THEN "keep" ELSE "ask"]
  /\ UNCHANGED <<now, issued, latestCache, table, requestCount, crashes>>

\* The reply carries the newest rate, dated by its day; it expires by the
\* clock read before the call.
Newest == Max({d \in Date : issued[d] # None})

AskProvider(w) ==
  /\ work[w].pc = "ask"
  /\ work' = [work EXCEPT ![w].pc = "persist",
                ![w].row = [date |-> Newest, at |-> Newest * Day,
                            expires |-> work[w].start + CacheTTL]]
  /\ UNCHANGED <<now, issued, latestCache, table, requestCount, crashes>>

\* No reply: the error is wrapped.  A reply without the currency: it is not.
ProviderFails(w) ==
  /\ work[w].pc = "ask"
  /\ \E e \in {"wrapped ErrRateUnavailable", "ErrRateUnavailable"} : Failed(w, e)
  /\ UNCHANGED <<now, issued, latestCache, table, requestCount, crashes>>

Upserted_NoExpiry(p, r) == [table EXCEPT ![<<p, r.date>>] = [at |-> r.at, expires |-> None]]
Upserted(p, r) == [table EXCEPT ![<<p, r.date>>] = [at |-> r.at, expires |-> r.expires]]

Upsert(w) ==
  /\ work[w].pc = "persist"
  /\ table' = Upserted(Leg(w), work[w].row)
  /\ work' = [work EXCEPT ![w].pc = "keep"]
  /\ UNCHANGED <<now, issued, latestCache, requestCount, crashes>>

\* The insert is refused, or done and not confirmed: the rate is not given out.
UpsertFails_Served(w) ==
  /\ work[w].pc = "persist"
  /\ work' = [work EXCEPT ![w].pc = "keep"]
  /\ UNCHANGED <<now, issued, latestCache, table, requestCount, crashes>>

UpsertFails(w) ==
  /\ work[w].pc = "persist"
  /\ table' \in {table, Upserted(Leg(w), work[w].row)}
  /\ Failed(w, "internal")
  /\ UNCHANGED <<now, issued, latestCache, requestCount, crashes>>

\* cacheSet, with a clock of its own, and the leg's return.
CacheSet(w) ==
  /\ work[w].pc = "keep"
  /\ latestCache' = [latestCache EXCEPT ![Leg(w)] =
                       [date |-> work[w].row.date, expires |-> now + CacheTTL]]
  /\ Resolved(w, {work[w].row.date}, FALSE)
  /\ UNCHANGED <<now, issued, table, requestCount, crashes>>
-----------------------------------------------------------------------------
(* Historical series: database, then provider, then database again. *)

InRange(w, d) == d + RangeDays >= work[w].start \div Day /\ d <= work[w].start \div Day

Historical(w, p) ==
  /\ work[w].pc \in {"idle", "answered", "failed"} /\ w \in Requests
  /\ incrementPair(p)
  /\ work' = [work EXCEPT ![w] =
       IF p[1] = p[2] THEN [Idle EXCEPT !.pc = "answered", !.task = "history"]
       ELSE [Idle EXCEPT !.pc = "rows", !.task = "history", !.legs = Legs(p), !.start = now]]
  /\ UNCHANGED <<now, issued, latestCache, table, crashes>>

\* The rows suffice when the last is at most a day older than the range's end.
ReadsToEnd(w, s) == s # {} /\ work[w].start <= (Max(s) + 1) * Day

SeriesFromRows(w) ==
  /\ work[w].pc = "rows"
  /\ LET s == {d \in Rows(Leg(w)) : InRange(w, d)}
     IN  ReadsToEnd(w, s) /\ Resolved(w, s, FALSE)
  /\ UNCHANGED <<now, issued, latestCache, table, requestCount, crashes>>

\* The rows do not suffice, or the query failed.
RowsMissing(w) ==
  /\ work[w].pc = "rows"
  /\ LET s == {d \in Rows(Leg(w)) : InRange(w, d)}
     IN  \/ /\ ~ReadsToEnd(w, s)
            /\ work' = [work EXCEPT ![w].pc = "askseries", ![w].series = s,
                          ![w].row = IF s = {} THEN None ELSE Row(Leg(w), Max(s))]
         \/ work' = [work EXCEPT ![w].pc = "askseries"]
  /\ UNCHANGED <<now, issued, latestCache, table, requestCount, crashes>>

AskSeries(w) ==
  /\ work[w].pc = "askseries"
  /\ LET s == {d \in Date : issued[d] # None /\ InRange(w, d)}
     IN  /\ s # {}
         /\ work' = [work EXCEPT ![w].pc = "persistseries", ![w].series = s,
                       ![w].row = [date |-> Max(s), at |-> now, expires |-> now + CacheTTL]]
  /\ UNCHANGED <<now, issued, latestCache, table, requestCount, crashes>>

\* No reply, or an empty one: the rows read, if the last was fetched lately.
SeriesFails(w) ==
  /\ work[w].pc = "askseries"
  /\ IF work[w].row # None /\ now <= work[w].row.at + StaleWindow
     THEN Resolved(w, work[w].series, TRUE)
     ELSE Failed(w, "wrapped ErrRateUnavailable")
  /\ UNCHANGED <<now, issued, latestCache, table, requestCount, crashes>>

\* One transaction for the whole series.
SeriesUpserted(w) ==
  [r \in Pair \X Date |-> IF r[1] = Leg(w) /\ r[2] \in work[w].series
                          THEN [at |-> work[w].row.at, expires |-> work[w].row.expires]
                          ELSE table[r]]

UpsertMany_NotAtomic(w) ==
  /\ work[w].pc = "persistseries"
  /\ \E s \in SUBSET work[w].series :
       table' = [r \in Pair \X Date |-> IF r[1] = Leg(w) /\ r[2] \in s
                                        THEN SeriesUpserted(w)[r] ELSE table[r]]
  /\ Resolved(w, work[w].series, FALSE)
  /\ UNCHANGED <<now, issued, latestCache, requestCount, crashes>>

UpsertMany(w) ==
  /\ work[w].pc = "persistseries"
  /\ table' = SeriesUpserted(w)
  /\ Resolved(w, work[w].series, FALSE)
  /\ UNCHANGED <<now, issued, latestCache, requestCount, crashes>>

UpsertManyFails(w) ==
  /\ work[w].pc = "persistseries"
  /\ table' \in {table, SeriesUpserted(w)}
  /\ Failed(w, "internal")
  /\ UNCHANGED <<now, issued, latestCache, requestCount, crashes>>
-----------------------------------------------------------------------------
(* The warm-up resolves the most requested pairs, then prunes. *)

\* Most requested first; pairs of equal count come in any order.
topPairs ==
  {SubSeq(s, 1, IF Len(s) > WarmupLimit THEN WarmupLimit ELSE Len(s)) :
     s \in {t \in SetToSeqs({p \in Pair : requestCount[p] > 0}) :
              \A i, j \in DOMAIN t : i < j => requestCount[t[i]] >= requestCount[t[j]]}}

WarmMostRequested(w) ==
  /\ work[w].pc = "idle" /\ w \in Warmups
  /\ \E s \in topPairs : work' = [work EXCEPT ![w] = [Idle EXCEPT !.pc = "next", !.task = "warm",
                                                                 !.todo = s, !.start = now]]
  /\ UNCHANGED <<now, issued, latestCache, table, requestCount, crashes>>

NextPair(w) ==
  /\ work[w].pc = "next" /\ work[w].todo # <<>>
  /\ work' = [work EXCEPT ![w] = [Idle EXCEPT !.pc = "leg", !.task = "warm", !.start = now,
                                              !.todo = Tail(work[w].todo),
                                              !.legs = Legs(Head(work[w].todo))]]
  /\ UNCHANGED <<now, issued, latestCache, table, requestCount, crashes>>

\* DELETE ... WHERE rate_date < cutoff::date.
Pruned(r) == now >= HistoryRetention /\ r[2] < (now - HistoryRetention) \div Day

PruneOlderThan(w) ==
  /\ work[w].pc = "next" /\ work[w].todo = <<>>
  /\ table' = [r \in Pair \X Date |-> IF Pruned(r) THEN None ELSE table[r]]
  /\ work' = [work EXCEPT ![w] = Idle]
  /\ UNCHANGED <<now, issued, latestCache, requestCount, crashes>>

PruneFails(w) ==
  /\ work[w].pc = "next" /\ work[w].todo = <<>>
  /\ work' = [work EXCEPT ![w] = Idle]
  /\ UNCHANGED <<now, issued, latestCache, table, requestCount, crashes>>
-----------------------------------------------------------------------------
\* The provider issues the day's rate.
Issue ==
  /\ issued[now \div Day] = None
  /\ issued' = [issued EXCEPT ![now \div Day] = now]
  /\ UNCHANGED <<now, latestCache, table, requestCount, work, crashes>>

\* Cache and counts are in memory, the table is not.
Crash ==
  /\ crashes < MaxCrashes
  /\ crashes' = crashes + 1
  /\ latestCache' = [p \in Pair |-> None]
  /\ requestCount' = [p \in Pair |-> 0]
  /\ work' = [w \in Workers |-> Idle]
  /\ UNCHANGED <<now, issued, table>>

Busy(w) == work[w].pc \notin {"idle", "answered", "failed"}

\* Provider calls are cut off after FX_HTTP_TIMEOUT; the day's rate may fail to
\* come out for MaxLag days.
Tick ==
  /\ now < MaxTime
  /\ \A w \in Workers : Busy(w) => now < work[w].start + MaxLatency
  /\ (now + 1) \div Day <= Newest + MaxLag
  /\ now' = now + 1
  /\ UNCHANGED <<issued, latestCache, table, requestCount, work, crashes>>

Resolve(w) ==
  \/ CacheHit(w) \/ CacheMiss(w) \/ ReadDatabase(w) \/ AskProvider(w) \/ ProviderFails(w)
  \/ Upsert(w) \/ UpsertFails(w) \/ CacheSet(w)

ResolveSeries(w) ==
  \/ SeriesFromRows(w) \/ RowsMissing(w) \/ AskSeries(w) \/ SeriesFails(w)
  \/ UpsertMany(w) \/ UpsertManyFails(w)

Warm(w) == WarmMostRequested(w) \/ NextPair(w) \/ PruneOlderThan(w) \/ PruneFails(w)

Next ==
  \/ \E w \in Workers : Resolve(w) \/ ResolveSeries(w) \/ Warm(w)
  \/ \E w \in Requests, p \in Conversions : Convert(w, p)
  \/ \E w \in Requests, p \in Series : Historical(w, p)
  \/ Issue \/ Crash \/ Tick

Spec == Init /\ [][Next]_vars
-----------------------------------------------------------------------------
(* Properties.                                                              *)

\* Every variable has its type.
TypeOK ==
  /\ now \in Nat /\ crashes \in Nat
  /\ issued \in [Date -> Nat \cup {None}]
  /\ latestCache \in [Pair -> Entry \cup {None}]
  /\ table \in [Pair \X Date -> Stored \cup {None}]
  /\ requestCount \in [Pair -> Nat] /\ work \in [Workers -> Work]

Longer(a, b) == IF a > b THEN a ELSE b

\* How long ago a rate that is answered may have been superseded: a row lasts
\* CacheTTL or serves in the stale window, the cache keeps it CacheTTL more; and
\* the fetch, the reader and both legs of a cross pair may each be slow.
AgeBound == CacheTTL + Longer(CacheTTL, StaleWindow) + 4 * MaxLatency

\* Flagged or not, from whatever source, no conversion and no series is answered
\* with a newest rate superseded AgeBound ago: each copy of a rate renews its
\* lifetime, and requests, the warm-up and history requests rewrite cache and
\* table in any order.
AnswerAge ==
  [][\A w \in Requests :
       work[w].pc # "answered" /\ work'[w].pc = "answered" =>
         \A g \in work'[w].got :
           \/ \E h \in work'[w].got : h[1] = g[1] /\ h[2] > g[2]
           \/ \A d \in Date : d > g[2] /\ issued[d] # None => now < issued[d] + AgeBound]_vars

\* What the cache still serves, the table has: a restart, which empties the
\* cache, loses no rate, although pruning and the cache know nothing of each other.
CacheBacked ==
  \A p \in Pair : Cached(p) => table[<<p, latestCache[p].date>>] # None

\* FX_STALE_WINDOW, "Allowed stale window if provider fails" (README.md): with a
\* row obtained from the provider within the window, a conversion does not fail.
FallbackWithinWindow ==
  \A w \in Requests :
    work[w].pc = "failed" /\ work[w].task = "convert" /\ work[w].row # None
      /\ work[w].err = "wrapped ErrRateUnavailable"
      => work[w].start + CacheTTL > work[w].row.expires + StaleWindow

\* "Look-back window, e.g. 7d, 30d, 90d, 365d" (api/openapi.yaml): a series that
\* is not flagged stale has every rate of the window that was issued before it began.
WindowComplete ==
  \A w \in Requests :
    work[w].pc = "answered" /\ work[w].task = "history" /\ ~work[w].stale =>
      \A g \in work[w].got, d \in Date :
        issued[d] # None /\ issued[d] < work[w].start /\ InRange(w, d) => <<g[1], d>> \in work[w].got
=============================================================================
