------------------------ MODULE CurrencyRatesProofs ------------------------
(***************************************************************************)
(* Theorems about CurrencyRates for any currencies, requests and warm-ups, *)
(* and any lifetimes.                                                      *)
(***************************************************************************)
EXTENDS CurrencyRates, FiniteSetTheorems, WellFoundedInduction, TLAPS

-----------------------------------------------------------------------------
(* Arithmetic. *)

\* Dates that are bounded have a last one.
LEMMA MaxDate ==
  ASSUME NEW S \in SUBSET Nat, NEW b \in Nat, \A d \in S : d <= b, S # {}
  PROVE  Max(S) \in S /\ \A d \in S : d <= Max(S)
<1> DEFINE T == {b - d : d \in S}
           R == {p \in Nat \X Nat : p[1] < p[2]}
<1>1. T \subseteq Nat /\ T # {}
  <2>1. \A d \in S : b - d \in Nat
    OBVIOUS
  <2>2. PICK d \in S : TRUE
    OBVIOUS
  <2>3. b - d \in T
    BY <2>2
  <2> QED
    BY <2>1, <2>3
<1>2. IsWellFoundedOn(R, Nat)
  BY NatLessThanWellFounded DEF OpToRel
<1>3. \A x, y \in Nat : x < y => <<x, y>> \in R
  OBVIOUS
<1> HIDE DEF R, T
<1>4. PICK x \in T : \A y \in T : <<y, x>> \notin R
  BY <1>1, <1>2, WFMin
<1>5. PICK m \in S : x = b - m
  BY DEF T
<1>6. ASSUME NEW d \in S PROVE m >= d
  <2>1. b - d \in T
    BY DEF T
  <2>2. ~(b - d < x)
    BY <1>1, <1>3, <1>4, <2>1
  <2> QED
    BY <1>5, <2>2
<1>7. \E y \in S : \A d \in S : y >= d
  BY <1>6
<1>8. Max(S) \in S /\ \A d \in S : Max(S) >= d
  BY <1>7 DEF Max
<1> QED
  BY <1>8

\* The arithmetic of days.
LEMMA Days ==
  ASSUME NEW D \in Nat \ {0}, NEW x \in Nat, NEW y \in Nat, NEW k \in Nat
  PROVE  /\ x \div D \in Nat /\ 0 \div D = 0
         /\ x <= y => x \div D <= y \div D
         /\ x + k * D <= y => x \div D + k <= y \div D
         /\ k <= x \div D => k * D <= x
         /\ k * D \in Nat
  OBVIOUS

\* The last moment at which the rate of date d may be the newest there is.
LastUse(d) == (d + MaxLag + 1) * Day - 1

\* What a rate lives at most after that: as a row, then as a copy in the cache.
Lifetime == 2 * MaxLatency + Longer(CacheTTL, StaleWindow) + CacheTTL

\* The history is kept for longer than any rate is served.  The code does not
\* compare the settings; the defaults (a year, 6 hours, 30 minutes) are far apart.
HistoryOutlives == HistoryRetention >= Lifetime + MaxLag * Day

LEMMA Settings ==
  /\ Day \in Nat \ {0} /\ CacheTTL \in Nat /\ StaleWindow \in Nat /\ MaxLag \in Nat
  /\ MaxLatency \in Nat /\ HistoryRetention \in Nat /\ RangeDays \in Nat /\ MaxTime \div Day \in Nat
  /\ Longer(CacheTTL, StaleWindow) \in Nat /\ Lifetime \in Nat
  /\ CacheTTL <= Longer(CacheTTL, StaleWindow) /\ StaleWindow <= Longer(CacheTTL, StaleWindow)
  BY RatesAssumption DEF Longer, Lifetime

LEMMA DayOf ==
  ASSUME NEW x \in Nat, NEW y \in Nat, x <= y
  PROVE  x \div Day \in Nat /\ y \div Day \in Nat /\ x \div Day <= y \div Day
<1>1. Day \in Nat \ {0}
  BY Settings
<1> QED
  BY <1>1, Days

LEMMA LastUseIs ==
  ASSUME NEW d \in Nat
  PROVE  /\ LastUse(d) \in Nat
         /\ \A t \in Nat : t \div Day <= d + MaxLag => t <= LastUse(d)
  BY Settings DEF LastUse

\* What is used no later is not pruned.
LEMMA NotPruned ==
  ASSUME HistoryOutlives, NEW p \in Pair, NEW d \in Date, now \in Nat, now <= LastUse(d) + Lifetime
  PROVE  ~Pruned(<<p, d>>)
<1>1. Day \in Nat \ {0} /\ MaxLag \in Nat /\ HistoryRetention \in Nat /\ Lifetime \in Nat /\ d \in Nat
  BY Settings DEF Date
<1>2. CASE now >= HistoryRetention
  <2> DEFINE x == now - HistoryRetention
  <2>1. x \in Nat
    BY <1>1, <1>2
  <2>2. x + MaxLag * Day <= LastUse(d)
    BY <1>1, <1>2 DEF HistoryOutlives, LastUse
  <2>3. x < (d + 1) * Day
    BY <1>1, <2>1, <2>2 DEF LastUse
  <2>4. d + 1 <= x \div Day => (d + 1) * Day <= x
    BY <1>1, <2>1, Days
  <2>5. x \div Day \in Nat /\ (d + 1) * Day \in Nat
    BY <1>1, <2>1, Days
  <2> HIDE DEF x
  <2>6. ~(d < x \div Day)
    BY <1>1, <2>1, <2>3, <2>4, <2>5
  <2> QED
    BY <2>6 DEF Pruned, x
<1> QED
  BY <1>2 DEF Pruned
-----------------------------------------------------------------------------
(* The inductive invariant. *)

Latest    == {"leg", "database", "ask", "persist", "keep"}
OfSeries  == {"rows", "askseries", "persistseries"}

\* The provider is never ahead of the clock and never more than MaxLag days behind.
ProviderOK ==
  /\ \A d \in Date : issued[d] # None => d <= now \div Day
  /\ \E d \in Date : issued[d] # None /\ now \div Day <= d + MaxLag

IssuedBy(t) == \E d \in Date : issued[d] # None /\ d <= t \div Day /\ t \div Day <= d + MaxLag

\* A row of date d was fetched while d could be the newest date.
InTime(d, r) == /\ r.at <= LastUse(d) + MaxLatency
                /\ r.expires <= LastUse(d) + MaxLatency + CacheTTL

\* The newest row of a pair was fetched in time, whatever rewrote the older ones.
RowsOK(p) ==
  \A d \in Date : table[<<p, d>>] # None =>
    InTime(d, table[<<p, d>>]) \/ \E e \in Date : e > d /\ table[<<p, e>>] # None

CacheOK(p) ==
  latestCache[p] # None => /\ latestCache[p].expires <= LastUse(latestCache[p].date) + Lifetime
                           /\ HistoryOutlives /\ Cached(p) =>
                                table[<<p, latestCache[p].date>>] # None

\* What a request, or the warm-up, knows between its steps.
WorkOK(w) ==
  /\ work[w].pc \in Latest \cup OfSeries => work[w].legs # <<>>
  /\ work[w].pc \in Latest => work[w].task # "history"
  /\ work[w].pc \in OfSeries => work[w].task = "history" /\ IssuedBy(work[w].start)
  /\ Busy(w) => work[w].start <= now /\ now <= work[w].start + MaxLatency
  /\ work[w].pc = "persist" => /\ work[w].row # None /\ work[w].start <= LastUse(work[w].row.date)
                               /\ InTime(work[w].row.date, work[w].row)
  /\ work[w].pc = "keep" =>
       /\ work[w].row # None
       /\ HistoryOutlives => table[<<Leg(w), work[w].row.date>>] # None
       /\ work[w].start <= LastUse(work[w].row.date) + MaxLatency + Longer(CacheTTL, StaleWindow)
  /\ work[w].pc = "persistseries" =>
       /\ work[w].row # None /\ work[w].row.date \in work[w].series
       /\ \A d \in work[w].series : d <= work[w].row.date
       /\ InTime(work[w].row.date, work[w].row)

IInv == /\ TypeOK /\ ProviderOK
        /\ \A p \in Pair : RowsOK(p) /\ CacheOK(p)
        /\ \A w \in Workers : WorkOK(w)
-----------------------------------------------------------------------------
(* What steps do, without EXCEPT. *)

Moves(w) == work' \in [Workers -> Work] /\ \A v \in Workers \ {w} : work'[v] = work[v]

RowsStay == \A r \in Pair \X Date : table[r] # None => table'[r] # None

LEMMA MovesTo ==
  ASSUME TypeOK, NEW w \in Workers, NEW x \in Work, work' = [work EXCEPT ![w] = x]
  PROVE  Moves(w) /\ work'[w] = x
  BY DEF TypeOK, Moves

LEMMA LegIs ==
  ASSUME TypeOK, NEW w \in Workers, work[w].legs # <<>>
  PROVE  Leg(w) \in Pair /\ Tail(work[w].legs) \in Seq(Pair)
<1>1. work[w].legs \in Seq(Pair)
  BY DEF TypeOK, Work
<1>2. \A s \in Seq(Pair) : s # <<>> => Head(s) \in Pair /\ Tail(s) \in Seq(Pair)
  OBVIOUS
<1> QED
  BY <1>1, <1>2 DEF Leg

LEMMA NoLegs == <<>> \in Seq(Pair)
  OBVIOUS

LEMMA ResolvedIs ==
  ASSUME TypeOK, NEW w \in Workers, work[w].legs # <<>>, NEW D \in SUBSET Date, NEW b \in BOOLEAN,
         Resolved(w, D, b)
  PROVE  /\ Moves(w) /\ work'[w].start = work[w].start /\ work'[w].task = work[w].task
         /\ \/ work'[w].pc \in {"next", "answered"}
            \/ work'[w].legs # <<>> /\ work'[w].pc = IF work[w].task = "history" THEN "rows" ELSE "leg"
<1>1. work[w] \in Work /\ Leg(w) \in Pair /\ Tail(work[w].legs) \in Seq(Pair)
  BY LegIs DEF TypeOK
<1> DEFINE g == work[w].got \cup ({Leg(w)} \X D)
           st == work[w].stale \/ b
           r == [work[w] EXCEPT !.legs = Tail(@), !.stale = st, !.row = None, !.series = {}, !.got = g]
           pc == IF r.legs = <<>> THEN IF r.task = "warm" THEN "next" ELSE "answered"
                 ELSE IF r.task = "history" THEN "rows" ELSE "leg"
           x == [r EXCEPT !.pc = pc]
<1>2. g \in SUBSET (Pair \X Date)
  BY <1>1 DEF Work
<1>3. st \in BOOLEAN
  BY <1>1 DEF Work
<1>4. work' = [work EXCEPT ![w] = x]
  BY DEF Resolved
<1> HIDE DEF g, st
<1>5. r \in Work /\ r.legs = Tail(work[w].legs) /\ r.task = work[w].task /\ r.start = work[w].start
  BY <1>1, <1>2, <1>3 DEF Work
<1> HIDE DEF r
<1>6. pc \in Steps
  BY DEF Steps
<1> HIDE DEF pc
<1>7. x \in Work /\ x.pc = pc /\ x.legs = r.legs /\ x.task = r.task /\ x.start = r.start
  BY <1>5, <1>6 DEF Work
<1> HIDE DEF x
<1> QED
  BY <1>4, <1>5, <1>7, MovesTo DEF pc

LEMMA FailedIs ==
  ASSUME TypeOK, NEW w \in Workers,
         NEW e \in {"internal", "ErrRateUnavailable", "wrapped ErrRateUnavailable"}, Failed(w, e)
  PROVE  Moves(w) /\ work'[w].start = work[w].start /\ work'[w].pc \in {"next", "failed"}
<1>1. work[w] \in Work
  BY DEF TypeOK
<1> DEFINE x == [work[w] EXCEPT !.pc = "next", !.legs = <<>>, !.row = None]
           y == [work[w] EXCEPT !.pc = "failed", !.err = e, !.legs = <<>>, !.series = {}, !.got = {}]
<1>2. x \in Work /\ x.start = work[w].start /\ x.pc = "next"
  BY <1>1, NoLegs DEF Work, Steps
<1>3. y \in Work /\ y.start = work[w].start /\ y.pc = "failed"
  BY <1>1, NoLegs DEF Work, Steps
<1>4. work' = [work EXCEPT ![w] = IF work[w].task = "warm" THEN x ELSE y]
  BY DEF Failed
<1> HIDE DEF x, y
<1> QED
  BY <1>2, <1>3, <1>4, MovesTo

LEMMA IdleIs == Idle \in Work /\ Idle.pc = "idle"
  BY NoLegs DEF Idle, Work, Steps

LEMMA InitIInv == Init => IInv
<1> SUFFICES ASSUME Init PROVE IInv
  OBVIOUS
<1>1. 0 \in Date /\ Day \in Nat \ {0} /\ 0 \div Day = 0 /\ 0 \in Nat /\ MaxLag \in Nat
  BY Settings, Days DEF Date
<1>2. TypeOK
  BY <1>1, IdleIs DEF Init, TypeOK
<1>3. ProviderOK
  <2>1. \A d \in Date : issued[d] # None => d = 0
    BY DEF Init
  <2>2. issued[0] # None /\ now = 0
    BY <1>1, RatesAssumption DEF Init
  <2>3. \A d \in Date : issued[d] # None => d <= now \div Day
    BY <1>1, <2>1, <2>2
  <2>4. issued[0] # None /\ now \div Day <= 0 + MaxLag
    BY <1>1, <2>2
  <2> QED
    BY <1>1, <2>3, <2>4 DEF ProviderOK
<1>4. \A p \in Pair : RowsOK(p) /\ CacheOK(p)
  BY DEF Init, RowsOK, CacheOK
<1>5. \A w \in Workers : WorkOK(w)
  BY IdleIs DEF Init, WorkOK, Latest, OfSeries, Busy
<1> QED
  BY <1>2, <1>3, <1>4, <1>5 DEF IInv

\* Others are not disturbed by rows that are added.
LEMMA OthersStay ==
  ASSUME IInv, NEW v \in Workers, work'[v] = work[v], RowsStay, UNCHANGED <<now, issued>>
  PROVE  WorkOK(v)'
<1>1. WorkOK(v) /\ TypeOK /\ work[v] \in Work
  BY DEF IInv, TypeOK
<1>2. work[v].pc = "keep" => Leg(v) \in Pair /\ Leg(v)' = Leg(v) /\ work[v].row.date \in Date
  BY <1>1, LegIs DEF WorkOK, Latest, Work, Rate, Leg
<1>3. work[v].pc = "keep" /\ HistoryOutlives => table'[<<Leg(v), work[v].row.date>>] # None
  BY <1>1, <1>2 DEF WorkOK, RowsStay
<1> QED
  BY <1>1, <1>2, <1>3 DEF WorkOK, IssuedBy, Busy

\* A step of w that leaves the provider and the cache alone and keeps all rows.
LEMMA Frame ==
  ASSUME IInv, NEW w \in Workers, Moves(w), UNCHANGED <<now, issued, latestCache, crashes>>,
         requestCount' \in [Pair -> Nat], table' \in [Pair \X Date -> Stored \cup {None}],
         RowsStay, \A p \in Pair : RowsOK(p)', WorkOK(w)'
  PROVE  IInv'
<1>1. TypeOK'
  BY DEF IInv, TypeOK, Moves
<1>2. ProviderOK'
  BY DEF IInv, ProviderOK
<1>3. ASSUME NEW p \in Pair PROVE CacheOK(p)'
  <2>1. CacheOK(p) /\ (latestCache[p] # None => latestCache[p].date \in Date)
    BY DEF IInv, TypeOK, Entry
  <2>2. HistoryOutlives /\ Cached(p) => table'[<<p, latestCache[p].date>>] # None
    BY <2>1 DEF RowsStay, CacheOK, Cached
  <2> QED
    BY <2>1, <2>2 DEF CacheOK, Cached
<1>4. \A v \in Workers : WorkOK(v)'
  BY OthersStay DEF Moves
<1> QED
  BY <1>1, <1>2, <1>3, <1>4 DEF IInv

\* ... and the table too.
LEMMA WorkFrame ==
  ASSUME IInv, NEW w \in Workers, Moves(w), requestCount' \in [Pair -> Nat],
         UNCHANGED <<now, issued, latestCache, table, crashes>>, WorkOK(w)'
  PROVE  IInv'
<1>1. \A p \in Pair : RowsOK(p)'
  BY DEF IInv, RowsOK
<1>2. RowsStay /\ table' \in [Pair \X Date -> Stored \cup {None}]
  BY DEF IInv, TypeOK, RowsStay
<1> QED
  BY <1>1, <1>2, Frame

\* Where a leg or the whole task ends: what remains to be known of w.
LEMMA ResolvedOK ==
  ASSUME IInv, NEW w \in Workers, work[w].pc \in Latest \cup OfSeries,
         NEW D \in SUBSET Date, NEW b \in BOOLEAN, Resolved(w, D, b), UNCHANGED <<now, issued>>
  PROVE  Moves(w) /\ WorkOK(w)'
<1>1. WorkOK(w) /\ TypeOK /\ work[w].legs # <<>>
  BY DEF IInv, WorkOK
<1>2. /\ Moves(w) /\ work'[w].start = work[w].start /\ work'[w].task = work[w].task
      /\ \/ work'[w].pc \in {"next", "answered"}
         \/ work'[w].legs # <<>> /\ work'[w].pc = IF work[w].task = "history" THEN "rows" ELSE "leg"
  BY <1>1, ResolvedIs
<1>3. Busy(w) /\ (work[w].task = "history" => IssuedBy(work[w].start))
  BY <1>1 DEF WorkOK, Latest, OfSeries, Busy
<1>4. IssuedBy(work[w].start) => IssuedBy(work[w].start)'
  BY <1>2 DEF IssuedBy
<1>5. work'[w].start <= now' /\ now' <= work'[w].start + MaxLatency
  BY <1>1, <1>2, <1>3 DEF WorkOK
<1>6. CASE work'[w].pc \in {"next", "answered"}
  <2>1. /\ work'[w].pc \notin Latest \cup OfSeries
        /\ work'[w].pc # "persist" /\ work'[w].pc # "keep" /\ work'[w].pc # "persistseries"
    BY <1>6 DEF Latest, OfSeries
  <2> QED
    BY <1>2, <1>5, <2>1 DEF WorkOK
<1>7. CASE work'[w].legs # <<>> /\ work'[w].pc = IF work[w].task = "history" THEN "rows" ELSE "leg"
  BY <1>2, <1>3, <1>4, <1>5, <1>7 DEF WorkOK, Latest, OfSeries
<1> QED
  BY <1>2, <1>6, <1>7

LEMMA FailedOK ==
  ASSUME IInv, NEW w \in Workers, work[w].pc \in Latest \cup OfSeries,
         NEW e \in {"internal", "ErrRateUnavailable", "wrapped ErrRateUnavailable"}, Failed(w, e),
         UNCHANGED now
  PROVE  Moves(w) /\ WorkOK(w)'
<1>1. WorkOK(w) /\ TypeOK
  BY DEF IInv
<1>2. Moves(w) /\ work'[w].start = work[w].start /\ work'[w].pc \in {"next", "failed"}
  BY <1>1, FailedIs
<1>3. work[w].start <= now /\ now <= work[w].start + MaxLatency
  BY <1>1 DEF WorkOK, Latest, OfSeries, Busy
<1> QED
  BY <1>2, <1>3 DEF WorkOK, Latest, OfSeries

\* One row is written, as fetched.
LEMMA Upserts ==
  ASSUME IInv, NEW p \in Pair, NEW r \in Rate, InTime(r.date, r), table' = Upserted(p, r)
  PROVE  /\ table' \in [Pair \X Date -> Stored \cup {None}] /\ RowsStay
         /\ table'[<<p, r.date>>] # None /\ \A q \in Pair : RowsOK(q)'
<1> DEFINE s == [at |-> r.at, expires |-> r.expires]
<1>1. /\ s \in Stored /\ s # None /\ r.date \in Date /\ s.at = r.at /\ s.expires = r.expires
      /\ <<p, r.date>> \in Pair \X Date
  BY RatesAssumption DEF Stored, Rate
<1>2. table' = [table EXCEPT ![<<p, r.date>>] = s]
  BY DEF Upserted
<1> HIDE DEF s
<1>3. /\ table' \in [Pair \X Date -> Stored \cup {None}] /\ table'[<<p, r.date>>] = s
      /\ \A x \in Pair \X Date : x # <<p, r.date>> => table'[x] = table[x]
  BY <1>1, <1>2 DEF IInv, TypeOK
<1>4. RowsStay
  BY <1>1, <1>3 DEF RowsStay
<1>5. ASSUME NEW q \in Pair, NEW d \in Date, table'[<<q, d>>] # None
      PROVE  InTime(d, table'[<<q, d>>]) \/ \E e \in Date : e > d /\ table'[<<q, e>>] # None
  <2>1. CASE <<q, d>> = <<p, r.date>>
    BY <1>1, <1>3, <2>1 DEF InTime
  <2>2. CASE <<q, d>> # <<p, r.date>>
    <3>1. RowsOK(q) /\ table'[<<q, d>>] = table[<<q, d>>] /\ table[<<q, d>>] # None
      BY <1>3, <1>5, <2>2 DEF IInv
    <3> QED
      BY <1>4, <3>1 DEF RowsOK, RowsStay
  <2> QED
    BY <2>1, <2>2
<1> QED
  BY <1>1, <1>3, <1>4, <1>5 DEF RowsOK

LEMMA MissStep == ASSUME IInv, NEW w \in Workers, CacheMiss(w) PROVE IInv'
<1> DEFINE x == [work[w] EXCEPT !.pc = "database", !.start = now]
<1>1. /\ TypeOK /\ work[w] \in Work /\ work[w].pc = "leg" /\ WorkOK(w) /\ now \in Nat
      /\ work' = [work EXCEPT ![w] = x]
      /\ UNCHANGED <<now, issued, latestCache, table, requestCount, crashes>>
  BY DEF IInv, TypeOK, CacheMiss
<1>2. /\ x \in Work /\ x.pc = "database" /\ x.start = now /\ x.legs = work[w].legs
      /\ x.task = work[w].task
  BY <1>1 DEF Work, Steps
<1> HIDE DEF x
<1>3. Moves(w) /\ work'[w] = x
  BY <1>1, <1>2, MovesTo
<1>4. WorkOK(w)'
  BY <1>1, <1>2, <1>3, Settings DEF WorkOK, Latest, OfSeries
<1> QED
  BY <1>1, <1>3, <1>4, WorkFrame DEF TypeOK

LEMMA HitStep == ASSUME IInv, NEW w \in Workers, CacheHit(w) PROVE IInv'
<1>1. /\ work[w].pc \in Latest /\ UNCHANGED <<now, issued, latestCache, table, requestCount, crashes>>
      /\ Resolved(w, {latestCache[Leg(w)].date}, FALSE) /\ Cached(Leg(w))
  BY DEF CacheHit, Latest
<1>2. Leg(w) \in Pair
  BY <1>1, LegIs DEF IInv, WorkOK
<1>3. {latestCache[Leg(w)].date} \in SUBSET Date
  BY <1>1, <1>2 DEF IInv, TypeOK, Cached, Entry
<1>4. Moves(w) /\ WorkOK(w)'
  BY <1>1, <1>3, ResolvedOK
<1> QED
  BY <1>1, <1>4, WorkFrame DEF IInv, TypeOK

\* The newest row of a pair, if it has rows.
LEMMA NewestRow ==
  ASSUME IInv, NEW p \in Pair, GetLatest(p) # None
  PROVE  /\ GetLatest(p) \in Rate /\ table[<<p, GetLatest(p).date>>] # None
         /\ InTime(GetLatest(p).date, GetLatest(p))
<1> DEFINE m == Max(Rows(p))
<1>1. Rows(p) \in SUBSET Nat /\ Rows(p) \subseteq Date /\ Rows(p) # {}
  BY DEF Rows, Date, GetLatest
<1>2. \A d \in Rows(p) : d <= MaxTime \div Day
  BY Settings DEF Rows, Date
<1>3. m \in Rows(p) /\ \A d \in Rows(p) : d <= m
  BY <1>1, <1>2, MaxDate, Settings
<1> HIDE DEF m
<1>4. m \in Date /\ table[<<p, m>>] # None /\ table[<<p, m>>] \in Stored
  BY <1>3 DEF Rows, IInv, TypeOK
<1>5. GetLatest(p) = Row(p, m)
  BY <1>1 DEF GetLatest, m
<1>6. Row(p, m) \in Rate
  BY <1>4 DEF Row, Rate, Stored
<1>7. /\ Row(p, m).date = m /\ Row(p, m).at = table[<<p, m>>].at
      /\ Row(p, m).expires = table[<<p, m>>].expires
  BY DEF Row
<1>8. ASSUME NEW e \in Date, table[<<p, e>>] # None PROVE ~(e > m)
  <2>1. e \in Rows(p) /\ e \in Nat /\ m \in Nat
    BY <1>4, <1>8 DEF Rows, Date
  <2> QED
    BY <1>3, <2>1
<1>9. InTime(m, table[<<p, m>>])
  BY <1>4, <1>8 DEF IInv, RowsOK
<1> QED
  BY <1>4, <1>5, <1>6, <1>7, <1>9 DEF InTime

\* A row that is fresh or in the stale window was fetched in time.
LEMMA ReadStep == ASSUME IInv, NEW w \in Workers, ReadDatabase(w) PROVE IInv'
<1>1. /\ TypeOK /\ work[w] \in Work /\ work[w].pc = "database" /\ WorkOK(w) /\ now \in Nat
      /\ UNCHANGED <<now, issued, latestCache, table, requestCount, crashes>>
      /\ Leg(w) \in Pair /\ work[w].legs # <<>> /\ work[w].start \in Nat
  BY LegIs DEF IInv, TypeOK, ReadDatabase, WorkOK, Latest, Work
<1>2. PICK r \in {GetLatest(Leg(w)), None} :
        work' = [work EXCEPT ![w].row = r,
                   ![w].stale = @ \/ (r # None /\ ~Fresh(w, r) /\ InStaleWindow(w, r)),
                   ![w].pc = IF r # None /\ (Fresh(w, r) \/ InStaleWindow(w, r))
                             THEN "keep" ELSE "ask"]
  BY DEF ReadDatabase
<1>3. r # None => r \in Rate /\ table[<<Leg(w), r.date>>] # None /\ InTime(r.date, r)
  BY <1>1, <1>2, NewestRow
<1> DEFINE st == work[w].stale \/ (r # None /\ ~Fresh(w, r) /\ InStaleWindow(w, r))
           pc == IF r # None /\ (Fresh(w, r) \/ InStaleWindow(w, r)) THEN "keep" ELSE "ask"
           x == [work[w] EXCEPT !.row = r, !.stale = st, !.pc = pc]
<1>4. st \in BOOLEAN
  BY <1>1 DEF Work
<1>5. pc \in Steps /\ work' = [work EXCEPT ![w] = x]
  BY <1>1, <1>2 DEF Steps
<1>6. pc = "keep" => r # None /\ (work[w].start < r.expires \/ work[w].start <= r.at + StaleWindow)
  BY DEF Fresh, InStaleWindow
<1>7. pc \in {"keep", "ask"}
  OBVIOUS
<1> HIDE DEF st, pc
<1>8. /\ x \in Work /\ x.pc = pc /\ x.start = work[w].start /\ x.legs = work[w].legs
      /\ x.task = work[w].task /\ x.row = r
  BY <1>1, <1>3, <1>4, <1>5 DEF Work
<1> HIDE DEF x
<1>9. Moves(w) /\ work'[w] = x
  BY <1>1, <1>5, <1>8, MovesTo
<1>10. pc = "keep" => work[w].start <= LastUse(r.date) + MaxLatency + Longer(CacheTTL, StaleWindow)
  <2>1. SUFFICES ASSUME pc = "keep"
                 PROVE  work[w].start <= LastUse(r.date) + MaxLatency + Longer(CacheTTL, StaleWindow)
    OBVIOUS
  <2>2. r \in Rate /\ InTime(r.date, r) /\ r.date \in Nat /\ r.at \in Nat /\ r.expires \in Nat
    BY <1>3, <1>6, <2>1 DEF Rate, Date
  <2>3. LastUse(r.date) \in Nat
    BY <2>2, LastUseIs
  <2>4. work[w].start < r.expires \/ work[w].start <= r.at + StaleWindow
    BY <1>6, <2>1
  <2> DEFINE a == LastUse(r.date)
             b == Longer(CacheTTL, StaleWindow)
  <2>5. /\ a \in Nat /\ b \in Nat /\ CacheTTL <= b /\ StaleWindow <= b /\ CacheTTL \in Nat
        /\ StaleWindow \in Nat /\ MaxLatency \in Nat
        /\ r.at <= a + MaxLatency /\ r.expires <= a + MaxLatency + CacheTTL
    BY <2>2, <2>3, Settings DEF InTime
  <2> HIDE DEF a, b
  <2>6. work[w].start <= a + MaxLatency + b
    BY <1>1, <2>2, <2>4, <2>5
  <2> QED
    BY <2>6 DEF a, b
<1>11. Leg(w)' = Leg(w)
  BY <1>8, <1>9 DEF Leg
<1>12. WorkOK(w)'
  BY <1>1, <1>3, <1>6, <1>7, <1>8, <1>9, <1>10, <1>11 DEF WorkOK, Latest, OfSeries, Busy
<1> QED
  BY <1>1, <1>9, <1>12, WorkFrame DEF TypeOK

\* The rate the provider gives out is of a day not over, or within its lag.
LEMMA NewestIs ==
  ASSUME TypeOK, ProviderOK
  PROVE  /\ Newest \in Date /\ issued[Newest] # None /\ \A d \in Date : issued[d] # None => d <= Newest
         /\ now \div Day <= Newest + MaxLag /\ now <= LastUse(Newest)
         /\ Newest * Day \in Nat /\ Newest * Day <= now
<1> DEFINE S == {d \in Date : issued[d] # None}
<1>1. PICK e \in Date : issued[e] # None /\ now \div Day <= e + MaxLag
  BY DEF ProviderOK
<1>2. S \in SUBSET Nat /\ S # {} /\ S \subseteq Date
  BY <1>1 DEF Date
<1>3. \A d \in S : d <= MaxTime \div Day
  BY Settings DEF Date
<1>4. Newest = Max(S)
  BY DEF Newest
<1>5. Newest \in S /\ \A d \in S : d <= Newest
  BY <1>2, <1>3, <1>4, MaxDate, Settings
<1>6. now \in Nat /\ now \div Day \in Nat /\ Newest \in Nat /\ e \in Nat
  <2>1. now \in Nat /\ Newest \in Nat /\ e \in Nat
    BY <1>2, <1>5 DEF TypeOK, Date
  <2> QED
    BY <2>1, Settings, Days
<1>7. e <= Newest
  BY <1>1, <1>5
<1>8. now \div Day <= Newest + MaxLag
  BY <1>1, <1>6, <1>7, Settings
<1>9. Newest <= now \div Day
  BY <1>5 DEF ProviderOK
<1> QED
  BY <1>5, <1>6, <1>8, <1>9, LastUseIs, Days, Settings

LEMMA AskStep == ASSUME IInv, NEW w \in Workers, AskProvider(w) PROVE IInv'
<1> DEFINE r == [date |-> Newest, at |-> Newest * Day, expires |-> work[w].start + CacheTTL]
           x == [work[w] EXCEPT !.pc = "persist", !.row = r]
<1>1. /\ TypeOK /\ work[w] \in Work /\ work[w].pc = "ask" /\ WorkOK(w) /\ now \in Nat
      /\ work' = [work EXCEPT ![w] = x] /\ work[w].start \in Nat
      /\ UNCHANGED <<now, issued, latestCache, table, requestCount, crashes>>
  BY DEF IInv, TypeOK, AskProvider, Work
<1>2. /\ Newest \in Date /\ now <= LastUse(Newest) /\ LastUse(Newest) \in Nat
      /\ Newest * Day \in Nat /\ Newest * Day <= now
  BY NewestIs, LastUseIs DEF IInv, Date
<1>3. /\ r \in Rate /\ r.date = Newest /\ r.at = Newest * Day
      /\ r.expires = work[w].start + CacheTTL /\ r # None
  BY <1>1, <1>2, Settings, RatesAssumption DEF Rate
<1>4. work[w].start <= now
  BY <1>1 DEF WorkOK, Busy
<1> HIDE DEF r
<1>5. InTime(r.date, r) /\ work[w].start <= LastUse(r.date)
  BY <1>1, <1>2, <1>3, <1>4, Settings DEF InTime
<1>6. /\ x \in Work /\ x.pc = "persist" /\ x.start = work[w].start /\ x.legs = work[w].legs
      /\ x.task = work[w].task /\ x.row = r
  BY <1>1, <1>3 DEF Work, Steps
<1> HIDE DEF x
<1>7. Moves(w) /\ work'[w] = x
  BY <1>1, <1>6, MovesTo
<1>8. WorkOK(w)'
  BY <1>1, <1>3, <1>5, <1>6, <1>7 DEF WorkOK, Latest, OfSeries, Busy
<1> QED
  BY <1>1, <1>7, <1>8, WorkFrame DEF TypeOK

LEMMA ProviderFailsStep == ASSUME IInv, NEW w \in Workers, ProviderFails(w) PROVE IInv'
<1>1. /\ work[w].pc \in Latest \cup OfSeries
      /\ UNCHANGED <<now, issued, latestCache, table, requestCount, crashes>>
  BY DEF ProviderFails, Latest
<1>2. PICK e \in {"wrapped ErrRateUnavailable", "ErrRateUnavailable"} : Failed(w, e)
  BY DEF ProviderFails
<1>3. Moves(w) /\ WorkOK(w)'
  BY <1>1, <1>2, FailedOK
<1> QED
  BY <1>1, <1>3, WorkFrame DEF IInv, TypeOK

\* A rate that is about to be written was fetched in time.
LEMMA ToPersist ==
  ASSUME IInv, NEW w \in Workers, work[w].pc = "persist"
  PROVE  /\ Leg(w) \in Pair /\ work[w].row \in Rate /\ InTime(work[w].row.date, work[w].row)
         /\ work[w].row # None /\ work[w].start <= LastUse(work[w].row.date)
<1>1. WorkOK(w) /\ TypeOK /\ work[w] \in Work /\ work[w].legs # <<>>
  BY DEF IInv, TypeOK, WorkOK, Latest
<1> QED
  BY <1>1, LegIs DEF WorkOK, Work

LEMMA UpsertStep == ASSUME IInv, NEW w \in Workers, Upsert(w) PROVE IInv'
<1> DEFINE x == [work[w] EXCEPT !.pc = "keep"]
<1>1. /\ TypeOK /\ work[w] \in Work /\ work[w].pc = "persist" /\ WorkOK(w)
      /\ work' = [work EXCEPT ![w] = x] /\ work[w].start \in Nat
      /\ table' = Upserted(Leg(w), work[w].row)
      /\ UNCHANGED <<now, issued, latestCache, requestCount, crashes>>
  BY DEF IInv, TypeOK, Upsert, Work
<1>2. /\ Leg(w) \in Pair /\ work[w].row \in Rate /\ InTime(work[w].row.date, work[w].row)
      /\ work[w].row # None /\ work[w].start <= LastUse(work[w].row.date)
  BY <1>1, ToPersist
<1>3. /\ table' \in [Pair \X Date -> Stored \cup {None}] /\ RowsStay
      /\ table'[<<Leg(w), work[w].row.date>>] # None /\ \A q \in Pair : RowsOK(q)'
  BY <1>1, <1>2, Upserts
<1>4. /\ x \in Work /\ x.pc = "keep" /\ x.start = work[w].start /\ x.legs = work[w].legs
      /\ x.task = work[w].task /\ x.row = work[w].row
  BY <1>1 DEF Work, Steps
<1> HIDE DEF x
<1>5. Moves(w) /\ work'[w] = x
  BY <1>1, <1>4, MovesTo
<1>6. LastUse(work[w].row.date) \in Nat
  BY <1>2, LastUseIs DEF Rate, Date
<1>7. work[w].start <= LastUse(work[w].row.date) + MaxLatency + Longer(CacheTTL, StaleWindow)
  BY <1>1, <1>2, <1>6, Settings
<1>8. Leg(w)' = Leg(w)
  BY <1>4, <1>5 DEF Leg
<1>9. WorkOK(w)'
  BY <1>1, <1>2, <1>3, <1>4, <1>5, <1>7, <1>8 DEF WorkOK, Latest, OfSeries, Busy
<1> QED
  BY <1>1, <1>3, <1>5, <1>9, Frame DEF TypeOK

LEMMA UpsertFailsStep == ASSUME IInv, NEW w \in Workers, UpsertFails(w) PROVE IInv'
<1>1. /\ work[w].pc = "persist" /\ work[w].pc \in Latest \cup OfSeries
      /\ table' \in {table, Upserted(Leg(w), work[w].row)} /\ Failed(w, "internal")
      /\ UNCHANGED <<now, issued, latestCache, requestCount, crashes>>
  BY DEF UpsertFails, Latest
<1>2. Moves(w) /\ WorkOK(w)'
  BY <1>1, FailedOK
<1>3. CASE table' = table
  BY <1>1, <1>2, <1>3, WorkFrame DEF IInv, TypeOK
<1>4. CASE table' = Upserted(Leg(w), work[w].row)
  <2>1. /\ table' \in [Pair \X Date -> Stored \cup {None}] /\ RowsStay
        /\ \A q \in Pair : RowsOK(q)'
    BY <1>1, <1>4, ToPersist, Upserts
  <2>2. requestCount' \in [Pair -> Nat]
    BY <1>1 DEF IInv, TypeOK
  <2> QED
    BY <1>1, <1>2, <2>1, <2>2, Frame
<1> QED
  BY <1>1, <1>3, <1>4

\* What is cached expires within the lifetime of its rate, and is in the table.
LEMMA CacheSetStep == ASSUME IInv, NEW w \in Workers, CacheSet(w) PROVE IInv'
<1> DEFINE c == [date |-> work[w].row.date, expires |-> now + CacheTTL]
<1>1. /\ TypeOK /\ work[w] \in Work /\ work[w].pc = "keep" /\ WorkOK(w) /\ now \in Nat
      /\ work[w].start \in Nat /\ work[w].pc \in Latest \cup OfSeries /\ work[w].legs # <<>>
      /\ latestCache' = [latestCache EXCEPT ![Leg(w)] = c]
      /\ Resolved(w, {work[w].row.date}, FALSE)
      /\ UNCHANGED <<now, issued, table, requestCount, crashes>>
  BY DEF IInv, TypeOK, CacheSet, Work, WorkOK, Latest
<1>2. Leg(w) \in Pair /\ work[w].row \in Rate /\ work[w].row.date \in Date
  BY <1>1, LegIs DEF WorkOK, Work, Rate
<1>3. c \in Entry /\ c.date = work[w].row.date /\ c.expires = now + CacheTTL
  BY <1>1, <1>2, Settings DEF Entry
<1> HIDE DEF c
<1>4. /\ latestCache' \in [Pair -> Entry \cup {None}] /\ latestCache'[Leg(w)] = c
      /\ \A p \in Pair : p # Leg(w) => latestCache'[p] = latestCache[p]
  BY <1>1, <1>2, <1>3 DEF TypeOK
<1>5. Moves(w) /\ WorkOK(w)'
  <2>1. {work[w].row.date} \in SUBSET Date
    BY <1>2
  <2> QED
    BY <1>1, <2>1, ResolvedOK
<1>6. c.expires <= LastUse(c.date) + Lifetime
  <2>1. LastUse(c.date) \in Nat
    BY <1>2, <1>3, LastUseIs DEF Date
  <2>2. /\ work[w].start <= LastUse(c.date) + MaxLatency + Longer(CacheTTL, StaleWindow)
        /\ now <= work[w].start + MaxLatency
    BY <1>1, <1>3 DEF WorkOK, Busy
  <2>3. now + CacheTTL <= LastUse(c.date) + Lifetime
    <3> DEFINE a == LastUse(c.date)
               b == Longer(CacheTTL, StaleWindow)
    <3>1. /\ a \in Nat /\ b \in Nat /\ now \in Nat /\ work[w].start \in Nat /\ CacheTTL \in Nat
          /\ MaxLatency \in Nat /\ Lifetime = 2 * MaxLatency + b + CacheTTL
          /\ work[w].start <= a + MaxLatency + b /\ now <= work[w].start + MaxLatency
      BY <1>1, <2>1, <2>2, Settings DEF Lifetime
    <3> HIDE DEF a, b
    <3>2. now + CacheTTL <= a + Lifetime
      BY <3>1
    <3> QED
      BY <3>2 DEF a
  <2> QED
    BY <1>3, <2>3
<1>7. ASSUME NEW p \in Pair PROVE RowsOK(p)' /\ CacheOK(p)'
  <2>1. RowsOK(p)'
    BY <1>1 DEF IInv, RowsOK
  <2>2. CASE p = Leg(w)
    <3>1. HistoryOutlives => table'[<<p, c.date>>] # None
      BY <1>1, <1>3, <2>2 DEF WorkOK
    <3> QED
      BY <1>4, <1>6, <2>1, <2>2, <3>1 DEF CacheOK
  <2>3. CASE p # Leg(w)
    <3>1. CacheOK(p) /\ latestCache'[p] = latestCache[p]
      BY <1>4, <2>3 DEF IInv
    <3> QED
      BY <1>1, <2>1, <3>1 DEF CacheOK, Cached
  <2> QED
    BY <2>2, <2>3
<1>8. \A v \in Workers : WorkOK(v)'
  <2>1. RowsStay
    BY <1>1 DEF RowsStay
  <2> QED
    BY <1>1, <1>5, <2>1, OthersStay DEF Moves
<1>9. TypeOK'
  BY <1>1, <1>4, <1>5 DEF TypeOK, Moves
<1>10. ProviderOK'
  BY <1>1 DEF IInv, ProviderOK
<1> QED
  BY <1>7, <1>8, <1>9, <1>10 DEF IInv
-----------------------------------------------------------------------------
(* Requests begin; series. *)

LEMMA Sequences12 ==
  ASSUME NEW S, NEW a \in S, NEW b \in S
  PROVE  /\ <<a>> \in Seq(S) /\ <<a>> # <<>> /\ <<a, b>> \in Seq(S) /\ <<a, b>> # <<>>
  OBVIOUS

LEMMA LegsAre ==
  ASSUME NEW p \in Pair
  PROVE  Legs(p) \in Seq(Pair) /\ Legs(p) # <<>>
<1>1. p[1] \in Currencies /\ p[2] \in Currencies /\ USD \in Currencies
  BY RatesAssumption DEF Pair
<1>2. <<p[1], USD>> \in Pair /\ <<USD, p[2]>> \in Pair
  BY <1>1 DEF Pair
<1> HIDE DEF Pair
<1> QED
  BY <1>2, Sequences12 DEF Legs

LEMMA Counted ==
  ASSUME TypeOK, NEW p \in Pair, incrementPair(p)
  PROVE  requestCount' \in [Pair -> Nat]
  BY DEF TypeOK, incrementPair

LEMMA ConvertStep ==
  ASSUME IInv, NEW w \in Requests, NEW p \in Conversions, Convert(w, p) PROVE IInv'
<1> DEFINE x == [Idle EXCEPT !.pc = "leg", !.task = "convert", !.legs = Legs(p), !.start = now]
           y == [Idle EXCEPT !.pc = "answered", !.task = "convert"]
<1>1. /\ TypeOK /\ w \in Workers /\ p \in Pair /\ requestCount' \in [Pair -> Nat] /\ now \in Nat
      /\ work' = [work EXCEPT ![w] = IF p[1] = p[2] THEN y ELSE x]
      /\ UNCHANGED <<now, issued, latestCache, table, crashes>>
  BY RatesAssumption, Counted DEF IInv, TypeOK, Convert, Workers
<1>2. /\ x \in Work /\ x.pc = "leg" /\ x.task = "convert" /\ x.legs # <<>> /\ x.start = now
      /\ y \in Work /\ y.pc = "answered"
  BY <1>1, LegsAre, NoLegs DEF Idle, Work, Steps
<1> HIDE DEF x, y
<1>3. Moves(w) /\ work'[w] \in {x, y}
  BY <1>1, <1>2, MovesTo
<1>4. WorkOK(w)'
  <2>1. CASE work'[w] = y
    BY <1>2, <2>1 DEF WorkOK, Latest, OfSeries, Busy
  <2>2. CASE work'[w] = x
    BY <1>1, <1>2, <2>2, Settings DEF WorkOK, Latest, OfSeries, Busy
  <2> QED
    BY <1>3, <2>1, <2>2
<1> QED
  BY <1>1, <1>3, <1>4, WorkFrame

LEMMA HistoricalStep ==
  ASSUME IInv, NEW w \in Requests, NEW p \in Series, Historical(w, p) PROVE IInv'
<1> DEFINE x == [Idle EXCEPT !.pc = "rows", !.task = "history", !.legs = Legs(p), !.start = now]
           y == [Idle EXCEPT !.pc = "answered", !.task = "history"]
<1>1. /\ TypeOK /\ w \in Workers /\ p \in Pair /\ requestCount' \in [Pair -> Nat] /\ now \in Nat
      /\ work' = [work EXCEPT ![w] = IF p[1] = p[2] THEN y ELSE x]
      /\ UNCHANGED <<now, issued, latestCache, table, crashes>>
  BY RatesAssumption, Counted DEF IInv, TypeOK, Historical, Workers
<1>2. /\ x \in Work /\ x.pc = "rows" /\ x.task = "history" /\ x.legs # <<>> /\ x.start = now
      /\ y \in Work /\ y.pc = "answered"
  BY <1>1, LegsAre, NoLegs DEF Idle, Work, Steps
<1> HIDE DEF x, y
<1>3. Moves(w) /\ work'[w] \in {x, y}
  BY <1>1, <1>2, MovesTo
<1>4. work'[w].pc = "rows" => IssuedBy(work[w].start)'
  <2>1. work'[w].pc = "rows" => work'[w].start = now
    BY <1>2, <1>3
  <2> QED
    BY <1>1, <2>1 DEF IInv, ProviderOK, IssuedBy
<1>5. WorkOK(w)'
  <2>1. CASE work'[w] = y
    BY <1>2, <2>1 DEF WorkOK, Latest, OfSeries, Busy
  <2>2. CASE work'[w] = x
    <3>1. /\ work'[w].pc = "rows" /\ work'[w].task = "history" /\ work'[w].legs # <<>>
          /\ IssuedBy(work[w].start)'
      BY <1>2, <1>4, <2>2
    <3>2. work'[w].start <= now' /\ now' <= work'[w].start + MaxLatency
      BY <1>1, <1>2, <2>2, Settings
    <3> QED
      BY <3>1, <3>2 DEF WorkOK, Latest, OfSeries
  <2> QED
    BY <1>3, <2>1, <2>2
<1> QED
  BY <1>1, <1>3, <1>5, WorkFrame

LEMMA SeriesFromRowsStep == ASSUME IInv, NEW w \in Workers, SeriesFromRows(w) PROVE IInv'
<1> DEFINE s == {d \in Rows(Leg(w)) : InRange(w, d)}
<1>1. /\ work[w].pc \in Latest \cup OfSeries /\ Resolved(w, s, FALSE)
      /\ UNCHANGED <<now, issued, latestCache, table, requestCount, crashes>>
  BY DEF SeriesFromRows, OfSeries
<1>2. s \in SUBSET Date
  BY DEF Rows
<1>3. Moves(w) /\ WorkOK(w)'
  BY <1>1, <1>2, ResolvedOK
<1> QED
  BY <1>1, <1>3, WorkFrame DEF IInv, TypeOK

LEMMA RowsMissingStep == ASSUME IInv, NEW w \in Workers, RowsMissing(w) PROVE IInv'
<1> DEFINE s == {d \in Rows(Leg(w)) : InRange(w, d)}
           r == IF s = {} THEN None ELSE Row(Leg(w), Max(s))
           x == [work[w] EXCEPT !.pc = "askseries", !.series = s, !.row = r]
           y == [work[w] EXCEPT !.pc = "askseries"]
<1>1. /\ TypeOK /\ work[w] \in Work /\ work[w].pc = "rows" /\ WorkOK(w)
      /\ work' \in {[work EXCEPT ![w] = x], [work EXCEPT ![w] = y]}
      /\ UNCHANGED <<now, issued, latestCache, table, requestCount, crashes>>
      /\ Leg(w) \in Pair
  BY LegIs DEF IInv, TypeOK, RowsMissing, WorkOK, OfSeries
<1>2. s \in SUBSET Date
  BY DEF Rows
<1>3. r \in Rate \cup {None}
  <2>1. SUFFICES ASSUME s # {} PROVE Row(Leg(w), Max(s)) \in Rate
    OBVIOUS
  <2>2. s \in SUBSET Nat /\ \A d \in s : d <= MaxTime \div Day
    BY <1>2, Settings DEF Date
  <2>3. Max(s) \in s
    BY <2>1, <2>2, MaxDate, Settings
  <2>4. Max(s) \in Date /\ table[<<Leg(w), Max(s)>>] \in Stored
    BY <1>1, <2>3 DEF Rows, TypeOK
  <2> QED
    BY <2>4 DEF Row, Rate, Stored
<1> HIDE DEF s, r
<1>4. /\ x \in Work /\ x.pc = "askseries" /\ x.start = work[w].start /\ x.legs = work[w].legs
      /\ x.task = work[w].task
      /\ y \in Work /\ y.pc = "askseries" /\ y.start = work[w].start /\ y.legs = work[w].legs
      /\ y.task = work[w].task
  BY <1>1, <1>2, <1>3 DEF Work, Steps
<1> HIDE DEF x, y
<1>5. Moves(w) /\ work'[w] \in {x, y}
  BY <1>1, <1>4, MovesTo
<1>6. IssuedBy(work[w].start)
  BY <1>1 DEF WorkOK, OfSeries
<1>7. WorkOK(w)'
  BY <1>1, <1>4, <1>5, <1>6 DEF WorkOK, Latest, OfSeries, Busy, IssuedBy
<1> QED
  BY <1>1, <1>5, <1>7, WorkFrame DEF TypeOK

\* The provider's series ends with the newest date there was when the request began.
LEMMA EndOfSeries ==
  ASSUME TypeOK, NEW w \in Workers, IssuedBy(work[w].start), NEW s,
         s = {d \in Date : issued[d] # None /\ InRange(w, d)}, s # {}
  PROVE  /\ s \in SUBSET Date /\ Max(s) \in s /\ \A d \in s : d <= Max(s)
         /\ work[w].start <= LastUse(Max(s))
<1> DEFINE t == work[w].start \div Day
<1>1. work[w].start \in Nat /\ t \in Nat /\ RangeDays \in Nat /\ MaxLag \in Nat
  <2>1. work[w].start \in Nat
    BY DEF TypeOK, Work
  <2> QED
    BY <2>1, Settings, Days
<1>2. s \in SUBSET Date /\ s \in SUBSET Nat /\ \A d \in s : d <= MaxTime \div Day
  BY Settings DEF Date
<1>3. Max(s) \in s /\ \A d \in s : d <= Max(s)
  BY <1>2, MaxDate, Settings
<1>4. PICK e \in Date : issued[e] # None /\ e <= t /\ t <= e + MaxLag
  BY DEF IssuedBy
<1>5. Max(s) \in Nat /\ e \in Nat /\ Max(s) + RangeDays >= t
  BY <1>2, <1>3 DEF InRange, Date
<1>6. t <= Max(s) + MaxLag
  <2>1. CASE e \in s
    <3>1. e <= Max(s)
      BY <1>3, <2>1
    <3> HIDE DEF t
    <3> QED
      BY <1>1, <1>4, <1>5, <3>1
  <2>2. CASE e \notin s
    <3>1. ~(e + RangeDays >= t)
      BY <1>4, <2>2 DEF InRange
    <3> HIDE DEF t
    <3> QED
      BY <1>1, <1>4, <1>5, <3>1
  <2> QED
    BY <2>1, <2>2
<1> QED
  BY <1>1, <1>2, <1>3, <1>5, <1>6, LastUseIs

LEMMA AskSeriesStep == ASSUME IInv, NEW w \in Workers, AskSeries(w) PROVE IInv'
<1> DEFINE s == {d \in Date : issued[d] # None /\ InRange(w, d)}
           r == [date |-> Max(s), at |-> now, expires |-> now + CacheTTL]
           x == [work[w] EXCEPT !.pc = "persistseries", !.series = s, !.row = r]
<1>1. /\ TypeOK /\ work[w] \in Work /\ work[w].pc = "askseries" /\ WorkOK(w) /\ s # {} /\ now \in Nat
      /\ work' = [work EXCEPT ![w] = x] /\ work[w].start \in Nat
      /\ UNCHANGED <<now, issued, latestCache, table, requestCount, crashes>>
  BY DEF IInv, TypeOK, AskSeries, Work
<1>2. /\ IssuedBy(work[w].start) /\ work[w].start <= now /\ now <= work[w].start + MaxLatency
  BY <1>1 DEF WorkOK, OfSeries, Busy
<1>3. /\ s \in SUBSET Date /\ Max(s) \in s /\ \A d \in s : d <= Max(s)
      /\ work[w].start <= LastUse(Max(s)) /\ LastUse(Max(s)) \in Nat
  <2>1. /\ s \in SUBSET Date /\ Max(s) \in s /\ \A d \in s : d <= Max(s)
        /\ work[w].start <= LastUse(Max(s))
    BY <1>1, <1>2, EndOfSeries
  <2> QED
    BY <2>1, LastUseIs DEF Date
<1> HIDE DEF s
<1>4. /\ r \in Rate /\ r.date = Max(s) /\ r.at = now /\ r.expires = now + CacheTTL /\ r # None
  BY <1>1, <1>3, Settings, RatesAssumption DEF Rate
<1> HIDE DEF r
<1>5. InTime(r.date, r)
  BY <1>1, <1>2, <1>3, <1>4, Settings DEF InTime
<1>6. /\ x \in Work /\ x.pc = "persistseries" /\ x.start = work[w].start /\ x.legs = work[w].legs
      /\ x.task = work[w].task /\ x.row = r /\ x.series = s
  BY <1>1, <1>3, <1>4 DEF Work, Steps
<1> HIDE DEF x
<1>7. Moves(w) /\ work'[w] = x
  BY <1>1, <1>6, MovesTo
<1>8. WorkOK(w)'
  BY <1>1, <1>2, <1>3, <1>4, <1>5, <1>6, <1>7 DEF WorkOK, Latest, OfSeries, Busy, IssuedBy
<1> QED
  BY <1>1, <1>7, <1>8, WorkFrame DEF TypeOK

LEMMA SeriesFailsStep == ASSUME IInv, NEW w \in Workers, SeriesFails(w) PROVE IInv'
<1>1. /\ work[w].pc \in Latest \cup OfSeries
      /\ Resolved(w, work[w].series, TRUE) \/ Failed(w, "wrapped ErrRateUnavailable")
      /\ UNCHANGED <<now, issued, latestCache, table, requestCount, crashes>>
  BY DEF SeriesFails, OfSeries
<1>2. work[w].series \in SUBSET Date
  BY DEF IInv, TypeOK, Work
<1>3. Moves(w) /\ WorkOK(w)'
  BY <1>1, <1>2, ResolvedOK, FailedOK
<1> QED
  BY <1>1, <1>3, WorkFrame DEF IInv, TypeOK

\* A series is written whole: its last row was fetched in time.
LEMMA ManyUpserts ==
  ASSUME IInv, NEW w \in Workers, work[w].pc = "persistseries", table' = SeriesUpserted(w)
  PROVE  /\ table' \in [Pair \X Date -> Stored \cup {None}] /\ RowsStay
         /\ \A q \in Pair : RowsOK(q)'
<1> DEFINE row == work[w].row
           ds  == work[w].series
           s   == [at |-> row.at, expires |-> row.expires]
<1>1. /\ row \in Rate /\ row.date \in ds /\ ds \in SUBSET Date /\ \A d \in ds : d <= row.date
      /\ InTime(row.date, row) /\ work[w] \in Work /\ TypeOK
  BY DEF IInv, TypeOK, Work, WorkOK
<1>2. s \in Stored /\ s # None /\ s.at = row.at /\ s.expires = row.expires
  BY <1>1, RatesAssumption DEF Stored, Rate
<1>3. table' = [r \in Pair \X Date |-> IF r[1] = Leg(w) /\ r[2] \in ds THEN s ELSE table[r]]
  BY DEF SeriesUpserted
<1> HIDE DEF s, row, ds
<1>4. /\ table' \in [Pair \X Date -> Stored \cup {None}]
      /\ \A q \in Pair, d \in Date : table'[<<q, d>>] = IF q = Leg(w) /\ d \in ds THEN s ELSE table[<<q, d>>]
  BY <1>1, <1>2, <1>3 DEF TypeOK
<1>5. RowsStay
  BY <1>2, <1>3 DEF RowsStay
<1>6. ASSUME NEW q \in Pair, NEW d \in Date, table'[<<q, d>>] # None
      PROVE  InTime(d, table'[<<q, d>>]) \/ \E e \in Date : e > d /\ table'[<<q, e>>] # None
  <2>1. CASE q = Leg(w) /\ d \in ds
    <3>1. row.date \in Date /\ row.date \in Nat /\ d \in Nat /\ d <= row.date
      <4>1. row.date \in Date /\ d <= row.date
        BY <1>1, <2>1
      <4>2. Date \subseteq Nat
        BY DEF Date
      <4> QED
        BY <4>1, <4>2
    <3>2. CASE d = row.date
      BY <1>1, <1>2, <1>4, <2>1, <3>2 DEF InTime
    <3>3. CASE d # row.date
      <4>1. row.date > d /\ table'[<<q, row.date>>] # None
        BY <1>1, <1>2, <1>4, <2>1, <3>1, <3>3
      <4> QED
        BY <3>1, <4>1
    <3> QED
      BY <3>2, <3>3
  <2>2. CASE ~(q = Leg(w) /\ d \in ds)
    <3>1. RowsOK(q) /\ table'[<<q, d>>] = table[<<q, d>>] /\ table[<<q, d>>] # None
      BY <1>4, <1>6, <2>2 DEF IInv
    <3> QED
      BY <1>5, <3>1 DEF RowsOK, RowsStay
  <2> QED
    BY <2>1, <2>2
<1> QED
  BY <1>4, <1>5, <1>6 DEF RowsOK

LEMMA UpsertManyStep == ASSUME IInv, NEW w \in Workers, UpsertMany(w) PROVE IInv'
<1>1. /\ work[w].pc = "persistseries" /\ work[w].pc \in Latest \cup OfSeries
      /\ table' = SeriesUpserted(w) /\ Resolved(w, work[w].series, FALSE)
      /\ UNCHANGED <<now, issued, latestCache, requestCount, crashes>>
  BY DEF UpsertMany, OfSeries
<1>2. work[w].series \in SUBSET Date /\ requestCount' \in [Pair -> Nat]
  BY <1>1 DEF IInv, TypeOK, Work
<1>3. Moves(w) /\ WorkOK(w)'
  BY <1>1, <1>2, ResolvedOK
<1> QED
  BY <1>1, <1>2, <1>3, ManyUpserts, Frame

LEMMA UpsertManyFailsStep == ASSUME IInv, NEW w \in Workers, UpsertManyFails(w) PROVE IInv'
<1>1. /\ work[w].pc = "persistseries" /\ work[w].pc \in Latest \cup OfSeries
      /\ table' \in {table, SeriesUpserted(w)} /\ Failed(w, "internal")
      /\ UNCHANGED <<now, issued, latestCache, requestCount, crashes>>
  BY DEF UpsertManyFails, OfSeries
<1>2. Moves(w) /\ WorkOK(w)'
  BY <1>1, FailedOK
<1>3. requestCount' \in [Pair -> Nat]
  BY <1>1 DEF IInv, TypeOK
<1>4. CASE table' = table
  BY <1>1, <1>2, <1>3, <1>4, WorkFrame
<1>5. CASE table' = SeriesUpserted(w)
  BY <1>1, <1>2, <1>3, <1>5, ManyUpserts, Frame
<1> QED
  BY <1>1, <1>4, <1>5
-----------------------------------------------------------------------------
(* The warm-up, and the steps of nobody. *)

LEMMA TailsOf ==
  ASSUME NEW S, NEW s \in Seq(S), s # <<>>
  PROVE  Head(s) \in S /\ Tail(s) \in Seq(S)
  OBVIOUS

LEMMA StartsOf ==
  ASSUME NEW S, NEW s \in Seq(S), NEW k \in Nat, k <= Len(s)
  PROVE  SubSeq(s, 1, k) \in Seq(S)
  OBVIOUS

LEMMA ListsOf ==
  ASSUME NEW S, NEW n \in Nat, NEW t \in [1 .. n -> S]
  PROVE  t \in Seq(S) /\ Len(t) \in Nat
  OBVIOUS

\* The warm-up's list is a list of pairs.
LEMMA TopPairsAre ==
  ASSUME TypeOK, NEW s \in topPairs
  PROVE  s \in Seq(Pair)
<1> DEFINE S == {p \in Pair : requestCount[p] > 0}
<1>1. IsFiniteSet(S)
  BY RatesAssumption, FS_Product, FS_Subset DEF Pair
<1>2. Cardinality(S) \in Nat
  BY <1>1, FS_CardinalityType
<1>3. PICK t \in SetToSeqs(S) : s = SubSeq(t, 1, IF Len(t) > WarmupLimit THEN WarmupLimit ELSE Len(t))
  BY DEF topPairs
<1>4. t \in [1 .. Cardinality(S) -> S]
  BY <1>3 DEF SetToSeqs
<1>5. t \in [1 .. Cardinality(S) -> Pair]
  BY <1>4
<1>6. t \in Seq(Pair) /\ Len(t) \in Nat
  BY <1>2, <1>5, ListsOf
<1> QED
  BY <1>3, <1>6, StartsOf, RatesAssumption

LEMMA WarmStep == ASSUME IInv, NEW w \in Workers, WarmMostRequested(w) PROVE IInv'
<1>1. /\ TypeOK /\ now \in Nat /\ UNCHANGED <<now, issued, latestCache, table, requestCount, crashes>>
  BY DEF IInv, TypeOK, WarmMostRequested
<1>2. PICK s \in topPairs :
        work' = [work EXCEPT ![w] = [Idle EXCEPT !.pc = "next", !.task = "warm",
                                                 !.todo = s, !.start = now]]
  BY DEF WarmMostRequested
<1> DEFINE x == [Idle EXCEPT !.pc = "next", !.task = "warm", !.todo = s, !.start = now]
<1>3. s \in Seq(Pair)
  BY <1>1, TopPairsAre
<1>4. x \in Work /\ x.pc = "next" /\ x.start = now
  BY <1>1, <1>3, NoLegs DEF Idle, Work, Steps
<1> HIDE DEF x
<1>5. Moves(w) /\ work'[w] = x
  BY <1>1, <1>2, <1>4, MovesTo DEF x
<1>6. WorkOK(w)'
  BY <1>1, <1>4, <1>5, Settings DEF WorkOK, Latest, OfSeries, Busy
<1> QED
  BY <1>1, <1>5, <1>6, WorkFrame DEF TypeOK

LEMMA NextPairStep == ASSUME IInv, NEW w \in Workers, NextPair(w) PROVE IInv'
<1> DEFINE rest == Tail(work[w].todo)
           legs == Legs(Head(work[w].todo))
           x == [Idle EXCEPT !.pc = "leg", !.task = "warm", !.start = now, !.todo = rest, !.legs = legs]
<1>1. /\ TypeOK /\ now \in Nat /\ work[w].todo \in Seq(Pair) /\ work[w].todo # <<>>
      /\ work' = [work EXCEPT ![w] = x]
      /\ UNCHANGED <<now, issued, latestCache, table, requestCount, crashes>>
  BY DEF IInv, TypeOK, NextPair, Work
<1>2. rest \in Seq(Pair) /\ legs \in Seq(Pair) /\ legs # <<>>
  BY <1>1, TailsOf, LegsAre
<1> HIDE DEF rest, legs
<1>3. x \in Work /\ x.pc = "leg" /\ x.task = "warm" /\ x.legs # <<>> /\ x.start = now
  BY <1>1, <1>2, NoLegs DEF Idle, Work, Steps
<1> HIDE DEF x
<1>4. Moves(w) /\ work'[w] = x
  BY <1>1, <1>3, MovesTo
<1>5. WorkOK(w)'
  BY <1>1, <1>3, <1>4, Settings DEF WorkOK, Latest, OfSeries, Busy
<1> QED
  BY <1>1, <1>4, <1>5, WorkFrame DEF TypeOK

LEMMA GoesIdle ==
  ASSUME TypeOK, NEW w \in Workers, work' = [work EXCEPT ![w] = Idle]
  PROVE  Moves(w) /\ WorkOK(w)'
<1>1. Moves(w) /\ work'[w] = Idle
  BY IdleIs, MovesTo
<1> QED
  BY <1>1, IdleIs DEF WorkOK, Latest, OfSeries, Busy

LEMMA PruneFailsStep == ASSUME IInv, NEW w \in Workers, PruneFails(w) PROVE IInv'
  BY GoesIdle, WorkFrame DEF IInv, TypeOK, PruneFails

\* Pruning takes the oldest rows of each pair, and none that the cache, or a
\* request about to fill the cache, has.
LEMMA PruneStep == ASSUME IInv, NEW w \in Workers, PruneOlderThan(w) PROVE IInv'
<1>1. /\ TypeOK /\ now \in Nat /\ UNCHANGED <<now, issued, latestCache, requestCount, crashes>>
      /\ Moves(w) /\ WorkOK(w)'
  BY GoesIdle DEF IInv, TypeOK, PruneOlderThan
<1>2. table' = [r \in Pair \X Date |-> IF Pruned(r) THEN None ELSE table[r]]
  BY DEF PruneOlderThan
<1>3. /\ table' \in [Pair \X Date -> Stored \cup {None}]
      /\ \A r \in Pair \X Date : table'[r] = IF Pruned(r) THEN None ELSE table[r]
  BY <1>1, <1>2 DEF TypeOK
<1>4. ASSUME NEW p \in Pair PROVE RowsOK(p)'
  <2>1. SUFFICES ASSUME NEW d \in Date, table'[<<p, d>>] # None
                 PROVE  InTime(d, table'[<<p, d>>]) \/ \E e \in Date : e > d /\ table'[<<p, e>>] # None
    BY DEF RowsOK
  <2>2. ~Pruned(<<p, d>>) /\ table'[<<p, d>>] = table[<<p, d>>] /\ table[<<p, d>>] # None
    BY <1>3, <2>1
  <2>3. CASE InTime(d, table[<<p, d>>])
    BY <2>2, <2>3
  <2>4. CASE ~InTime(d, table[<<p, d>>])
    <3>1. PICK e \in Date : e > d /\ table[<<p, e>>] # None
      BY <2>2, <2>4 DEF IInv, RowsOK
    <3>2. d \in Nat /\ e \in Nat
      BY DEF Date
    <3> DEFINE c == (now - HistoryRetention) \div Day
    <3>3. now >= HistoryRetention => c \in Nat
      <4>1. now >= HistoryRetention => now - HistoryRetention \in Nat
        BY <1>1, Settings
      <4> QED
        BY <4>1, Settings, Days
    <3>4. Pruned(<<p, d>>) <=> (now >= HistoryRetention /\ d < c)
      BY DEF Pruned
    <3>5. Pruned(<<p, e>>) <=> (now >= HistoryRetention /\ e < c)
      BY DEF Pruned
    <3> HIDE DEF c
    <3>6. ~Pruned(<<p, e>>)
      <4>1. now >= HistoryRetention => ~(d < c)
        BY <2>2, <3>4
      <4>2. now >= HistoryRetention => ~(e < c)
        BY <3>1, <3>2, <3>3, <4>1
      <4> QED
        BY <3>5, <4>2
    <3> QED
      BY <1>3, <3>1, <3>6
  <2> QED
    BY <2>3, <2>4
<1>5. ASSUME NEW p \in Pair PROVE CacheOK(p)'
  <2>1. CacheOK(p) /\ (latestCache[p] # None => latestCache[p] \in Entry)
    BY DEF IInv, TypeOK
  <2>2. ASSUME HistoryOutlives, Cached(p) PROVE table'[<<p, latestCache[p].date>>] # None
    <3>1. /\ latestCache[p].date \in Date /\ latestCache[p].expires \in Nat
          /\ table[<<p, latestCache[p].date>>] # None /\ now < latestCache[p].expires
          /\ latestCache[p].expires <= LastUse(latestCache[p].date) + Lifetime
      BY <2>1, <2>2 DEF CacheOK, Cached, Entry
    <3>2. LastUse(latestCache[p].date) \in Nat
      BY <3>1, LastUseIs DEF Date
    <3>3. now <= LastUse(latestCache[p].date) + Lifetime
      BY <1>1, <3>1, <3>2, Settings
    <3>4. ~Pruned(<<p, latestCache[p].date>>)
      BY <1>1, <2>2, <3>1, <3>3, NotPruned
    <3> QED
      BY <1>3, <3>1, <3>4
  <2> QED
    BY <1>1, <2>1, <2>2 DEF CacheOK, Cached
<1>6. ASSUME NEW v \in Workers, v # w PROVE WorkOK(v)'
  <2>1. WorkOK(v) /\ work[v] \in Work /\ work'[v] = work[v]
    BY <1>1, <1>6 DEF IInv, TypeOK, Moves
  <2>2. ASSUME HistoryOutlives, work[v].pc = "keep"
        PROVE  table'[<<Leg(v), work[v].row.date>>] # None
    <3>1. /\ Leg(v) \in Pair /\ work[v].row.date \in Date /\ work[v].start \in Nat
          /\ table[<<Leg(v), work[v].row.date>>] # None /\ now <= work[v].start + MaxLatency
          /\ work[v].start <= LastUse(work[v].row.date) + MaxLatency + Longer(CacheTTL, StaleWindow)
      BY <1>1, <2>1, <2>2, LegIs DEF WorkOK, Latest, Busy, Work, Rate
    <3>2. LastUse(work[v].row.date) \in Nat
      BY <3>1, LastUseIs DEF Date
    <3>3. now <= LastUse(work[v].row.date) + Lifetime
      <4> DEFINE a == LastUse(work[v].row.date)
                 b == Longer(CacheTTL, StaleWindow)
      <4>1. /\ a \in Nat /\ b \in Nat /\ CacheTTL \in Nat /\ MaxLatency \in Nat
            /\ Lifetime = 2 * MaxLatency + b + CacheTTL
            /\ work[v].start <= a + MaxLatency + b /\ now <= work[v].start + MaxLatency
        BY <3>1, <3>2, Settings DEF Lifetime
      <4> HIDE DEF a, b
      <4>2. now <= a + Lifetime
        BY <1>1, <3>1, <4>1
      <4> QED
        BY <4>2 DEF a
    <3>4. ~Pruned(<<Leg(v), work[v].row.date>>)
      BY <1>1, <2>2, <3>1, <3>3, NotPruned
    <3> QED
      BY <1>3, <3>1, <3>4
  <2>3. Leg(v)' = Leg(v)
    BY <2>1 DEF Leg
  <2> QED
    BY <1>1, <2>1, <2>2, <2>3 DEF WorkOK, IssuedBy, Busy
<1>7. \A v \in Workers : WorkOK(v)'
  BY <1>1, <1>6
<1>8. TypeOK'
  BY <1>1, <1>3 DEF TypeOK, Moves
<1>9. ProviderOK'
  BY <1>1 DEF IInv, ProviderOK
<1> QED
  BY <1>4, <1>5, <1>7, <1>8, <1>9 DEF IInv

LEMMA IssueStep == ASSUME IInv, Issue PROVE IInv'
<1> DEFINE k == now \div Day
<1>1. /\ TypeOK /\ now \in Nat /\ now # None /\ k \in Nat
      /\ issued' = [issued EXCEPT ![k] = now]
      /\ UNCHANGED <<now, latestCache, table, requestCount, work, crashes>>
  <2>1. TypeOK /\ now \in Nat /\ None \notin Nat
    BY RatesAssumption DEF IInv, TypeOK
  <2>2. now <= now /\ k \in Nat
    BY <2>1, DayOf
  <2> QED
    BY <2>1, <2>2 DEF Issue
<1>2. /\ issued' \in [Date -> Nat \cup {None}]
      /\ \A d \in Date : issued'[d] = IF d = k THEN now ELSE issued[d]
  BY <1>1 DEF TypeOK
<1>3. TypeOK'
  BY <1>1, <1>2 DEF TypeOK
<1>4. ProviderOK'
  BY <1>1, <1>2 DEF IInv, ProviderOK
<1>5. \A p \in Pair : RowsOK(p)' /\ CacheOK(p)'
  BY <1>1 DEF IInv, RowsOK, CacheOK, Cached
<1>6. ASSUME NEW w \in Workers PROVE WorkOK(w)'
  <2>1. WorkOK(w) /\ (IssuedBy(work[w].start) => IssuedBy(work[w].start)')
    BY <1>1, <1>2 DEF IInv, IssuedBy
  <2>2. Leg(w)' = Leg(w) /\ Busy(w)' = Busy(w)
    BY <1>1 DEF Leg, Busy
  <2> QED
    BY <1>1, <2>1, <2>2 DEF WorkOK
<1> QED
  BY <1>3, <1>4, <1>5, <1>6 DEF IInv

LEMMA CrashStep == ASSUME IInv, Crash PROVE IInv'
<1>1. /\ TypeOK /\ UNCHANGED <<now, issued, table>> /\ crashes' = crashes + 1
      /\ latestCache' = [p \in Pair |-> None] /\ requestCount' = [p \in Pair |-> 0]
      /\ work' = [w \in Workers |-> Idle]
  BY DEF IInv, Crash
<1>2. TypeOK'
  BY <1>1, IdleIs DEF TypeOK
<1>3. ProviderOK'
  BY <1>1 DEF IInv, ProviderOK
<1>4. \A p \in Pair : RowsOK(p)' /\ CacheOK(p)'
  BY <1>1 DEF IInv, RowsOK, CacheOK
<1>5. \A w \in Workers : WorkOK(w)'
  BY <1>1, IdleIs DEF WorkOK, Latest, OfSeries, Busy
<1> QED
  BY <1>2, <1>3, <1>4, <1>5 DEF IInv

LEMMA TickStep == ASSUME IInv, Tick PROVE IInv'
<1>1. /\ TypeOK /\ ProviderOK /\ now \in Nat /\ now' = now + 1 /\ now' \in Nat
      /\ (now + 1) \div Day <= Newest + MaxLag
      /\ \A w \in Workers : Busy(w) => now < work[w].start + MaxLatency
      /\ UNCHANGED <<issued, latestCache, table, requestCount, work, crashes>>
  BY DEF IInv, TypeOK, Tick
<1>2. TypeOK'
  BY <1>1 DEF TypeOK
<1>3. ProviderOK'
  <2>1. Newest \in Date /\ issued[Newest] # None
    BY <1>1, NewestIs
  <2>2. now \div Day \in Nat /\ now' \div Day \in Nat /\ now \div Day <= now' \div Day
    <3>1. now <= now'
      BY <1>1
    <3> QED
      BY <1>1, <3>1, DayOf
  <2>3. Date \subseteq Nat
    BY DEF Date
  <2>4. ASSUME NEW d \in Date, issued[d] # None PROVE d <= now' \div Day
    <3>1. d \in Nat /\ d <= now \div Day
      BY <1>1, <2>3, <2>4 DEF ProviderOK
    <3> QED
      BY <2>2, <3>1
  <2>5. now' \div Day <= Newest + MaxLag
    BY <1>1
  <2> QED
    BY <1>1, <2>1, <2>4, <2>5 DEF ProviderOK
<1>4. ASSUME NEW p \in Pair PROVE RowsOK(p)' /\ CacheOK(p)'
  <2>1. RowsOK(p)'
    BY <1>1 DEF IInv, RowsOK
  <2>2. Cached(p)' => Cached(p)
    BY <1>1 DEF Cached, TypeOK, Entry
  <2> QED
    BY <1>1, <2>1, <2>2 DEF IInv, CacheOK
<1>5. ASSUME NEW w \in Workers PROVE WorkOK(w)'
  <2>1. WorkOK(w) /\ work[w].start \in Nat
    BY DEF IInv, TypeOK, Work
  <2>2. Leg(w)' = Leg(w) /\ Busy(w)' = Busy(w)
    BY <1>1 DEF Leg, Busy
  <2>3. IssuedBy(work[w].start) => IssuedBy(work[w].start)'
    BY <1>1 DEF IssuedBy
  <2>4. Busy(w) => work[w].start <= now' /\ now' <= work[w].start + MaxLatency
    <3>1. Busy(w) => work[w].start <= now /\ now < work[w].start + MaxLatency
      BY <1>1, <2>1 DEF WorkOK
    <3>2. MaxLatency \in Nat
      BY Settings
    <3> QED
      BY <1>1, <2>1, <3>1, <3>2
  <2> QED
    BY <1>1, <2>1, <2>2, <2>3, <2>4 DEF WorkOK
<1> QED
  BY <1>2, <1>3, <1>4, <1>5 DEF IInv

LEMMA StutterStep == ASSUME IInv, UNCHANGED vars PROVE IInv'
<1>1. UNCHANGED <<now, issued, latestCache, table, requestCount, work, crashes>>
  BY DEF vars
<1> QED
  BY <1>1 DEF IInv, TypeOK, ProviderOK, RowsOK, CacheOK, Cached, WorkOK, IssuedBy, Busy, Leg

LEMMA Invariance == Spec => []IInv
<1>1. Init => IInv
  BY InitIInv
<1>2. IInv /\ [Next]_vars => IInv'
  <2> SUFFICES ASSUME IInv, [Next]_vars PROVE IInv'
    OBVIOUS
  <2>1. CASE \E w \in Workers : Resolve(w)
    BY <2>1, HitStep, MissStep, ReadStep, AskStep, ProviderFailsStep, UpsertStep, UpsertFailsStep,
       CacheSetStep DEF Resolve
  <2>2. CASE \E w \in Workers : ResolveSeries(w)
    BY <2>2, SeriesFromRowsStep, RowsMissingStep, AskSeriesStep, SeriesFailsStep, UpsertManyStep,
       UpsertManyFailsStep DEF ResolveSeries
  <2>3. CASE \E w \in Workers : Warm(w)
    BY <2>3, WarmStep, NextPairStep, PruneStep, PruneFailsStep DEF Warm
  <2>4. CASE \E w \in Requests, p \in Conversions : Convert(w, p)
    BY <2>4, ConvertStep
  <2>5. CASE \E w \in Requests, p \in Series : Historical(w, p)
    BY <2>5, HistoricalStep
  <2>6. CASE Issue \/ Crash \/ Tick
    BY <2>6, IssueStep, CrashStep, TickStep
  <2>7. CASE UNCHANGED vars
    BY <2>7, StutterStep
  <2> QED
    BY <2>1, <2>2, <2>3, <2>4, <2>5, <2>6, <2>7 DEF Next
<1> QED
  BY <1>1, <1>2, PTL DEF Spec
-----------------------------------------------------------------------------
(* Every variable keeps its type.                                           *)
THEOREM TypeCorrect == Spec => []TypeOK
<1>1. IInv => TypeOK
  BY DEF IInv
<1> QED
  BY <1>1, Invariance, PTL

\* While the history is kept for longer than any rate is served, pruning never
\* takes a rate the cache still serves: a restart, which empties latestCache, loses none.
THEOREM RestartLosesNothing ==
  ASSUME HistoryOutlives
  PROVE  Spec => []CacheBacked
<1>1. IInv => CacheBacked
  BY DEF IInv, CacheOK, CacheBacked, Cached
<1> QED
  BY <1>1, Invariance, PTL
=============================================================================
