-------------------------- MODULE CurrencyAgeProofs --------------------------
(***************************************************************************)
(* How old an answered rate may be: the theorem about AnswerAge, for any   *)
(* currencies, requests and warm-ups, any lifetimes and slow steps.        *)
(***************************************************************************)
EXTENDS CurrencyRatesProofs

\* At the time n, with the provider's dates out: t is at most k later than n, and
\* than the moment at which a rate newer than that of date d came out.
Current(n, out, d, t, k) ==
  /\ t <= n + k
  /\ \A e \in Date : e > d /\ out[e] # None => t <= out[e] + k

\* A row of date d was written while d was the newest date, or a slow step later.
Aged(n, out, d, r) == /\ Current(n, out, d, r.at, MaxLatency)
                      /\ Current(n, out, d, r.expires, MaxLatency + CacheTTL)

\* e is the first date after d for which a rate came out.
NextOf(out, d, e) == /\ e > d /\ out[e] # None
                     /\ \A c \in Date : c > d /\ out[c] # None => e <= c

Superseded(G, g) == \E h \in G : h[1] = g[1] /\ h[2] > g[2]

\* Of each leg, the newest date in G.
GotAged(n, out, G, t, k) ==
  \A g \in G : Superseded(G, g) \/ Current(n, out, g[2], t, k)

\* The provider's rate of a date comes out on that date or later.
IssuedOK == \A d \in Date : issued[d] # None => issued[d] <= now /\ d * Day <= issued[d]

\* A row that was rewritten late, by a history request, is not the last one.
RowsAged(p) ==
  \A d \in Date : table[<<p, d>>] # None =>
    \/ Aged(now, issued, d, table[<<p, d>>])
    \/ \E e \in Date : NextOf(issued, d, e) /\ table[<<p, e>>] # None

CacheAged(p) ==
  latestCache[p] # None =>
    Current(now, issued, latestCache[p].date, latestCache[p].expires, Lifetime)

\* A conversion has two legs at most, and no rate before the first is resolved.
LegsLeft(w) ==
  \/ Tail(work[w].legs) = <<>>
  \/ work[w].got = {} /\ Tail(Tail(work[w].legs)) = <<>>

WorkAged(w) ==
  LET x == work[w] IN
  /\ x.pc \in Latest => LegsLeft(w)
  /\ x.pc \in {"leg"} \cup OfSeries => GotAged(now, issued, x.got, x.start + 1, Lifetime)
  /\ x.pc \in Latest \ {"leg"} =>
       GotAged(now, issued, x.got, x.start + 1, Lifetime + MaxLatency)
  /\ x.pc = "persist" => /\ Current(now, issued, x.row.date, x.start, 0)
                         /\ Aged(now, issued, x.row.date, x.row)
  /\ x.pc = "keep" =>
       Current(now, issued, x.row.date, x.start, MaxLatency + Longer(CacheTTL, StaleWindow))
  /\ x.pc = "rows" => x.row = None
  /\ x.pc = "askseries" /\ x.row # None =>
       /\ x.row.date \in x.series /\ \A d \in x.series : d <= x.row.date
       /\ \/ Aged(now, issued, x.row.date, x.row)
          \/ Current(now, issued, x.row.date, x.start, 0)
  /\ x.pc = "persistseries" =>
       /\ Current(now, issued, x.row.date, x.start, 0)
       /\ Aged(now, issued, x.row.date, x.row)
       /\ \A d \in x.series : d = x.row.date \/ \E e \in x.series : NextOf(issued, d, e)

AgeInv == /\ IssuedOK /\ \A p \in Pair : RowsAged(p) /\ CacheAged(p)
          /\ \A w \in Workers : WorkAged(w)
-----------------------------------------------------------------------------
(* Operators. *)

\* Copying or reading a rate gives it more time only within these bounds.
Positive == CacheTTL + MaxLatency > 0

Clock(out) == out \in [Date -> Nat \cup {None}]

LEMMA Dates == Date \subseteq Nat /\ None \notin Nat /\ \A d \in Date : d <= MaxTime \div Day
  BY Settings, RatesAssumption DEF Date

LEMMA Bounds ==
  /\ CacheTTL \in Nat /\ StaleWindow \in Nat /\ MaxLatency \in Nat
  /\ Longer(CacheTTL, StaleWindow) \in Nat /\ Lifetime \in Nat /\ AgeBound \in Nat
  /\ CacheTTL <= Longer(CacheTTL, StaleWindow) /\ StaleWindow <= Longer(CacheTTL, StaleWindow)
  /\ Lifetime = 2 * MaxLatency + Longer(CacheTTL, StaleWindow) + CacheTTL
  /\ AgeBound = 4 * MaxLatency + Longer(CacheTTL, StaleWindow) + CacheTTL
  BY Settings DEF Lifetime, AgeBound

\* What is earlier, or given more time, is still current.
LEMMA Sooner ==
  ASSUME NEW n \in Nat, NEW out, Clock(out), NEW d \in Date, NEW t \in Nat, NEW k \in Nat,
         NEW u \in Nat, NEW j \in Nat, Current(n, out, d, t, k), u + k <= t + j
  PROVE  Current(n, out, d, u, j)
<1>1. t <= n + k /\ u <= n + j
  BY DEF Current
<1>2. ASSUME NEW e \in Date, e > d, out[e] # None PROVE u <= out[e] + j
  <2>1. out[e] \in Nat /\ t <= out[e] + k
    BY <1>2 DEF Clock, Current
  <2> QED
    BY <2>1
<1> QED
  BY <1>1, <1>2 DEF Current

\* Time passes, or the rate of a date after all others comes out.
LEMMA TimePasses ==
  ASSUME NEW n \in Nat, NEW m \in Nat, n <= m, NEW out, Clock(out), NEW in, Clock(in),
         \A e \in Date : \/ in[e] = out[e]
                         \/ in[e] = m /\ \A c \in Date : out[c] # None => c < e
  PROVE  /\ \A d \in Date, t, k \in Nat : Current(n, out, d, t, k) => Current(m, in, d, t, k)
         /\ \A d, e \in Date : NextOf(out, d, e) => NextOf(in, d, e)
<1>1. ASSUME NEW d \in Date, NEW t \in Nat, NEW k \in Nat, Current(n, out, d, t, k)
      PROVE  Current(m, in, d, t, k)
  BY <1>1 DEF Current
<1>2. ASSUME NEW d \in Date, NEW e \in Date, NextOf(out, d, e) PROVE NextOf(in, d, e)
  <2>1. d \in Nat /\ e \in Nat /\ e > d /\ out[e] # None
    BY <1>2, Dates DEF NextOf
  <2>2. in[e] = out[e] \/ in[e] = m
    OBVIOUS
  <2>3. in[e] # None
    BY <2>1, <2>2, Dates
  <2>4. ASSUME NEW c \in Date, c > d, in[c] # None PROVE e <= c
    <3>1. c \in Nat
      BY Dates
    <3>2. CASE in[c] = out[c]
      BY <1>2, <2>4, <3>2 DEF NextOf
    <3>3. CASE \A b \in Date : out[b] # None => b < c
      BY <2>1, <3>1, <3>3
    <3> QED
      BY <3>2, <3>3
  <2> QED
    BY <2>1, <2>3, <2>4 DEF NextOf
<1> QED
  BY <1>1, <1>2

LEMMA GotTimePasses ==
  ASSUME NEW n, NEW m, NEW out, NEW in, NEW G \in SUBSET (Pair \X Date), NEW t \in Nat, NEW k \in Nat,
         \A d \in Date, u, j \in Nat : Current(n, out, d, u, j) => Current(m, in, d, u, j),
         GotAged(n, out, G, t, k)
  PROVE  GotAged(m, in, G, t, k)
<1>1. \A g \in G : g[2] \in Date
  OBVIOUS
<1> QED
  BY <1>1 DEF GotAged

LEMMA GotSooner ==
  ASSUME NEW n \in Nat, NEW out, Clock(out), NEW G \in SUBSET (Pair \X Date), NEW t \in Nat,
         NEW k \in Nat, NEW u \in Nat, NEW j \in Nat, GotAged(n, out, G, t, k), u + k <= t + j
  PROVE  GotAged(n, out, G, u, j)
<1>1. \A g \in G : g[2] \in Date
  OBVIOUS
<1> QED
  BY <1>1, Sooner DEF GotAged

\* A day is over before the next one begins.
LEMMA DayOver ==
  ASSUME NEW D \in Nat \ {0}, NEW x \in Nat, NEW k \in Nat, NEW j \in Nat
  PROVE  /\ k * D \in Nat
         /\ k > x \div D => x < k * D
         /\ k <= j => k * D <= j * D
<1>1. k * D \in Nat /\ (k <= j => k * D <= j * D)
  OBVIOUS
<1>2. k > x \div D => x < k * D
  OBVIOUS
<1> QED
  BY <1>1, <1>2

\* Dates have a first one.
LEMMA MinDate ==
  ASSUME NEW S \in SUBSET Nat, S # {}
  PROVE  \E m \in S : \A d \in S : m <= d
<1> DEFINE R == {p \in Nat \X Nat : p[1] < p[2]}
<1>1. IsWellFoundedOn(R, Nat)
  BY NatLessThanWellFounded DEF OpToRel
<1>2. \A x, y \in Nat : x < y => <<x, y>> \in R
  OBVIOUS
<1> HIDE DEF R
<1>3. PICK m \in S : \A d \in S : <<d, m>> \notin R
  BY <1>1, WFMin
<1>4. ASSUME NEW d \in S PROVE m <= d
  <2>1. m \in Nat /\ d \in Nat
    OBVIOUS
  <2>2. ~(d < m)
    BY <1>2, <1>3, <2>1
  <2> QED
    BY <2>1, <2>2
<1> QED
  BY <1>4

\* Before another date that is out, there is a next one.
LEMMA HasNext ==
  ASSUME NEW out, NEW d \in Date, NEW m \in Date, d < m, out[m] # None
  PROVE  \E e \in Date : e <= m /\ NextOf(out, d, e)
<1> DEFINE S == {c \in Date : c > d /\ out[c] # None}
<1>1. S \in SUBSET Nat /\ m \in S
  BY Dates
<1>2. PICK e \in S : \A c \in S : e <= c
  BY <1>1, MinDate
<1> QED
  BY <1>1, <1>2 DEF NextOf
-----------------------------------------------------------------------------
(* What steps do. *)

\* What answers.
AnswersInTime(w) ==
  work[w].pc # "answered" /\ work'[w].pc = "answered" =>
    \A g \in work'[w].got :
      \/ \E h \in work'[w].got : h[1] = g[1] /\ h[2] > g[2]
      \/ \A d \in Date : d > g[2] /\ issued[d] # None => now < issued[d] + AgeBound

LEMMA Typed ==
  ASSUME IInv
  PROVE  /\ now \in Nat /\ Clock(issued) /\ \A w \in Workers : work[w] \in Work
         /\ \A w \in Workers : work[w].start \in Nat /\ work[w].got \in SUBSET (Pair \X Date)
         /\ \A w \in Workers : work[w].series \in SUBSET Date /\ work[w].legs \in Seq(Pair)
         /\ \A w \in Workers : work[w].row # None => /\ work[w].row \in Rate /\ work[w].row.date \in Date
                                                     /\ work[w].row.at \in Nat /\ work[w].row.expires \in Nat
<1>1. TypeOK
  BY DEF IInv
<1>2. now \in Nat /\ Clock(issued) /\ \A w \in Workers : work[w] \in Work
  BY <1>1 DEF TypeOK, Clock
<1> QED
  BY <1>2 DEF Work, Rate

\* w has been busy for MaxLatency at most.
LEMMA OnTime ==
  ASSUME IInv, NEW w \in Workers, Busy(w)
  PROVE  work[w].start <= now /\ now <= work[w].start + MaxLatency
  BY DEF IInv, WorkOK

LEMMA AgeFrame ==
  ASSUME IInv, AgeInv, NEW w \in Workers, Moves(w), UNCHANGED <<now, issued>>,
         \A p \in Pair : RowsAged(p)' /\ CacheAged(p)', WorkAged(w)'
  PROVE  AgeInv'
<1>1. IssuedOK'
  BY DEF AgeInv, IssuedOK
<1>2. ASSUME NEW v \in Workers PROVE WorkAged(v)'
  <2>1. CASE v = w
    BY <2>1
  <2>2. CASE v # w
    <3>1. work'[v] = work[v] /\ WorkAged(v)
      BY <2>2 DEF Moves, AgeInv
    <3>2. LegsLeft(v)' <=> LegsLeft(v)
      BY <3>1 DEF LegsLeft
    <3> QED
      BY <3>1, <3>2 DEF WorkAged
  <2> QED
    BY <2>1, <2>2
<1> QED
  BY <1>1, <1>2 DEF AgeInv

LEMMA AgeWorkFrame ==
  ASSUME IInv, AgeInv, NEW w \in Workers, Moves(w), UNCHANGED <<now, issued, latestCache, table>>,
         WorkAged(w)'
  PROVE  AgeInv'
<1>1. \A p \in Pair : RowsAged(p)' /\ CacheAged(p)'
  BY DEF AgeInv, RowsAged, CacheAged
<1> QED
  BY <1>1, AgeFrame

LEMMA AgeInit == Init => AgeInv
<1> SUFFICES ASSUME Init PROVE AgeInv
  OBVIOUS
<1>1. IssuedOK
  <2>1. \A d \in Date : issued[d] # None => d = 0 /\ issued[d] = 0
    BY DEF Init
  <2>2. 0 * Day = 0 /\ now = 0
    BY Settings DEF Init
  <2> QED
    BY <2>1, <2>2 DEF IssuedOK
<1>2. \A p \in Pair : RowsAged(p) /\ CacheAged(p)
  BY DEF Init, RowsAged, CacheAged
<1>3. \A w \in Workers : WorkAged(w)
  BY IdleIs DEF Init, WorkAged, Latest, OfSeries
<1> QED
  BY <1>1, <1>2, <1>3 DEF AgeInv

\* The rest of the step in which a leg is resolved.
LEMMA ResolvedRest ==
  ASSUME IInv, NEW w \in Workers, work[w].legs # <<>>, NEW D \in SUBSET Date, NEW b \in BOOLEAN,
         Resolved(w, D, b)
  PROVE  /\ work'[w].got = work[w].got \cup ({Leg(w)} \X D) /\ work'[w].row = None
         /\ work'[w].legs = Tail(work[w].legs)
         /\ work'[w].pc = IF Tail(work[w].legs) = <<>>
                          THEN IF work[w].task = "warm" THEN "next" ELSE "answered"
                          ELSE IF work[w].task = "history" THEN "rows" ELSE "leg"
<1>1. work[w] \in Work /\ work \in [Workers -> Work]
  BY DEF IInv, TypeOK
<1> DEFINE g == work[w].got \cup ({Leg(w)} \X D)
           st == work[w].stale \/ b
           r == [work[w] EXCEPT !.legs = Tail(@), !.stale = st, !.row = None, !.series = {}, !.got = g]
           pc == IF r.legs = <<>> THEN IF r.task = "warm" THEN "next" ELSE "answered"
                 ELSE IF r.task = "history" THEN "rows" ELSE "leg"
           x == [r EXCEPT !.pc = pc]
<1>2. work' = [work EXCEPT ![w] = x]
  BY DEF Resolved
<1> HIDE DEF g, st
<1>3. r.got = g /\ r.row = None /\ r.legs = Tail(work[w].legs) /\ r.task = work[w].task
  BY <1>1 DEF Work
<1>4. x.got = r.got /\ x.row = r.row /\ x.legs = r.legs /\ x.pc = pc
  BY <1>1 DEF Work
<1> HIDE DEF x, r
<1>5. work'[w] = x
  BY <1>1, <1>2
<1> QED
  BY <1>3, <1>4, <1>5 DEF g

\* Of the dates D of a leg, the newest was current a while before the step began,
\* and is so still.
Answerable(w, D) ==
  \A d \in D : \/ \E e \in D : e > d
               \/ /\ Current(now, issued, d, work[w].start + 1, Lifetime)
                  /\ \A e \in Date : e > d /\ issued[e] # None => now < issued[e] + AgeBound

LEMMA GotGrows ==
  ASSUME IInv, NEW w \in Workers, NEW p, NEW D \in SUBSET Date, Answerable(w, D),
         NEW k \in Nat, k >= Lifetime,
         GotAged(now, issued, work[w].got, work[w].start + 1, k)
  PROVE  GotAged(now, issued, work[w].got \cup ({p} \X D), work[w].start + 1, k)
<1> DEFINE G == work[w].got \cup ({p} \X D)
<1>1. /\ now \in Nat /\ Clock(issued) /\ work[w].start \in Nat
  BY Typed
<1>2. ASSUME NEW g \in G
      PROVE  Superseded(G, g) \/ Current(now, issued, g[2], work[w].start + 1, k)
  <2>1. CASE g \in work[w].got
    BY <2>1 DEF GotAged, Superseded
  <2>2. CASE g \in {p} \X D
    <3>1. PICK d \in D : g = <<p, d>>
      BY <2>2
    <3>2. CASE \E e \in D : e > d
      <4>1. PICK e \in D : e > d
        BY <3>2
      <4>2. <<p, e>> \in G /\ <<p, e>>[1] = g[1] /\ <<p, e>>[2] > g[2]
        BY <3>1, <4>1
      <4> QED
        BY <4>2 DEF Superseded
    <3>3. CASE Current(now, issued, d, work[w].start + 1, Lifetime)
      <4>1. /\ d \in Date /\ g[2] = d /\ work[w].start + 1 \in Nat /\ Lifetime \in Nat
            /\ (work[w].start + 1) + Lifetime <= (work[w].start + 1) + k
        BY <1>1, <3>1, Bounds
      <4> QED
        BY <1>1, <3>3, <4>1, Sooner, SMTT(30)
    <3> QED
      BY <3>2, <3>3 DEF Answerable
  <2> QED
    BY <2>1, <2>2
<1> QED
  BY <1>2 DEF GotAged

LEMMA ResolvedAged ==
  ASSUME IInv, AgeInv, NEW w \in Workers, work[w].pc \in {"leg", "keep"} \cup OfSeries,
         NEW D \in SUBSET Date, NEW b \in BOOLEAN, Resolved(w, D, b), UNCHANGED <<now, issued>>,
         Answerable(w, D)
  PROVE  Moves(w) /\ WorkAged(w)' /\ AnswersInTime(w)
<1>1. /\ WorkOK(w) /\ TypeOK /\ work[w].legs # <<>> /\ Busy(w)
      /\ now \in Nat /\ Clock(issued) /\ work[w].start \in Nat /\ WorkAged(w)
      /\ work[w].got \in SUBSET (Pair \X Date)
  BY Typed DEF IInv, WorkOK, Latest, OfSeries, Busy, AgeInv
<1>2. Moves(w) /\ work'[w].start = work[w].start
  BY <1>1, ResolvedIs
<1>3. /\ work'[w].got = work[w].got \cup ({Leg(w)} \X D) /\ work'[w].row = None
      /\ work'[w].legs = Tail(work[w].legs)
      /\ work'[w].pc = IF Tail(work[w].legs) = <<>>
                       THEN IF work[w].task = "warm" THEN "next" ELSE "answered"
                       ELSE IF work[w].task = "history" THEN "rows" ELSE "leg"
  BY <1>1, ResolvedRest
<1>4. Leg(w) \in Pair
  BY <1>1, LegIs
<1> DEFINE G == work[w].got
           H == work[w].got \cup ({Leg(w)} \X D)
<1>types. /\ work[w].start + 1 \in Nat /\ Lifetime \in Nat /\ Lifetime + MaxLatency \in Nat
      /\ Lifetime + MaxLatency >= Lifetime /\ Lifetime >= Lifetime
      /\ (work[w].start + 1) + Lifetime <= (work[w].start + 1) + (Lifetime + MaxLatency)
  <2>1. work[w].start \in Nat /\ Lifetime \in Nat /\ MaxLatency \in Nat
    BY <1>1, Bounds
  <2> QED
    BY <2>1
<1>5. GotAged(now, issued, G, work[w].start + 1, Lifetime + MaxLatency)
  <2>1. CASE work[w].pc = "keep"
    BY <1>1, <2>1 DEF WorkAged, Latest
  <2>2. CASE work[w].pc # "keep"
    <3>1. GotAged(now, issued, G, work[w].start + 1, Lifetime)
      BY <1>1, <2>2 DEF WorkAged
    <3> QED
      BY <1>1, <1>types, <3>1, GotSooner
  <2> QED
    BY <2>1, <2>2
<1>6. H \in SUBSET (Pair \X Date)
  BY <1>1, <1>4
<1>7. GotAged(now, issued, H, work[w].start + 1, Lifetime + MaxLatency)
  BY <1>types, <1>5, GotGrows
<1>8. work'[w].pc \in {"rows", "leg"} => GotAged(now, issued, H, work[w].start + 1, Lifetime)
  <2>1. SUFFICES ASSUME work'[w].pc \in {"rows", "leg"}
                 PROVE  GotAged(now, issued, G, work[w].start + 1, Lifetime)
    BY <1>types, GotGrows
  <2>2. CASE work[w].pc = "keep"
    <3>1. LegsLeft(w) /\ Tail(work[w].legs) # <<>>
      BY <1>1, <1>3, <2>1, <2>2 DEF WorkAged, Latest
    <3>2. G = {}
      BY <3>1 DEF LegsLeft
    <3> QED
      BY <3>2 DEF GotAged
  <2>3. CASE work[w].pc # "keep"
    BY <1>1, <2>3 DEF WorkAged
  <2> QED
    BY <2>2, <2>3
<1>9. work'[w].pc = "leg" => LegsLeft(w)'
  <2>1. SUFFICES ASSUME work'[w].pc = "leg" PROVE LegsLeft(w)'
    OBVIOUS
  <2>2. work[w].task # "history" /\ Tail(work[w].legs) # <<>>
    BY <1>3, <2>1
  <2>3. work[w].pc \in Latest
    BY <1>1, <2>2 DEF WorkOK, Latest
  <2> QED
    BY <1>1, <1>3, <2>2, <2>3 DEF WorkAged, LegsLeft
<1>10. WorkAged(w)'
  BY <1>2, <1>3, <1>8, <1>9 DEF WorkAged, Latest, OfSeries
<1>11. AnswersInTime(w)
  <2>1. SUFFICES ASSUME NEW g \in H
                 PROVE  \/ Superseded(H, g)
                        \/ \A d \in Date : d > g[2] /\ issued[d] # None => now < issued[d] + AgeBound
    BY <1>3 DEF AnswersInTime, Superseded
  <2>2. CASE Superseded(H, g)
    BY <2>2
  <2>3. CASE Current(now, issued, g[2], work[w].start + 1, Lifetime + MaxLatency)
    <3>1. now <= work[w].start + MaxLatency
      BY <1>1, OnTime
    <3>2. ASSUME NEW d \in Date, d > g[2], issued[d] # None PROVE now < issued[d] + AgeBound
      <4>1. issued[d] \in Nat /\ work[w].start + 1 <= issued[d] + (Lifetime + MaxLatency)
        BY <1>1, <2>3, <3>2 DEF Clock, Current
      <4>2. Lifetime + MaxLatency + MaxLatency = AgeBound /\ Lifetime \in Nat /\ MaxLatency \in Nat
        BY Bounds
      <4> QED
        BY <1>1, <3>1, <4>1, <4>2
    <3> QED
      BY <3>2
  <2> QED
    BY <1>7, <2>1, <2>2, <2>3 DEF GotAged
<1> QED
  BY <1>2, <1>10, <1>11

\* A step that does not answer.
LEMMA Unanswered ==
  ASSUME NEW w, work'[w].pc # "answered" \/ work'[w].pc = work[w].pc \/ work'[w].got = {}
  PROVE  AnswersInTime(w)
  BY DEF AnswersInTime

LEMMA FailedAged ==
  ASSUME IInv, NEW w \in Workers, work[w].pc \in Latest \cup OfSeries,
         NEW e \in {"internal", "ErrRateUnavailable", "wrapped ErrRateUnavailable"}, Failed(w, e)
  PROVE  Moves(w) /\ WorkAged(w)' /\ AnswersInTime(w)
<1>1. Moves(w) /\ work'[w].pc \in {"next", "failed"}
  BY FailedIs DEF IInv
<1>2. WorkAged(w)'
  BY <1>1 DEF WorkAged, Latest, OfSeries
<1> QED
  BY <1>1, <1>2, Unanswered
-----------------------------------------------------------------------------
(* Conversions. *)

LEMMA MissAged ==
  ASSUME IInv, AgeInv, NEW w \in Workers, CacheMiss(w) PROVE AgeInv' /\ Moves(w) /\ AnswersInTime(w)
<1> DEFINE x == [work[w] EXCEPT !.pc = "database", !.start = now]
<1>1. /\ TypeOK /\ work[w] \in Work /\ work[w].pc = "leg" /\ WorkAged(w) /\ now \in Nat
      /\ work' = [work EXCEPT ![w] = x] /\ work[w].start \in Nat /\ Clock(issued)
      /\ work[w].got \in SUBSET (Pair \X Date)
      /\ UNCHANGED <<now, issued, latestCache, table, requestCount, crashes>>
  BY Typed DEF IInv, AgeInv, CacheMiss
<1>2. /\ x \in Work /\ x.pc = "database" /\ x.start = now /\ x.legs = work[w].legs
      /\ x.got = work[w].got
  BY <1>1 DEF Work, Steps
<1> HIDE DEF x
<1>3. Moves(w) /\ work'[w] = x
  BY <1>1, <1>2, MovesTo
<1>4. GotAged(now, issued, work[w].got, now + 1, Lifetime + MaxLatency)
  <2>1. now <= work[w].start + MaxLatency
    BY <1>1, OnTime DEF Busy
  <2>2. /\ work[w].start + 1 \in Nat /\ now + 1 \in Nat /\ Lifetime \in Nat /\ Lifetime + MaxLatency \in Nat
        /\ (now + 1) + Lifetime <= (work[w].start + 1) + (Lifetime + MaxLatency)
    <3>1. Lifetime \in Nat /\ MaxLatency \in Nat
      BY Bounds
    <3> QED
      BY <1>1, <2>1, <3>1
  <2>3. GotAged(now, issued, work[w].got, work[w].start + 1, Lifetime)
    BY <1>1 DEF WorkAged
  <2> QED
    BY <1>1, <2>2, <2>3, GotSooner
<1>5. WorkAged(w)'
  BY <1>1, <1>2, <1>3, <1>4 DEF WorkAged, Latest, OfSeries, LegsLeft
<1> QED
  BY <1>1, <1>2, <1>3, <1>5, AgeWorkFrame, Unanswered

LEMMA HitAged ==
  ASSUME Positive, IInv, AgeInv, NEW w \in Workers, CacheHit(w) PROVE AgeInv' /\ Moves(w) /\ AnswersInTime(w)
<1> DEFINE c == latestCache[Leg(w)]
<1>1. /\ work[w].pc = "leg" /\ UNCHANGED <<now, issued, latestCache, table, requestCount, crashes>>
      /\ Resolved(w, {c.date}, FALSE) /\ c # None /\ now < c.expires
  BY DEF CacheHit, Cached
<1>2. Leg(w) \in Pair
  BY <1>1, LegIs DEF IInv, WorkOK, Latest
<1>3. /\ c.date \in Date /\ c.expires \in Nat /\ Current(now, issued, c.date, c.expires, Lifetime)
  BY <1>1, <1>2 DEF IInv, TypeOK, Entry, AgeInv, CacheAged
<1> HIDE DEF c
<1>4. now \in Nat /\ Clock(issued) /\ work[w].start \in Nat /\ work[w].start <= now
  BY <1>1, Typed, OnTime DEF Busy
<1>5. Current(now, issued, c.date, work[w].start + 1, Lifetime)
  <2>1. /\ work[w].start + 1 \in Nat /\ Lifetime \in Nat
        /\ (work[w].start + 1) + Lifetime <= c.expires + Lifetime
    BY <1>1, <1>3, <1>4, Bounds
  <2> QED
    BY <1>3, <1>4, <2>1, Sooner, SMTT(30)
<1>6. ASSUME NEW e \in Date, e > c.date, issued[e] # None PROVE now < issued[e] + AgeBound
  <2>1. issued[e] \in Nat /\ c.expires <= issued[e] + Lifetime
    BY <1>3, <1>4, <1>6 DEF Clock, Current
  <2>2. Lifetime \in Nat /\ AgeBound \in Nat /\ Lifetime <= AgeBound
    BY Bounds
  <2> QED
    BY <1>1, <1>3, <1>4, <2>1, <2>2
<1>7. Answerable(w, {c.date})
  BY <1>5, <1>6 DEF Answerable
<1>8. Moves(w) /\ WorkAged(w)' /\ AnswersInTime(w)
  BY <1>1, <1>3, <1>7, ResolvedAged
<1> QED
  BY <1>1, <1>8, AgeWorkFrame

\* The newest row of a pair was written while its date was the newest.
LEMMA NewestRowAged ==
  ASSUME IInv, AgeInv, NEW p \in Pair, GetLatest(p) # None
  PROVE  /\ GetLatest(p) \in Rate
         /\ Aged(now, issued, GetLatest(p).date, GetLatest(p))
<1> DEFINE m == Max(Rows(p))
<1>1. Rows(p) \in SUBSET Nat /\ Rows(p) \subseteq Date /\ Rows(p) # {}
  BY Dates DEF Rows, GetLatest
<1>2. \A d \in Rows(p) : d <= MaxTime \div Day
  BY Dates DEF Rows
<1>3. m \in Rows(p) /\ \A d \in Rows(p) : d <= m
  BY <1>1, <1>2, MaxDate, Settings
<1> HIDE DEF m
<1>4. m \in Date /\ table[<<p, m>>] # None
  BY <1>3 DEF Rows
<1>5. GetLatest(p) = Row(p, m)
  BY <1>1 DEF GetLatest, m
<1>6. /\ Row(p, m).date = m /\ Row(p, m).at = table[<<p, m>>].at
      /\ Row(p, m).expires = table[<<p, m>>].expires
  BY DEF Row
<1>7. ASSUME NEW e \in Date, NextOf(issued, m, e), table[<<p, e>>] # None PROVE FALSE
  <2>1. e \in Rows(p) /\ e \in Nat /\ m \in Nat /\ e > m
    BY <1>4, <1>7, Dates DEF Rows, NextOf
  <2> QED
    BY <1>3, <2>1
<1>8. Aged(now, issued, m, table[<<p, m>>])
  BY <1>4, <1>7 DEF AgeInv, RowsAged
<1> QED
  BY <1>5, <1>6, <1>8, NewestRow DEF Aged

LEMMA ReadAged ==
  ASSUME IInv, AgeInv, NEW w \in Workers, ReadDatabase(w) PROVE AgeInv' /\ Moves(w) /\ AnswersInTime(w)
<1>1. /\ TypeOK /\ work[w] \in Work /\ work[w].pc = "database" /\ WorkAged(w) /\ now \in Nat
      /\ UNCHANGED <<now, issued, latestCache, table, requestCount, crashes>> /\ Clock(issued)
      /\ Leg(w) \in Pair /\ work[w].start \in Nat
  BY LegIs, Typed DEF IInv, AgeInv, ReadDatabase, WorkOK, Latest
<1>2. PICK r \in {GetLatest(Leg(w)), None} :
        work' = [work EXCEPT ![w].row = r,
                   ![w].stale = @ \/ (r # None /\ ~Fresh(w, r) /\ InStaleWindow(w, r)),
                   ![w].pc = IF r # None /\ (Fresh(w, r) \/ InStaleWindow(w, r))
                             THEN "keep" ELSE "ask"]
  BY DEF ReadDatabase
<1>3. r # None => r \in Rate /\ Aged(now, issued, r.date, r)
  BY <1>1, <1>2, NewestRowAged
<1> DEFINE st == work[w].stale \/ (r # None /\ ~Fresh(w, r) /\ InStaleWindow(w, r))
           pc == IF r # None /\ (Fresh(w, r) \/ InStaleWindow(w, r)) THEN "keep" ELSE "ask"
           x == [work[w] EXCEPT !.row = r, !.stale = st, !.pc = pc]
<1>4. st \in BOOLEAN
  BY <1>1 DEF Work
<1>5. pc \in Steps /\ work' = [work EXCEPT ![w] = x]
  BY <1>1, <1>2 DEF Steps
<1>6. pc = "keep" => r # None /\ (work[w].start < r.expires \/ work[w].start <= r.at + StaleWindow)
  BY DEF Fresh, InStaleWindow
<1>7. pc \in {"keep", "ask"}
  OBVIOUS
<1> HIDE DEF st, pc
<1>8. /\ x \in Work /\ x.pc = pc /\ x.start = work[w].start /\ x.legs = work[w].legs
      /\ x.got = work[w].got /\ x.row = r
  BY <1>1, <1>3, <1>4, <1>5 DEF Work
<1> HIDE DEF x
<1>9. Moves(w) /\ work'[w] = x
  BY <1>1, <1>5, <1>8, MovesTo
<1>10. ASSUME pc = "keep"
       PROVE  Current(now, issued, r.date, work[w].start, MaxLatency + Longer(CacheTTL, StaleWindow))
  <2> DEFINE b == Longer(CacheTTL, StaleWindow)
  <2>1. /\ r.date \in Date /\ r.at \in Nat /\ r.expires \in Nat
        /\ Current(now, issued, r.date, r.at, MaxLatency)
        /\ Current(now, issued, r.date, r.expires, MaxLatency + CacheTTL)
    BY <1>3, <1>6, <1>10 DEF Rate, Aged
  <2>2. /\ MaxLatency \in Nat /\ CacheTTL \in Nat /\ StaleWindow \in Nat /\ b \in Nat
        /\ CacheTTL <= b /\ StaleWindow <= b /\ MaxLatency + b \in Nat /\ MaxLatency + CacheTTL \in Nat
    BY Bounds
  <2> HIDE DEF b
  <2>3. CASE work[w].start < r.expires
    <3>1. work[w].start + (MaxLatency + CacheTTL) <= r.expires + (MaxLatency + b)
      BY <1>1, <2>1, <2>2, <2>3
    <3>2. Current(now, issued, r.date, work[w].start, MaxLatency + b)
      BY <1>1, <2>1, <2>2, <3>1, Sooner, SMTT(30)
    <3> QED
      BY <3>2 DEF b
  <2>4. CASE work[w].start <= r.at + StaleWindow
    <3>1. work[w].start + MaxLatency <= r.at + (MaxLatency + b)
      BY <1>1, <2>1, <2>2, <2>4
    <3>2. Current(now, issued, r.date, work[w].start, MaxLatency + b)
      BY <1>1, <2>1, <2>2, <3>1, Sooner, SMTT(30)
    <3> QED
      BY <3>2 DEF b
  <2> QED
    BY <1>6, <1>10, <2>3, <2>4
<1>11. WorkAged(w)'
  BY <1>1, <1>7, <1>8, <1>9, <1>10 DEF WorkAged, Latest, OfSeries, LegsLeft
<1> QED
  BY <1>1, <1>7, <1>8, <1>9, <1>11, AgeWorkFrame, Unanswered

LEMMA AskAged ==
  ASSUME IInv, AgeInv, NEW w \in Workers, AskProvider(w) PROVE AgeInv' /\ Moves(w) /\ AnswersInTime(w)
<1> DEFINE r == [date |-> Newest, at |-> Newest * Day, expires |-> work[w].start + CacheTTL]
           x == [work[w] EXCEPT !.pc = "persist", !.row = r]
<1>1. /\ TypeOK /\ work[w] \in Work /\ work[w].pc = "ask" /\ WorkAged(w) /\ now \in Nat
      /\ work' = [work EXCEPT ![w] = x] /\ work[w].start \in Nat
      /\ UNCHANGED <<now, issued, latestCache, table, requestCount, crashes>>
  BY Typed DEF IInv, AgeInv, AskProvider
<1>2. /\ Newest \in Date /\ Newest * Day \in Nat /\ Newest * Day <= now
      /\ \A d \in Date : issued[d] # None => d <= Newest
  BY NewestIs DEF IInv
<1>3. /\ r \in Rate /\ r.date = Newest /\ r.at = Newest * Day /\ r.expires = work[w].start + CacheTTL
  BY <1>1, <1>2, Settings DEF Rate
<1> HIDE DEF r
<1>4. \A e \in Date : e > r.date => issued[e] = None
  <2>1. \A e \in Date : e \in Nat
    BY Dates
  <2>2. Newest \in Nat
    BY <1>2, Dates
  <2> QED
    BY <1>2, <1>3, <2>1, <2>2
<1>5. work[w].start <= now
  BY <1>1, OnTime DEF Busy
<1>6. Current(now, issued, r.date, work[w].start, 0) /\ Aged(now, issued, r.date, r)
  <2>1. MaxLatency \in Nat /\ CacheTTL \in Nat
    BY Bounds
  <2>2. /\ work[w].start <= now + 0 /\ r.at <= now + MaxLatency
        /\ r.expires <= now + (MaxLatency + CacheTTL)
    BY <1>1, <1>2, <1>3, <1>5, <2>1
  <2> QED
    BY <1>4, <2>2 DEF Current, Aged
<1>7. /\ x \in Work /\ x.pc = "persist" /\ x.start = work[w].start /\ x.legs = work[w].legs
      /\ x.got = work[w].got /\ x.row = r
  BY <1>1, <1>3 DEF Work, Steps
<1> HIDE DEF x
<1>8. Moves(w) /\ work'[w] = x
  BY <1>1, <1>7, MovesTo
<1>9. WorkAged(w)'
  BY <1>1, <1>6, <1>7, <1>8 DEF WorkAged, Latest, OfSeries, LegsLeft
<1> QED
  BY <1>1, <1>7, <1>8, <1>9, AgeWorkFrame, Unanswered

LEMMA ProviderFailsAged ==
  ASSUME IInv, AgeInv, NEW w \in Workers, ProviderFails(w) PROVE AgeInv' /\ Moves(w) /\ AnswersInTime(w)
<1>1. /\ work[w].pc \in Latest \cup OfSeries
      /\ UNCHANGED <<now, issued, latestCache, table, requestCount, crashes>>
  BY DEF ProviderFails, Latest
<1>2. PICK e \in {"wrapped ErrRateUnavailable", "ErrRateUnavailable"} : Failed(w, e)
  BY DEF ProviderFails
<1>3. Moves(w) /\ WorkAged(w)' /\ AnswersInTime(w)
  BY <1>1, <1>2, FailedAged
<1> QED
  BY <1>1, <1>3, AgeWorkFrame

\* One row is written, as fetched.
LEMMA UpsertsAged ==
  ASSUME IInv, AgeInv, NEW p \in Pair, NEW r \in Rate, Aged(now, issued, r.date, r),
         table' = Upserted(p, r), UNCHANGED <<now, issued, latestCache>>
  PROVE  \A q \in Pair : RowsAged(q)' /\ CacheAged(q)'
<1> DEFINE s == [at |-> r.at, expires |-> r.expires]
<1>1. /\ s # None /\ r.date \in Date /\ s.at = r.at /\ s.expires = r.expires
      /\ <<p, r.date>> \in Pair \X Date /\ s \in Stored
  BY RatesAssumption DEF Stored, Rate
<1>2. table' = [table EXCEPT ![<<p, r.date>>] = s]
  BY DEF Upserted
<1> HIDE DEF s
<1>3. /\ table'[<<p, r.date>>] = s
      /\ \A y \in Pair \X Date : y # <<p, r.date>> => table'[y] = table[y]
  BY <1>1, <1>2 DEF IInv, TypeOK
<1>4. \A y \in Pair \X Date : table[y] # None => table'[y] # None
  BY <1>1, <1>3
<1>5. ASSUME NEW q \in Pair, NEW d \in Date, table'[<<q, d>>] # None
      PROVE  \/ Aged(now', issued', d, table'[<<q, d>>])
             \/ \E e \in Date : NextOf(issued', d, e) /\ table'[<<q, e>>] # None
  <2>1. CASE <<q, d>> = <<p, r.date>>
    <3>1. d = r.date /\ table'[<<q, d>>] = s
      BY <1>3, <2>1
    <3> QED
      BY <1>1, <3>1 DEF Aged
  <2>2. CASE <<q, d>> # <<p, r.date>>
    <3>1. RowsAged(q) /\ table'[<<q, d>>] = table[<<q, d>>] /\ table[<<q, d>>] # None
      BY <1>3, <1>5, <2>2 DEF AgeInv
    <3> QED
      BY <1>4, <3>1 DEF RowsAged
  <2> QED
    BY <2>1, <2>2
<1> QED
  BY <1>5 DEF RowsAged, CacheAged, AgeInv

LEMMA UpsertAged ==
  ASSUME IInv, AgeInv, NEW w \in Workers, Upsert(w) PROVE AgeInv' /\ Moves(w) /\ AnswersInTime(w)
<1> DEFINE x == [work[w] EXCEPT !.pc = "keep"]
<1>1. /\ TypeOK /\ work[w] \in Work /\ work[w].pc = "persist" /\ WorkAged(w)
      /\ work' = [work EXCEPT ![w] = x] /\ table' = Upserted(Leg(w), work[w].row)
      /\ UNCHANGED <<now, issued, latestCache, requestCount, crashes>>
      /\ now \in Nat /\ Clock(issued) /\ work[w].start \in Nat
  BY Typed DEF IInv, AgeInv, Upsert
<1>2. Leg(w) \in Pair /\ work[w].row \in Rate /\ work[w].row.date \in Date
  BY <1>1, ToPersist DEF Rate
<1>3. /\ Current(now, issued, work[w].row.date, work[w].start, 0)
      /\ Aged(now, issued, work[w].row.date, work[w].row)
  BY <1>1 DEF WorkAged
<1>4. \A q \in Pair : RowsAged(q)' /\ CacheAged(q)'
  BY <1>1, <1>2, <1>3, UpsertsAged
<1>5. /\ x \in Work /\ x.pc = "keep" /\ x.start = work[w].start /\ x.legs = work[w].legs
      /\ x.got = work[w].got /\ x.row = work[w].row
  BY <1>1 DEF Work, Steps
<1> HIDE DEF x
<1>6. Moves(w) /\ work'[w] = x
  BY <1>1, <1>5, MovesTo
<1>7. Current(now, issued, work[w].row.date, work[w].start, MaxLatency + Longer(CacheTTL, StaleWindow))
  <2>1. MaxLatency + Longer(CacheTTL, StaleWindow) \in Nat
    BY Bounds
  <2>2. work[w].start + 0 <= work[w].start + (MaxLatency + Longer(CacheTTL, StaleWindow))
    BY <1>1, <2>1
  <2> QED
    BY <1>1, <1>2, <1>3, <2>1, <2>2, Sooner
<1>8. WorkAged(w)'
  BY <1>1, <1>5, <1>6, <1>7 DEF WorkAged, Latest, OfSeries, LegsLeft
<1> QED
  BY <1>1, <1>4, <1>5, <1>6, <1>8, AgeFrame, Unanswered

LEMMA UpsertFailsAged ==
  ASSUME IInv, AgeInv, NEW w \in Workers, UpsertFails(w) PROVE AgeInv' /\ Moves(w) /\ AnswersInTime(w)
<1>1. /\ work[w].pc = "persist" /\ work[w].pc \in Latest \cup OfSeries
      /\ table' \in {table, Upserted(Leg(w), work[w].row)} /\ Failed(w, "internal")
      /\ UNCHANGED <<now, issued, latestCache, requestCount, crashes>>
  BY DEF UpsertFails, Latest
<1>2. Moves(w) /\ WorkAged(w)' /\ AnswersInTime(w)
  BY <1>1, FailedAged
<1>3. CASE table' = table
  BY <1>1, <1>2, <1>3, AgeWorkFrame
<1>4. CASE table' = Upserted(Leg(w), work[w].row)
  <2>1. Aged(now, issued, work[w].row.date, work[w].row)
    BY <1>1 DEF AgeInv, WorkAged
  <2>2. \A q \in Pair : RowsAged(q)' /\ CacheAged(q)'
    BY <1>1, <1>4, <2>1, ToPersist, UpsertsAged
  <2> QED
    BY <1>1, <1>2, <2>2, AgeFrame
<1> QED
  BY <1>1, <1>3, <1>4

LEMMA CacheSetAged ==
  ASSUME Positive, IInv, AgeInv, NEW w \in Workers, CacheSet(w) PROVE AgeInv' /\ Moves(w) /\ AnswersInTime(w)
<1> DEFINE c == [date |-> work[w].row.date, expires |-> now + CacheTTL]
           b == Longer(CacheTTL, StaleWindow)
<1>1. /\ TypeOK /\ work[w].pc = "keep" /\ WorkOK(w) /\ WorkAged(w) /\ now \in Nat
      /\ work[w].start \in Nat /\ Clock(issued) /\ work[w].legs # <<>>
      /\ latestCache' = [latestCache EXCEPT ![Leg(w)] = c]
      /\ Resolved(w, {work[w].row.date}, FALSE)
      /\ UNCHANGED <<now, issued, table, requestCount, crashes>>
  BY Typed DEF IInv, AgeInv, CacheSet, WorkOK, Latest
<1>2. Leg(w) \in Pair /\ work[w].row.date \in Date
  BY <1>1, LegIs, Typed DEF WorkOK
<1>3. c.date = work[w].row.date /\ c.expires = now + CacheTTL
  OBVIOUS
<1> HIDE DEF c
<1>4. /\ latestCache'[Leg(w)] = c
      /\ \A p \in Pair : p # Leg(w) => latestCache'[p] = latestCache[p]
  BY <1>1, <1>2 DEF TypeOK
<1>5. Current(now, issued, c.date, work[w].start, MaxLatency + b) /\ now <= work[w].start + MaxLatency
  BY <1>1, <1>3, OnTime DEF WorkAged, Latest, Busy
<1>6. /\ MaxLatency \in Nat /\ CacheTTL \in Nat /\ b \in Nat /\ Lifetime \in Nat /\ AgeBound \in Nat
      /\ Lifetime = 2 * MaxLatency + b + CacheTTL /\ AgeBound = 4 * MaxLatency + b + CacheTTL
      /\ MaxLatency + b \in Nat /\ CacheTTL + MaxLatency > 0
  BY Bounds DEF Positive
<1> HIDE DEF b
<1>types. now \in Nat /\ work[w].start \in Nat /\ c.date \in Date /\ Clock(issued)
  BY <1>1, <1>2, <1>3
<1>7. Current(now, issued, c.date, c.expires, Lifetime)
  <2>1. c.expires + (MaxLatency + b) <= work[w].start + Lifetime /\ c.expires \in Nat
    BY <1>types, <1>3, <1>5, <1>6
  <2> QED
    BY <1>types, <1>5, <1>6, <2>1, Sooner, SMTT(30)
<1>8. Current(now, issued, c.date, work[w].start + 1, Lifetime)
  <2>1. (work[w].start + 1) + (MaxLatency + b) <= work[w].start + Lifetime /\ work[w].start + 1 \in Nat
    BY <1>types, <1>6
  <2> QED
    BY <1>types, <1>5, <1>6, <2>1, Sooner, SMTT(30)
<1>9. ASSUME NEW e \in Date, e > c.date, issued[e] # None PROVE now < issued[e] + AgeBound
  <2>1. issued[e] \in Nat /\ work[w].start <= issued[e] + (MaxLatency + b)
    BY <1>1, <1>5, <1>9 DEF Clock, Current
  <2> QED
    BY <1>1, <1>5, <1>6, <2>1
<1>10. Answerable(w, {c.date})
  BY <1>8, <1>9 DEF Answerable
<1>11. Moves(w) /\ WorkAged(w)' /\ AnswersInTime(w)
  <2>1. {c.date} \in SUBSET Date
    BY <1>2, <1>3
  <2> QED
    BY <1>1, <1>3, <1>10, <2>1, ResolvedAged
<1>12. ASSUME NEW p \in Pair PROVE RowsAged(p)' /\ CacheAged(p)'
  <2>1. RowsAged(p)'
    BY <1>1 DEF AgeInv, RowsAged
  <2>2. CASE p = Leg(w)
    BY <1>1, <1>4, <1>7, <2>1, <2>2 DEF CacheAged
  <2>3. CASE p # Leg(w)
    BY <1>1, <1>4, <2>1, <2>3 DEF AgeInv, CacheAged
  <2> QED
    BY <2>2, <2>3
<1> QED
  BY <1>1, <1>11, <1>12, AgeFrame
-----------------------------------------------------------------------------
(* Requests begin; series. *)

\* A worker that has just begun has got nothing.
LEMMA NothingGot == \A n, out, t, k : GotAged(n, out, {}, t, k)
  BY DEF GotAged

LEMMA Tails12 ==
  ASSUME NEW S, NEW a \in S, NEW b \in S
  PROVE  Tail(<<a>>) = <<>> /\ Tail(Tail(<<a, b>>)) = <<>>
<1>1. Tail(<<a>>) = <<>>
  OBVIOUS
<1>2. Tail(<<a, b>>) = <<b>>
  OBVIOUS
<1>3. Tail(<<b>>) = <<>>
  OBVIOUS
<1> QED
  BY <1>1, <1>2, <1>3

LEMMA TwoLegs ==
  ASSUME NEW p \in Pair
  PROVE  Tail(Legs(p)) = <<>> \/ Tail(Tail(Legs(p))) = <<>>
<1>1. p[1] \in Currencies /\ p[2] \in Currencies /\ USD \in Currencies
  BY RatesAssumption DEF Pair
<1>2. <<p[1], USD>> \in Pair /\ <<USD, p[2]>> \in Pair
  BY <1>1 DEF Pair
<1> HIDE DEF Pair
<1> QED
  BY <1>2, Tails12 DEF Legs

LEMMA ConvertAged ==
  ASSUME IInv, AgeInv, NEW w \in Requests, NEW p \in Conversions, Convert(w, p)
  PROVE  AgeInv' /\ w \in Workers /\ Moves(w) /\ AnswersInTime(w)
<1> DEFINE x == [Idle EXCEPT !.pc = "leg", !.task = "convert", !.legs = Legs(p), !.start = now]
           y == [Idle EXCEPT !.pc = "answered", !.task = "convert"]
<1>1. /\ TypeOK /\ w \in Workers /\ p \in Pair /\ now \in Nat
      /\ work' = [work EXCEPT ![w] = IF p[1] = p[2] THEN y ELSE x]
      /\ UNCHANGED <<now, issued, latestCache, table, crashes>>
  BY RatesAssumption DEF IInv, TypeOK, Convert, Workers
<1>2. /\ x \in Work /\ x.pc = "leg" /\ x.legs = Legs(p) /\ x.got = {}
      /\ y \in Work /\ y.pc = "answered" /\ y.got = {}
  BY <1>1, LegsAre, NoLegs DEF Idle, Work, Steps
<1> HIDE DEF x, y
<1>3. Moves(w) /\ work'[w] \in {x, y}
  BY <1>1, <1>2, MovesTo
<1>4. WorkAged(w)'
  <2>1. CASE work'[w] = y
    BY <1>2, <2>1 DEF WorkAged, Latest, OfSeries
  <2>2. CASE work'[w] = x
    <3>1. LegsLeft(w)'
      BY <1>1, <1>2, <2>2, TwoLegs DEF LegsLeft
    <3>2. GotAged(now', issued', x.got, x.start + 1, Lifetime)
      BY <1>2, NothingGot
    <3> QED
      BY <1>2, <2>2, <3>1, <3>2 DEF WorkAged, Latest, OfSeries
  <2> QED
    BY <1>3, <2>1, <2>2
<1> QED
  BY <1>1, <1>2, <1>3, <1>4, AgeWorkFrame, Unanswered

LEMMA HistoricalAged ==
  ASSUME IInv, AgeInv, NEW w \in Requests, NEW p \in Series, Historical(w, p)
  PROVE  AgeInv' /\ w \in Workers /\ Moves(w) /\ AnswersInTime(w)
<1> DEFINE x == [Idle EXCEPT !.pc = "rows", !.task = "history", !.legs = Legs(p), !.start = now]
           y == [Idle EXCEPT !.pc = "answered", !.task = "history"]
<1>1. /\ TypeOK /\ w \in Workers /\ p \in Pair /\ now \in Nat
      /\ work' = [work EXCEPT ![w] = IF p[1] = p[2] THEN y ELSE x]
      /\ UNCHANGED <<now, issued, latestCache, table, crashes>>
  BY RatesAssumption DEF IInv, TypeOK, Historical, Workers
<1>2. /\ x \in Work /\ x.pc = "rows" /\ x.row = None /\ x.got = {}
      /\ y \in Work /\ y.pc = "answered" /\ y.got = {}
  BY <1>1, LegsAre, NoLegs DEF Idle, Work, Steps
<1> HIDE DEF x, y
<1>3. Moves(w) /\ work'[w] \in {x, y}
  BY <1>1, <1>2, MovesTo
<1>4. WorkAged(w)'
  <2>1. CASE work'[w] = y
    BY <1>2, <2>1 DEF WorkAged, Latest, OfSeries
  <2>2. CASE work'[w] = x
    BY <1>2, <2>2, NothingGot DEF WorkAged, Latest, OfSeries
  <2> QED
    BY <1>3, <2>1, <2>2
<1> QED
  BY <1>1, <1>2, <1>3, <1>4, AgeWorkFrame, Unanswered

\* A date after the day on which the request began came out after it began.
LEMMA LaterDates ==
  ASSUME IInv, AgeInv, NEW w \in Workers, NEW e \in Date, issued[e] # None,
         e > work[w].start \div Day
  PROVE  issued[e] \in Nat /\ work[w].start <= issued[e]
<1>1. issued[e] \in Nat /\ e \in Nat /\ work[w].start \in Nat /\ Day \in Nat \ {0}
  BY Typed, Dates, Settings DEF Clock
<1>2. e * Day \in Nat /\ work[w].start < e * Day
  BY <1>1, DayOver
<1>3. e * Day <= issued[e]
  BY DEF AgeInv, IssuedOK
<1> QED
  BY <1>1, <1>2, <1>3

\* A series whose newest date was current when the request began answers in time.
LEMMA SeriesAnswerable ==
  ASSUME Positive, IInv, NEW w \in Workers, Busy(w), NEW s \in SUBSET Date, NEW m \in s,
         \A d \in s : d <= m, Current(now, issued, m, work[w].start, 0)
  PROVE  Answerable(w, s)
<1>1. /\ now \in Nat /\ Clock(issued) /\ work[w].start \in Nat /\ m \in Date
      /\ now <= work[w].start + MaxLatency
  BY Typed, OnTime
<1>2. /\ MaxLatency \in Nat /\ Lifetime \in Nat /\ AgeBound \in Nat /\ Lifetime > 0
      /\ MaxLatency < AgeBound
  <2> DEFINE b == Longer(CacheTTL, StaleWindow)
  <2>1. /\ MaxLatency \in Nat /\ CacheTTL \in Nat /\ b \in Nat /\ CacheTTL + MaxLatency > 0
        /\ Lifetime = 2 * MaxLatency + b + CacheTTL /\ AgeBound = 4 * MaxLatency + b + CacheTTL
    BY Bounds DEF Positive
  <2> HIDE DEF b
  <2> QED
    BY <2>1
<1>3. Current(now, issued, m, work[w].start + 1, Lifetime)
  <2>1. /\ work[w].start + 1 \in Nat /\ 0 \in Nat
        /\ (work[w].start + 1) + 0 <= work[w].start + Lifetime
    BY <1>1, <1>2
  <2> QED
    BY <1>1, <1>2, <2>1, Sooner
<1>4. ASSUME NEW e \in Date, e > m, issued[e] # None PROVE now < issued[e] + AgeBound
  <2>1. issued[e] \in Nat /\ work[w].start <= issued[e] + 0
    BY <1>1, <1>4 DEF Clock, Current
  <2> QED
    BY <1>1, <1>2, <2>1
<1>5. ASSUME NEW d \in s, d # m PROVE m > d
  <2>1. d \in Nat /\ m \in Nat /\ d <= m
    BY Dates
  <2> QED
    BY <1>5, <2>1
<1> QED
  BY <1>3, <1>4, <1>5 DEF Answerable

LEMMA SeriesFromRowsAged ==
  ASSUME Positive, IInv, AgeInv, NEW w \in Workers, SeriesFromRows(w)
  PROVE  AgeInv' /\ Moves(w) /\ AnswersInTime(w)
<1> DEFINE s == {d \in Rows(Leg(w)) : InRange(w, d)}
<1>1. /\ work[w].pc = "rows" /\ Resolved(w, s, FALSE)
      /\ s # {} /\ work[w].start <= (Max(s) + 1) * Day
      /\ UNCHANGED <<now, issued, latestCache, table, requestCount, crashes>>
  BY DEF SeriesFromRows, ReadsToEnd
<1>2. s \in SUBSET Date /\ s \in SUBSET Nat /\ \A d \in s : d <= MaxTime \div Day
  BY Dates DEF Rows
<1>3. Max(s) \in s /\ \A d \in s : d <= Max(s)
  BY <1>1, <1>2, MaxDate, Settings
<1> HIDE DEF s
<1>4. Max(s) \in Nat /\ Max(s) \in Date /\ work[w].start \in Nat /\ now \in Nat /\ Clock(issued)
  BY <1>2, <1>3, Typed
<1>5. work[w].start <= now
  BY <1>1, OnTime DEF Busy
<1>6. ASSUME NEW e \in Date, e > Max(s), issued[e] # None PROVE work[w].start <= issued[e]
  <2>1. e \in Nat /\ Max(s) + 1 <= e /\ Max(s) + 1 \in Nat /\ Day \in Nat \ {0} /\ issued[e] \in Nat
    BY <1>4, <1>6, Dates, Settings DEF Clock
  <2>2. (Max(s) + 1) * Day \in Nat /\ e * Day \in Nat /\ (Max(s) + 1) * Day <= e * Day
    BY <2>1, DayOver
  <2>3. e * Day <= issued[e]
    BY <1>6 DEF AgeInv, IssuedOK
  <2> QED
    BY <1>1, <1>4, <2>1, <2>2, <2>3
<1>7. Current(now, issued, Max(s), work[w].start, 0)
  <2>1. \A e \in Date : issued[e] # None => issued[e] \in Nat
    BY <1>4 DEF Clock
  <2> QED
    BY <1>4, <1>5, <1>6, <2>1 DEF Current
<1>8. Answerable(w, s)
  BY <1>1, <1>2, <1>3, <1>7, SeriesAnswerable DEF Busy
<1>9. Moves(w) /\ WorkAged(w)' /\ AnswersInTime(w)
  BY <1>1, <1>2, <1>8, ResolvedAged DEF OfSeries
<1> QED
  BY <1>1, <1>9, AgeWorkFrame

LEMMA RowsMissingAged ==
  ASSUME IInv, AgeInv, NEW w \in Workers, RowsMissing(w) PROVE AgeInv' /\ Moves(w) /\ AnswersInTime(w)
<1> DEFINE s == {d \in Rows(Leg(w)) : InRange(w, d)}
           m == Max(s)
           r == IF s = {} THEN None ELSE Row(Leg(w), m)
           x == [work[w] EXCEPT !.pc = "askseries", !.series = s, !.row = r]
           y == [work[w] EXCEPT !.pc = "askseries"]
           t == work[w].start \div Day
<1>1. /\ TypeOK /\ work[w] \in Work /\ work[w].pc = "rows" /\ WorkAged(w)
      /\ work' \in {[work EXCEPT ![w] = x], [work EXCEPT ![w] = y]}
      /\ UNCHANGED <<now, issued, latestCache, table, requestCount, crashes>>
      /\ Leg(w) \in Pair /\ now \in Nat /\ Clock(issued) /\ work[w].start \in Nat
  <2>1. /\ work[w].pc = "rows" /\ UNCHANGED <<now, issued, latestCache, table, requestCount, crashes>>
        /\ work' \in {[work EXCEPT ![w] = x], [work EXCEPT ![w] = y]}
    BY DEF RowsMissing
  <2>2. TypeOK /\ WorkAged(w) /\ Leg(w) \in Pair
    BY <2>1, LegIs DEF IInv, AgeInv, WorkOK, OfSeries
  <2>3. work[w] \in Work /\ now \in Nat /\ Clock(issued) /\ work[w].start \in Nat
    BY Typed
  <2> QED
    BY <2>1, <2>2, <2>3
<1>2. s \in SUBSET Date /\ s \in SUBSET Nat /\ \A d \in s : d <= MaxTime \div Day
  BY Dates DEF Rows
<1>3. s # {} => /\ m \in s /\ m \in Date /\ table[<<Leg(w), m>>] # None /\ InRange(w, m)
                /\ \A d \in s : d <= m
  BY <1>2, MaxDate, Settings DEF Rows
<1>4. s # {} => /\ r \in Rate /\ r.date = m /\ r.at = table[<<Leg(w), m>>].at
                /\ r.expires = table[<<Leg(w), m>>].expires
  <2>1. SUFFICES ASSUME s # {} PROVE Row(Leg(w), m) \in Rate
    BY DEF Row
  <2>2. table[<<Leg(w), m>>] \in Stored
    BY <1>1, <1>3, <2>1 DEF TypeOK
  <2> QED
    BY <1>3, <2>1, <2>2 DEF Row, Rate, Stored
<1>5. ASSUME s # {}, ~Aged(now, issued, r.date, r) PROVE Current(now, issued, r.date, work[w].start, 0)
  <2>1. ~Aged(now, issued, m, table[<<Leg(w), m>>])
    BY <1>4, <1>5 DEF Aged
  <2>2. PICK e \in Date : NextOf(issued, m, e) /\ table[<<Leg(w), e>>] # None
    BY <1>1, <1>3, <1>5, <2>1 DEF AgeInv, RowsAged
  <2>3. m \in Nat /\ e \in Nat /\ e > m /\ t \in Nat /\ RangeDays \in Nat
    BY <1>1, <1>3, <1>5, <2>2, Dates, Settings, DayOf DEF NextOf
  <2>4. ~InRange(w, e)
    <3>1. e \in s => e <= m
      BY <1>3, <1>5
    <3> QED
      BY <2>2, <2>3, <3>1 DEF Rows
  <2>5. e > t
    <3>1. m + RangeDays >= t /\ ~(e + RangeDays >= t /\ e <= t)
      BY <1>3, <1>5, <2>4 DEF InRange
    <3> HIDE DEF t
    <3> QED
      BY <2>3, <3>1
  <2>6. ASSUME NEW c \in Date, c > m, issued[c] # None PROVE work[w].start <= issued[c] + 0
    <3>1. c \in Nat /\ e <= c
      BY <2>2, <2>6, Dates DEF NextOf
    <3>2. c > t
      BY <2>3, <2>5, <3>1
    <3>3. issued[c] \in Nat /\ work[w].start <= issued[c]
      BY <2>6, <3>2, LaterDates
    <3> QED
      BY <3>3
  <2>7. work[w].start <= now + 0
    <3>1. work[w].start <= now
      BY <1>1, OnTime DEF Busy
    <3> QED
      BY <1>1, <3>1
  <2> QED
    BY <1>4, <1>5, <2>6, <2>7 DEF Current
<1>6. r \in Rate \cup {None}
  BY <1>4
<1>7. r # None => s # {}
  OBVIOUS
<1> HIDE DEF s, r, m
<1>8. /\ x \in Work /\ x.pc = "askseries" /\ x.start = work[w].start /\ x.got = work[w].got
      /\ x.row = r /\ x.series = s
      /\ y \in Work /\ y.pc = "askseries" /\ y.start = work[w].start /\ y.got = work[w].got
      /\ y.row = work[w].row
  BY <1>1, <1>2, <1>6 DEF Work, Steps
<1> HIDE DEF x, y
<1>9. Moves(w) /\ work'[w] \in {x, y}
  BY <1>1, <1>8, MovesTo
<1>10. GotAged(now, issued, work[w].got, work[w].start + 1, Lifetime) /\ work[w].row = None
  BY <1>1 DEF WorkAged, OfSeries
<1>11. WorkAged(w)'
  <2>1. CASE work'[w] = x
    BY <1>1, <1>3, <1>4, <1>5, <1>7, <1>8, <1>10, <2>1 DEF WorkAged, Latest, OfSeries
  <2>2. CASE work'[w] = y
    BY <1>1, <1>8, <1>10, <2>2 DEF WorkAged, Latest, OfSeries
  <2> QED
    BY <1>9, <2>1, <2>2
<1> QED
  BY <1>1, <1>8, <1>9, <1>11, AgeWorkFrame, Unanswered

LEMMA AskSeriesAged ==
  ASSUME IInv, AgeInv, NEW w \in Workers, AskSeries(w) PROVE AgeInv' /\ Moves(w) /\ AnswersInTime(w)
<1> DEFINE s == {d \in Date : issued[d] # None /\ InRange(w, d)}
           m == Max(s)
           r == [date |-> m, at |-> now, expires |-> now + CacheTTL]
           x == [work[w] EXCEPT !.pc = "persistseries", !.series = s, !.row = r]
           t == work[w].start \div Day
<1>1. /\ TypeOK /\ work[w] \in Work /\ work[w].pc = "askseries" /\ WorkAged(w) /\ s # {} /\ now \in Nat
      /\ work' = [work EXCEPT ![w] = x] /\ work[w].start \in Nat /\ Clock(issued)
      /\ UNCHANGED <<now, issued, latestCache, table, requestCount, crashes>>
  BY Typed DEF IInv, AgeInv, AskSeries
<1>2. work[w].start <= now /\ now <= work[w].start + MaxLatency /\ MaxLatency \in Nat /\ CacheTTL \in Nat
  BY <1>1, OnTime, Bounds DEF Busy
<1>3. s \in SUBSET Date /\ s \in SUBSET Nat /\ \A d \in s : d <= MaxTime \div Day
  BY Dates
<1>4. m \in s /\ m \in Date /\ InRange(w, m) /\ \A d \in s : d <= m
  BY <1>1, <1>3, MaxDate, Settings
<1>5. ASSUME NEW e \in Date, e > m, issued[e] # None PROVE issued[e] \in Nat /\ work[w].start <= issued[e]
  <2>1. e \in Nat /\ m \in Nat /\ t \in Nat /\ RangeDays \in Nat
    BY <1>1, <1>4, Dates, Settings, DayOf
  <2>2. ~(e + RangeDays >= t /\ e <= t)
    <3>1. e \in s => e <= m
      BY <1>4
    <3>2. e \notin s
      BY <1>5, <2>1, <3>1
    <3> QED
      BY <1>5, <3>2 DEF InRange
  <2>3. m + RangeDays >= t
    BY <1>4 DEF InRange
  <2>4. e > t
    <3> HIDE DEF t, m
    <3> QED
      BY <1>5, <2>1, <2>2, <2>3
  <2> QED
    BY <1>5, <2>4, LaterDates
<1>6. ASSUME NEW d \in s, d # m PROVE \E e \in s : NextOf(issued, d, e)
  <2>1. d \in Date /\ d \in Nat /\ m \in Nat /\ d < m /\ issued[m] # None /\ t \in Nat /\ RangeDays \in Nat
    BY <1>1, <1>3, <1>4, <1>6, Settings, DayOf
  <2>2. PICK e \in Date : e <= m /\ NextOf(issued, d, e)
    BY <1>4, <2>1, HasNext
  <2>3. e \in Nat /\ e > d /\ issued[e] # None
    BY <2>2, Dates DEF NextOf
  <2>4. d + RangeDays >= t /\ m <= t
    BY <1>4 DEF InRange
  <2>5. e + RangeDays >= t /\ e <= t
    <3> HIDE DEF t, m
    <3> QED
      BY <2>1, <2>2, <2>3, <2>4
  <2>6. e \in s
    BY <2>3, <2>5 DEF InRange
  <2> QED
    BY <2>2, <2>6
<1> HIDE DEF s, m
<1>7. /\ r \in Rate /\ r.date = m /\ r.at = now /\ r.expires = now + CacheTTL
  BY <1>1, <1>4, Settings DEF Rate
<1> HIDE DEF r
<1>8. Current(now, issued, m, work[w].start, 0)
  <2>1. \A e \in Date : e > m /\ issued[e] # None => work[w].start <= issued[e] + 0
    BY <1>5
  <2>2. work[w].start <= now + 0
    BY <1>1, <1>2
  <2> QED
    BY <2>1, <2>2 DEF Current
<1>9. Aged(now, issued, m, r)
  <2>1. /\ r.at \in Nat /\ r.expires \in Nat /\ MaxLatency + CacheTTL \in Nat /\ 0 \in Nat
        /\ r.at + 0 <= work[w].start + MaxLatency
        /\ r.expires + 0 <= work[w].start + (MaxLatency + CacheTTL)
    BY <1>1, <1>2, <1>7
  <2> QED
    BY <1>1, <1>2, <1>4, <1>8, <2>1, Sooner DEF Aged
<1>10. /\ x \in Work /\ x.pc = "persistseries" /\ x.start = work[w].start /\ x.got = work[w].got
       /\ x.row = r /\ x.series = s
  BY <1>1, <1>3, <1>7 DEF Work, Steps
<1> HIDE DEF x
<1>11. Moves(w) /\ work'[w] = x
  BY <1>1, <1>10, MovesTo
<1>12. GotAged(now, issued, work[w].got, work[w].start + 1, Lifetime)
  BY <1>1 DEF WorkAged, OfSeries
<1>13. WorkAged(w)'
  BY <1>1, <1>6, <1>7, <1>8, <1>9, <1>10, <1>11, <1>12 DEF WorkAged, Latest, OfSeries
<1> QED
  BY <1>1, <1>10, <1>11, <1>13, AgeWorkFrame, Unanswered

LEMMA SeriesFailsAged ==
  ASSUME Positive, IInv, AgeInv, NEW w \in Workers, SeriesFails(w)
  PROVE  AgeInv' /\ Moves(w) /\ AnswersInTime(w)
<1> DEFINE r == work[w].row
           s == work[w].series
           b == Longer(CacheTTL, StaleWindow)
<1>1. /\ work[w].pc = "askseries" /\ work[w].pc \in Latest \cup OfSeries
      /\ UNCHANGED <<now, issued, latestCache, table, requestCount, crashes>>
      /\ IF r # None /\ now <= r.at + StaleWindow
         THEN Resolved(w, s, TRUE) ELSE Failed(w, "wrapped ErrRateUnavailable")
  BY DEF SeriesFails, OfSeries
<1>2. /\ WorkAged(w) /\ s \in SUBSET Date /\ now \in Nat /\ Clock(issued) /\ work[w].start \in Nat
      /\ work[w].start <= now
  BY <1>1, Typed, OnTime DEF AgeInv, Busy
<1>3. CASE r # None /\ now <= r.at + StaleWindow
  <2>1. /\ r.date \in s /\ r.date \in Date /\ r.at \in Nat /\ \A d \in s : d <= r.date
        /\ Aged(now, issued, r.date, r) \/ Current(now, issued, r.date, work[w].start, 0)
    BY <1>1, <1>2, <1>3, Typed DEF WorkAged
  <2>2. Resolved(w, s, TRUE) /\ now <= r.at + StaleWindow
    BY <1>1, <1>3
  <2>3. Busy(w) /\ work[w].pc \in OfSeries
    BY <1>1 DEF Busy, OfSeries
  <2> HIDE DEF r, s
  <2>4. ASSUME Current(now, issued, r.date, work[w].start, 0) PROVE Answerable(w, s)
    BY <1>2, <2>1, <2>3, <2>4, SeriesAnswerable
  <2>5. ASSUME Current(now, issued, r.date, r.at, MaxLatency) PROVE Answerable(w, s)
    <3>1. /\ MaxLatency \in Nat /\ CacheTTL \in Nat /\ b \in Nat /\ Lifetime \in Nat /\ AgeBound \in Nat
          /\ Lifetime = 2 * MaxLatency + b + CacheTTL /\ AgeBound = 4 * MaxLatency + b + CacheTTL
          /\ StaleWindow \in Nat /\ StaleWindow <= b /\ CacheTTL + MaxLatency > 0
      BY Bounds DEF Positive
    <3> HIDE DEF b
    <3>2. /\ work[w].start + 1 \in Nat
          /\ (work[w].start + 1) + MaxLatency <= r.at + Lifetime
      BY <1>2, <2>1, <2>2, <3>1
    <3>3. Current(now, issued, r.date, work[w].start + 1, Lifetime)
      BY <1>2, <2>1, <2>5, <3>1, <3>2, Sooner, SMTT(30)
    <3>4. ASSUME NEW e \in Date, e > r.date, issued[e] # None PROVE now < issued[e] + AgeBound
      <4>1. issued[e] \in Nat /\ r.at <= issued[e] + MaxLatency
        BY <1>2, <2>5, <3>4 DEF Clock, Current
      <4> QED
        BY <1>2, <2>1, <2>2, <3>1, <4>1
    <3>5. ASSUME NEW d \in s, d # r.date PROVE r.date > d
      <4>1. d \in Nat /\ r.date \in Nat /\ d <= r.date
        BY <1>2, <2>1, Dates
      <4> QED
        BY <3>5, <4>1
    <3> QED
      BY <2>1, <3>3, <3>4, <3>5 DEF Answerable
  <2>6. Answerable(w, s)
    BY <2>1, <2>4, <2>5 DEF Aged
  <2>7. Moves(w) /\ WorkAged(w)' /\ AnswersInTime(w)
    BY <1>1, <1>2, <2>2, <2>3, <2>6, ResolvedAged
  <2> QED
    BY <1>1, <2>7, AgeWorkFrame
<1>4. CASE ~(r # None /\ now <= r.at + StaleWindow)
  <2>1. Moves(w) /\ WorkAged(w)' /\ AnswersInTime(w)
    BY <1>1, <1>4, FailedAged
  <2> QED
    BY <1>1, <2>1, AgeWorkFrame
<1> QED
  BY <1>3, <1>4

\* A series is written whole: each row but the last has the next one after it.
LEMMA ManyUpsertsAged ==
  ASSUME IInv, AgeInv, NEW w \in Workers, work[w].pc = "persistseries", table' = SeriesUpserted(w),
         UNCHANGED <<now, issued, latestCache>>
  PROVE  \A q \in Pair : RowsAged(q)' /\ CacheAged(q)'
<1> DEFINE row == work[w].row
           ds  == work[w].series
           s   == [at |-> row.at, expires |-> row.expires]
<1>1. /\ row \in Rate /\ row.date \in ds /\ ds \in SUBSET Date /\ TypeOK
      /\ Aged(now, issued, row.date, row)
      /\ \A d \in ds : d = row.date \/ \E e \in ds : NextOf(issued, d, e)
  BY Typed DEF IInv, WorkOK, AgeInv, WorkAged
<1>2. s \in Stored /\ s # None /\ s.at = row.at /\ s.expires = row.expires
  BY <1>1, RatesAssumption DEF Stored, Rate
<1>3. table' = [r \in Pair \X Date |-> IF r[1] = Leg(w) /\ r[2] \in ds THEN s ELSE table[r]]
  BY DEF SeriesUpserted
<1> HIDE DEF s, row, ds
<1>4. \A q \in Pair, d \in Date : table'[<<q, d>>] = IF q = Leg(w) /\ d \in ds THEN s ELSE table[<<q, d>>]
  BY <1>1, <1>2, <1>3 DEF TypeOK
<1>5. \A q \in Pair, d \in Date : table[<<q, d>>] # None => table'[<<q, d>>] # None
  BY <1>2, <1>4
<1>6. ASSUME NEW q \in Pair, NEW d \in Date, table'[<<q, d>>] # None
      PROVE  \/ Aged(now', issued', d, table'[<<q, d>>])
             \/ \E e \in Date : NextOf(issued', d, e) /\ table'[<<q, e>>] # None
  <2>1. CASE q = Leg(w) /\ d \in ds
    <3>1. CASE d = row.date
      BY <1>1, <1>2, <1>4, <2>1, <3>1 DEF Aged
    <3>2. CASE d # row.date
      <4>1. PICK e \in ds : NextOf(issued, d, e)
        BY <1>1, <2>1, <3>2
      <4>2. e \in Date /\ table'[<<q, e>>] # None
        BY <1>1, <1>2, <1>4, <2>1
      <4> QED
        BY <4>1, <4>2
    <3> QED
      BY <3>1, <3>2
  <2>2. CASE ~(q = Leg(w) /\ d \in ds)
    <3>1. RowsAged(q) /\ table'[<<q, d>>] = table[<<q, d>>] /\ table[<<q, d>>] # None
      BY <1>4, <1>6, <2>2 DEF AgeInv
    <3> QED
      BY <1>5, <3>1 DEF RowsAged
  <2> QED
    BY <2>1, <2>2
<1> QED
  BY <1>6 DEF RowsAged, CacheAged, AgeInv

LEMMA UpsertManyAged ==
  ASSUME Positive, IInv, AgeInv, NEW w \in Workers, UpsertMany(w)
  PROVE  AgeInv' /\ Moves(w) /\ AnswersInTime(w)
<1>1. /\ work[w].pc = "persistseries" /\ Busy(w) /\ work[w].pc \in OfSeries
      /\ table' = SeriesUpserted(w) /\ Resolved(w, work[w].series, FALSE)
      /\ UNCHANGED <<now, issued, latestCache, requestCount, crashes>>
  BY DEF UpsertMany, OfSeries, Busy
<1>2. /\ work[w].series \in SUBSET Date /\ work[w].row.date \in work[w].series
      /\ \A d \in work[w].series : d <= work[w].row.date
      /\ Current(now, issued, work[w].row.date, work[w].start, 0)
  BY <1>1, Typed DEF IInv, WorkOK, AgeInv, WorkAged
<1>3. Answerable(w, work[w].series)
  BY <1>1, <1>2, SeriesAnswerable
<1>4. Moves(w) /\ WorkAged(w)' /\ AnswersInTime(w)
  BY <1>1, <1>2, <1>3, ResolvedAged
<1> QED
  BY <1>1, <1>4, ManyUpsertsAged, AgeFrame

LEMMA UpsertManyFailsAged ==
  ASSUME IInv, AgeInv, NEW w \in Workers, UpsertManyFails(w) PROVE AgeInv' /\ Moves(w) /\ AnswersInTime(w)
<1>1. /\ work[w].pc = "persistseries" /\ work[w].pc \in Latest \cup OfSeries
      /\ table' \in {table, SeriesUpserted(w)} /\ Failed(w, "internal")
      /\ UNCHANGED <<now, issued, latestCache, requestCount, crashes>>
  BY DEF UpsertManyFails, OfSeries
<1>2. Moves(w) /\ WorkAged(w)' /\ AnswersInTime(w)
  BY <1>1, FailedAged
<1>3. CASE table' = table
  BY <1>1, <1>2, <1>3, AgeWorkFrame
<1>4. CASE table' = SeriesUpserted(w)
  BY <1>1, <1>2, <1>4, ManyUpsertsAged, AgeFrame
<1> QED
  BY <1>1, <1>3, <1>4
-----------------------------------------------------------------------------
(* The warm-up, and the steps of nobody. *)

LEMMA WarmAged ==
  ASSUME IInv, AgeInv, NEW w \in Workers, WarmMostRequested(w) PROVE AgeInv' /\ Moves(w) /\ AnswersInTime(w)
<1>1. /\ TypeOK /\ now \in Nat /\ UNCHANGED <<now, issued, latestCache, table, requestCount, crashes>>
  BY DEF IInv, TypeOK, WarmMostRequested
<1>2. PICK s \in topPairs :
        work' = [work EXCEPT ![w] = [Idle EXCEPT !.pc = "next", !.task = "warm",
                                                 !.todo = s, !.start = now]]
  BY DEF WarmMostRequested
<1> DEFINE x == [Idle EXCEPT !.pc = "next", !.task = "warm", !.todo = s, !.start = now]
<1>3. s \in Seq(Pair)
  BY <1>1, TopPairsAre
<1>4. x \in Work /\ x.pc = "next"
  BY <1>1, <1>3, NoLegs DEF Idle, Work, Steps
<1> HIDE DEF x
<1>5. Moves(w) /\ work'[w] = x
  BY <1>1, <1>2, <1>4, MovesTo DEF x
<1>6. WorkAged(w)'
  BY <1>4, <1>5 DEF WorkAged, Latest, OfSeries
<1> QED
  BY <1>1, <1>4, <1>5, <1>6, AgeWorkFrame, Unanswered

LEMMA NextPairAged ==
  ASSUME IInv, AgeInv, NEW w \in Workers, NextPair(w) PROVE AgeInv' /\ Moves(w) /\ AnswersInTime(w)
<1> DEFINE rest == Tail(work[w].todo)
           p == Head(work[w].todo)
           x == [Idle EXCEPT !.pc = "leg", !.task = "warm", !.start = now, !.todo = rest, !.legs = Legs(p)]
<1>1. /\ TypeOK /\ now \in Nat /\ work[w].todo \in Seq(Pair) /\ work[w].todo # <<>>
      /\ work' = [work EXCEPT ![w] = x]
      /\ UNCHANGED <<now, issued, latestCache, table, requestCount, crashes>>
  BY DEF IInv, TypeOK, NextPair, Work
<1>2. rest \in Seq(Pair) /\ p \in Pair
  BY <1>1, TailsOf
<1> HIDE DEF rest, p
<1>3. x \in Work /\ x.pc = "leg" /\ x.legs = Legs(p) /\ x.got = {}
  BY <1>1, <1>2, LegsAre, NoLegs DEF Idle, Work, Steps
<1> HIDE DEF x
<1>4. Moves(w) /\ work'[w] = x
  BY <1>1, <1>3, MovesTo
<1>5. LegsLeft(w)'
  BY <1>2, <1>3, <1>4, TwoLegs DEF LegsLeft
<1>6. GotAged(now', issued', x.got, x.start + 1, Lifetime)
  BY <1>3, NothingGot
<1>7. WorkAged(w)'
  BY <1>3, <1>4, <1>5, <1>6 DEF WorkAged, Latest, OfSeries
<1> QED
  BY <1>1, <1>3, <1>4, <1>7, AgeWorkFrame, Unanswered

LEMMA IdleAged ==
  ASSUME TypeOK, NEW w \in Workers, work' = [work EXCEPT ![w] = Idle]
  PROVE  Moves(w) /\ WorkAged(w)' /\ AnswersInTime(w)
<1>1. Moves(w) /\ work'[w] = Idle
  BY IdleIs, MovesTo
<1> QED
  BY <1>1, IdleIs, Unanswered DEF WorkAged, Latest, OfSeries

LEMMA PruneFailsAged ==
  ASSUME IInv, AgeInv, NEW w \in Workers, PruneFails(w) PROVE AgeInv' /\ Moves(w) /\ AnswersInTime(w)
  BY IdleAged, AgeWorkFrame DEF IInv, PruneFails

\* Of the rows of a pair, pruning takes the first ones.
LEMMA PruneAged ==
  ASSUME IInv, AgeInv, NEW w \in Workers, PruneOlderThan(w) PROVE AgeInv' /\ Moves(w) /\ AnswersInTime(w)
<1>1. /\ TypeOK /\ now \in Nat /\ UNCHANGED <<now, issued, latestCache, requestCount, crashes>>
      /\ Moves(w) /\ WorkAged(w)' /\ AnswersInTime(w)
      /\ table' = [r \in Pair \X Date |-> IF Pruned(r) THEN None ELSE table[r]]
  BY IdleAged DEF IInv, TypeOK, PruneOlderThan
<1>2. ASSUME NEW p \in Pair, NEW d \in Date, NEW e \in Date, e > d, Pruned(<<p, e>>)
      PROVE  Pruned(<<p, d>>)
  <2> DEFINE c == (now - HistoryRetention) \div Day
  <2>1. now >= HistoryRetention /\ e < c
    BY <1>2 DEF Pruned
  <2>2. c \in Nat /\ d \in Nat /\ e \in Nat
    <3>1. now - HistoryRetention \in Nat
      BY <1>1, <2>1, Settings
    <3>2. d \in Nat /\ e \in Nat
      BY Dates
    <3> QED
      BY <3>1, <3>2, DayOf
  <2>3. d < c
    <3> HIDE DEF c
    <3> QED
      BY <1>2, <2>1, <2>2
  <2> QED
    BY <2>1, <2>3 DEF Pruned
<1>3. ASSUME NEW p \in Pair, NEW d \in Date, table'[<<p, d>>] # None
      PROVE  \/ Aged(now', issued', d, table'[<<p, d>>])
             \/ \E e \in Date : NextOf(issued', d, e) /\ table'[<<p, e>>] # None
  <2>1. ~Pruned(<<p, d>>) /\ table'[<<p, d>>] = table[<<p, d>>] /\ table[<<p, d>>] # None
    BY <1>1, <1>3
  <2>2. CASE Aged(now, issued, d, table[<<p, d>>])
    BY <1>1, <2>1, <2>2
  <2>3. CASE ~Aged(now, issued, d, table[<<p, d>>])
    <3>1. PICK e \in Date : NextOf(issued, d, e) /\ table[<<p, e>>] # None
      BY <2>1, <2>3 DEF AgeInv, RowsAged
    <3>2. ~Pruned(<<p, e>>)
      BY <1>2, <2>1, <3>1 DEF NextOf
    <3> QED
      BY <1>1, <3>1, <3>2
  <2> QED
    BY <2>2, <2>3
<1>4. \A p \in Pair : RowsAged(p)' /\ CacheAged(p)'
  BY <1>1, <1>3 DEF RowsAged, CacheAged, AgeInv
<1> QED
  BY <1>1, <1>4, AgeFrame

\* The clock and the provider go on.
LEMMA AgeGoesOn ==
  ASSUME IInv, AgeInv, now' \in Nat, now <= now', Clock(issued'), IssuedOK',
         UNCHANGED <<latestCache, table, work>>,
         \A e \in Date : \/ issued'[e] = issued[e]
                         \/ issued'[e] = now' /\ \A c \in Date : issued[c] # None => c < e
  PROVE  AgeInv'
<1>1. /\ now \in Nat /\ Clock(issued) /\ TypeOK
  BY Typed DEF IInv
<1>2. /\ \A d \in Date, t, k \in Nat : Current(now, issued, d, t, k) => Current(now', issued', d, t, k)
      /\ \A d, e \in Date : NextOf(issued, d, e) => NextOf(issued', d, e)
  BY <1>1, TimePasses
<1>3. MaxLatency \in Nat /\ MaxLatency + CacheTTL \in Nat /\ Lifetime \in Nat /\ Lifetime + MaxLatency \in Nat
      /\ MaxLatency + Longer(CacheTTL, StaleWindow) \in Nat /\ 0 \in Nat
  BY Bounds
<1>4. ASSUME NEW d \in Date, NEW r, r.at \in Nat, r.expires \in Nat, Aged(now, issued, d, r)
      PROVE  Aged(now', issued', d, r)
  BY <1>2, <1>3, <1>4 DEF Aged
<1>5. ASSUME NEW p \in Pair PROVE RowsAged(p)' /\ CacheAged(p)'
  <2>1. ASSUME NEW d \in Date, table[<<p, d>>] # None
        PROVE  \/ Aged(now', issued', d, table[<<p, d>>])
               \/ \E e \in Date : NextOf(issued', d, e) /\ table[<<p, e>>] # None
    <3>1. table[<<p, d>>].at \in Nat /\ table[<<p, d>>].expires \in Nat
      BY <1>1, <2>1 DEF TypeOK, Stored
    <3> QED
      BY <1>2, <1>4, <2>1, <3>1 DEF AgeInv, RowsAged
  <2>2. CacheAged(p)'
    <3>1. latestCache[p] # None => latestCache[p].date \in Date /\ latestCache[p].expires \in Nat
      BY <1>1 DEF TypeOK, Entry
    <3> QED
      BY <1>2, <1>3, <3>1 DEF AgeInv, CacheAged
  <2> QED
    BY <2>1, <2>2 DEF RowsAged
<1>6. ASSUME NEW w \in Workers PROVE WorkAged(w)'
  <2> DEFINE x == work[w]
  <2>1. /\ x.start \in Nat /\ x.got \in SUBSET (Pair \X Date) /\ x.series \in SUBSET Date
        /\ x.row # None => x.row \in Rate /\ x.row.date \in Date /\ x.row.at \in Nat /\ x.row.expires \in Nat
        /\ WorkAged(w) /\ WorkOK(w) /\ x.start + 1 \in Nat
    BY Typed DEF IInv, AgeInv
  <2>2. x.pc \in Latest => LegsLeft(w)'
    BY <2>1 DEF WorkAged, LegsLeft
  <2>3. x.pc \in {"leg"} \cup OfSeries => GotAged(now', issued', x.got, x.start + 1, Lifetime)
    BY <1>2, <1>3, <2>1, GotTimePasses DEF WorkAged
  <2>4. x.pc \in Latest \ {"leg"} => GotAged(now', issued', x.got, x.start + 1, Lifetime + MaxLatency)
    BY <1>2, <1>3, <2>1, GotTimePasses DEF WorkAged
  <2>5. x.pc = "persist" => /\ Current(now', issued', x.row.date, x.start, 0)
                            /\ Aged(now', issued', x.row.date, x.row)
    <3>1. x.pc = "persist" => x.row # None
      BY <2>1 DEF WorkOK
    <3> QED
      BY <1>2, <1>3, <1>4, <2>1, <3>1 DEF WorkAged
  <2>6. x.pc = "keep" =>
          Current(now', issued', x.row.date, x.start, MaxLatency + Longer(CacheTTL, StaleWindow))
    <3>1. x.pc = "keep" => x.row # None
      BY <2>1 DEF WorkOK
    <3> QED
      BY <1>2, <1>3, <2>1, <3>1 DEF WorkAged
  <2>7. x.pc = "rows" => x.row = None
    BY <2>1 DEF WorkAged
  <2>8. x.pc = "askseries" /\ x.row # None =>
          /\ x.row.date \in x.series /\ \A d \in x.series : d <= x.row.date
          /\ \/ Aged(now', issued', x.row.date, x.row)
             \/ Current(now', issued', x.row.date, x.start, 0)
    BY <1>2, <1>3, <1>4, <2>1 DEF WorkAged
  <2>9. x.pc = "persistseries" =>
          /\ Current(now', issued', x.row.date, x.start, 0)
          /\ Aged(now', issued', x.row.date, x.row)
          /\ \A d \in x.series : d = x.row.date \/ \E e \in x.series : NextOf(issued', d, e)
    <3>1. SUFFICES ASSUME x.pc = "persistseries"
                   PROVE  /\ Current(now', issued', x.row.date, x.start, 0)
                          /\ Aged(now', issued', x.row.date, x.row)
                          /\ \A d \in x.series : d = x.row.date \/ \E e \in x.series : NextOf(issued', d, e)
      OBVIOUS
    <3>2. /\ x.row # None /\ Current(now, issued, x.row.date, x.start, 0)
          /\ Aged(now, issued, x.row.date, x.row)
          /\ \A d \in x.series : d = x.row.date \/ \E e \in x.series : NextOf(issued, d, e)
      BY <2>1, <3>1 DEF WorkAged, WorkOK
    <3>3. \A d, e \in x.series : NextOf(issued, d, e) => NextOf(issued', d, e)
      BY <1>2, <2>1
    <3>4. Current(now', issued', x.row.date, x.start, 0) /\ Aged(now', issued', x.row.date, x.row)
      BY <1>2, <1>3, <1>4, <2>1, <3>2
    <3> QED
      BY <3>2, <3>3, <3>4
  <2>10. work'[w] = x
    OBVIOUS
  <2> HIDE DEF x
  <2> QED
    BY <2>2, <2>3, <2>4, <2>5, <2>6, <2>7, <2>8, <2>9, <2>10 DEF WorkAged
<1> QED
  BY <1>5, <1>6 DEF AgeInv

LEMMA IssueAged == ASSUME IInv, AgeInv, Issue PROVE AgeInv'
<1> DEFINE k == now \div Day
<1>1. /\ now \in Nat /\ Clock(issued) /\ issued[k] = None /\ issued' = [issued EXCEPT ![k] = now]
      /\ UNCHANGED <<now, latestCache, table, requestCount, work, crashes>>
  BY Typed DEF Issue
<1>2. k \in Nat /\ k * Day <= now
  <2>1. Day \in Nat \ {0}
    BY Settings
  <2> QED
    BY <1>1, <2>1
<1>3. \A c \in Date : issued[c] # None => c < k
  <2> TAKE c \in Date
  <2>1. issued[c] # None => c <= k /\ c # k
    BY <1>1 DEF IInv, ProviderOK
  <2> QED
    BY <1>2, <2>1, Dates
<1> HIDE DEF k
<1>4. Clock(issued') /\ \A d \in Date : issued'[d] = IF d = k THEN now ELSE issued[d]
  BY <1>1 DEF Clock
<1>5. IssuedOK'
  BY <1>1, <1>2, <1>4 DEF AgeInv, IssuedOK
<1>6. \A d \in Date : \/ issued'[d] = issued[d]
                      \/ issued'[d] = now' /\ \A c \in Date : issued[c] # None => c < d
  BY <1>1, <1>3, <1>4
<1>7. now' \in Nat /\ now <= now'
  BY <1>1
<1> QED
  BY <1>1, <1>4, <1>5, <1>6, <1>7, AgeGoesOn

LEMMA TickAged == ASSUME IInv, AgeInv, Tick PROVE AgeInv'
<1>1. /\ now \in Nat /\ Clock(issued) /\ now' = now + 1
      /\ UNCHANGED <<issued, latestCache, table, requestCount, work, crashes>>
  BY Typed DEF Tick
<1>2. now' \in Nat /\ now <= now' /\ Clock(issued')
  BY <1>1
<1>3. IssuedOK'
  <2>1. ASSUME NEW d \in Date, issued[d] # None
        PROVE  issued[d] <= now' /\ d * Day <= issued[d]
    <3>1. issued[d] \in Nat /\ issued[d] <= now /\ d * Day <= issued[d]
      BY <1>1, <2>1 DEF AgeInv, IssuedOK, Clock
    <3> QED
      BY <1>1, <3>1
  <2> QED
    BY <1>1, <2>1 DEF IssuedOK
<1> QED
  BY <1>1, <1>2, <1>3, AgeGoesOn

LEMMA CrashAged == ASSUME IInv, AgeInv, Crash PROVE AgeInv' /\ \A w \in Workers : AnswersInTime(w)
<1>1. /\ UNCHANGED <<now, issued, table>> /\ latestCache' = [p \in Pair |-> None]
      /\ work' = [w \in Workers |-> Idle]
  BY DEF Crash
<1>2. IssuedOK' /\ \A p \in Pair : RowsAged(p)' /\ CacheAged(p)'
  BY <1>1 DEF AgeInv, IssuedOK, RowsAged, CacheAged
<1>3. \A w \in Workers : WorkAged(w)' /\ AnswersInTime(w)
  BY <1>1, IdleIs DEF WorkAged, AnswersInTime, Latest, OfSeries
<1> QED
  BY <1>2, <1>3 DEF AgeInv

LEMMA StutterAged == ASSUME IInv, AgeInv, UNCHANGED vars PROVE AgeInv' /\ \A w \in Workers : AnswersInTime(w)
<1>1. UNCHANGED <<now, issued, latestCache, table, work>>
  BY DEF vars
<1>2. IssuedOK' /\ \A p \in Pair : RowsAged(p)' /\ CacheAged(p)'
  BY <1>1 DEF AgeInv, IssuedOK, RowsAged, CacheAged
<1>3. ASSUME NEW w \in Workers PROVE WorkAged(w)' /\ AnswersInTime(w)
  <2>1. LegsLeft(w)' <=> LegsLeft(w)
    BY <1>1 DEF LegsLeft
  <2> QED
    BY <1>1, <2>1 DEF AgeInv, WorkAged, AnswersInTime
<1> QED
  BY <1>2, <1>3 DEF AgeInv

\* A step of one worker answers nothing of another.
LEMMA OthersUnanswered ==
  ASSUME NEW w \in Workers, Moves(w), AnswersInTime(w)
  PROVE  \A v \in Workers : AnswersInTime(v)
<1> TAKE v \in Workers
<1>1. CASE v = w
  BY <1>1
<1>2. CASE v # w
  BY <1>2 DEF Moves, AnswersInTime
<1> QED
  BY <1>1, <1>2

LEMMA AgeStep ==
  ASSUME Positive, IInv, AgeInv, [Next]_vars
  PROVE  AgeInv' /\ \A v \in Workers : AnswersInTime(v)
<1>1. ASSUME NEW w \in Workers, Resolve(w) PROVE AgeInv' /\ Moves(w) /\ AnswersInTime(w)
  <2>1. CASE CacheHit(w)
    BY <2>1, HitAged
  <2>2. CASE CacheMiss(w)
    BY <2>2, MissAged
  <2>3. CASE ReadDatabase(w)
    BY <2>3, ReadAged
  <2>4. CASE AskProvider(w)
    BY <2>4, AskAged
  <2>5. CASE ProviderFails(w)
    BY <2>5, ProviderFailsAged
  <2>6. CASE Upsert(w)
    BY <2>6, UpsertAged
  <2>7. CASE UpsertFails(w)
    BY <2>7, UpsertFailsAged
  <2>8. CASE CacheSet(w)
    BY <2>8, CacheSetAged
  <2> QED
    BY <1>1, <2>1, <2>2, <2>3, <2>4, <2>5, <2>6, <2>7, <2>8 DEF Resolve
<1>2. ASSUME NEW w \in Workers, ResolveSeries(w) PROVE AgeInv' /\ Moves(w) /\ AnswersInTime(w)
  <2>1. CASE SeriesFromRows(w)
    BY <2>1, SeriesFromRowsAged
  <2>2. CASE RowsMissing(w)
    BY <2>2, RowsMissingAged
  <2>3. CASE AskSeries(w)
    BY <2>3, AskSeriesAged
  <2>4. CASE SeriesFails(w)
    BY <2>4, SeriesFailsAged
  <2>5. CASE UpsertMany(w)
    BY <2>5, UpsertManyAged
  <2>6. CASE UpsertManyFails(w)
    BY <2>6, UpsertManyFailsAged
  <2> QED
    BY <1>2, <2>1, <2>2, <2>3, <2>4, <2>5, <2>6 DEF ResolveSeries
<1>3. ASSUME NEW w \in Workers, Warm(w) PROVE AgeInv' /\ Moves(w) /\ AnswersInTime(w)
  BY <1>3, WarmAged, NextPairAged, PruneAged, PruneFailsAged DEF Warm
<1>4. ASSUME NEW w \in Requests, NEW p \in Conversions, Convert(w, p)
      PROVE  AgeInv' /\ w \in Workers /\ Moves(w) /\ AnswersInTime(w)
  BY <1>4, Settings, ConvertAged
<1>5. ASSUME NEW w \in Requests, NEW p \in Series, Historical(w, p)
      PROVE  AgeInv' /\ w \in Workers /\ Moves(w) /\ AnswersInTime(w)
  BY <1>5, Settings, HistoricalAged
<1>6. ASSUME Issue \/ Tick PROVE AgeInv' /\ \A v \in Workers : AnswersInTime(v)
  <2>1. AgeInv' /\ UNCHANGED work
    BY <1>6, IssueAged, TickAged DEF Issue, Tick
  <2> QED
    BY <2>1 DEF AnswersInTime
<1>7. CASE \E w \in Workers : Moves(w) /\ AnswersInTime(w) /\ AgeInv'
  BY <1>7, OthersUnanswered
<1> QED
  BY <1>1, <1>2, <1>3, <1>4, <1>5, <1>6, <1>7, CrashAged, StutterAged DEF Next

\* Unless neither the lifetime nor a slow step takes any time, no request is
\* answered with a newest rate superseded AgeBound ago: whatever requests,
\* history requests, warm-up runs and restarts do to the cache (cacheSet) and to
\* the table (Upsert, UpsertMany, PruneOlderThan) in any order, the lifetimes
\* a rate is given on its way from the provider through a row into the cache and
\* to an answer (getLatestRateSinglePair, resolveHistoricalSeries) add up to that.
THEOREM AnswersNotOld == ASSUME Positive PROVE Spec => AnswerAge
<1>1. Init => AgeInv
  BY AgeInit
<1>2. IInv /\ AgeInv /\ [Next]_vars => AgeInv'
  BY AgeStep
<1>3. IInv /\ AgeInv /\ [Next]_vars =>
        [\A w \in Requests :
           work[w].pc # "answered" /\ work'[w].pc = "answered" =>
             \A g \in work'[w].got :
               \/ \E h \in work'[w].got : h[1] = g[1] /\ h[2] > g[2]
               \/ \A d \in Date : d > g[2] /\ issued[d] # None => now < issued[d] + AgeBound]_vars
  BY AgeStep DEF AnswersInTime, Workers
<1>4. Spec => []IInv
  BY Invariance
<1> QED
  BY <1>1, <1>2, <1>3, <1>4, PTL DEF Spec, AnswerAge
=============================================================================
