# Verification of toolbox-backend

TLA+ models of the backend (a Go HTTP service: PDF tools, currency conversion, pastes), TLC
configurations that check them on small instances, and TLAPS proofs of the central properties for
every instance. Paths below are relative to the repository root; `internal/` code is under
`src/internal/` in `PROJECT.json`.

## The system

| Part | State | Operations | Talks to | Modelled in |
|---|---|---|---|---|
| Paste service (`service/paste_service.go`), repository, object store client, sweep (`scheduler/paste_cleanup.go`) | table `pastes`; objects in ImageKit; goroutines updating view counts | create text, create archive (upload, insert, compensating delete), read, count a view, sweep | Postgres, ImageKit | `PasteLifecycle`, `PasteBoard`; the handler's order of calls in `PasteServer`; proofs in `PasteLifecycleProofs`, `PasteServerProofs` |
| PDF handlers (`handler/pdf.go`), tools (`service/pdf_service.go`), `file_records`, cleanup (`scheduler/cleanup.go`) | upload and generated directory; table `file_records` | lock, unlock, compress, merge, split, download, clean directories, archive records | Postgres, file system, qpdf, Ghostscript | `FileJobs`, `ResultShelf`; proofs in `FileJobsProofs` |
| Merge upload (`saveMultipleUploadedFiles`, `MergePDF`, `MergePDFs`) | the form, the files saved so far | collect, save, refuse, merge | file system | `MergeUpload`; proofs in `InputProofs` |
| Currency service, `exchange_rates`, Frankfurter client, warm-up | cache, request counts (memory); table `exchange_rates` | convert, historical, warm, prune | Postgres, Frankfurter | `CurrencyRates`; proofs in `CurrencyRatesProofs`, `CurrencyAgeProofs` |
| Splitting (`parsePageRanges`, `splitByRanges`, `createZipFromFiles`) | none | page lists, names of the pieces, the ZIP | - | `PageRanges`; proofs in `SplitProofs` |
| History series (`combineByDate`, `aggregatePoints`, `roundRate`, `parseRangeDays`) | none | combine, round, aggregate | - | `RateSeries`; proofs in `InputProofs` |
| Archive upload (`handler/paste.go`, `service/archive.go`, limits in `config.go` and `middleware.go`) | none | refuse by size, detect the kind, sanitize the name | - | `ArchiveUpload`; proofs in `InputProofs` |
| Server start and shutdown (`cmd/server/main.go`, `Start`/`Stop` of the schedulers, `database/postgres.go`) | listener, schedulers, pool, every goroutine | start, stop in order, time out, die, restart | Postgres, the system's signals | `Server`, `PasteServer`; proofs in `ServerProofs`, `PasteServerProofs` |
| Router, rate limits, CORS, logging, migrations, hello/docs/response | library limiter | - | - | not modelled |

The parts share the process and the database but no table and no memory: pastes, jobs and rates do
not call each other, so they are modelled apart. What they do share is the process that can end
under them and the connections of the pool; `PasteServer` composes the pastes with it. Inside a part, request handlers, detached
goroutines and cron runs interleave (`cron.New()` lets runs of one job overlap, and each scheduler
also runs once at start), and every SQL statement, HTTP call and file operation is a point where
another may come in between or where it may fail. What is hard there, with the line where it bites
and the property that would catch it, is the `hazards` list of `PROJECT.json`.

What makes each part correct:

* pastes: a confirmed paste stays readable and whole until it expires; no stored object loses its
  last reference unnoticed; expired pastes go away; view counts are never too high;
* jobs: what a record offers is there, complete, until the record expires; nothing partial is
  served; refused requests leave nothing; the cleanup catches up with every failure and restart;
* process: no request and no cron run meets a closed pool; a graceful exit loses nothing; a signal
  ends it;
* split, series, upload: the archive has the pages asked for, a series the last rate of each period,
  the limits leave room for each other, and a stored name is safe and keeps its extension;
* merge: every matching part exactly once; a refused form leaves no file;
* rates: what is answered is not older than the copies' lifetimes add up to; what the cache serves
  survives a restart.

## Modules

**PasteLifecycle** has one action per step that another goroutine can interleave with. `rows` is
the table, `stored` what ImageKit holds, `req`/`sweep` the program counters and locals of
creations and sweeps, `pending` the view-count goroutines. `receipts`, `abandoned` and `reads` are
history variables, read by properties only. Calls that may fail have an action for each outcome,
also for "done but the reply was lost" (`PutFails`, `InsertFails`, `UndoUpload`). `abandoned`
marks exactly the objects lost to such a fault, a failed compensating delete or a crash, so that
`NoOrphan` says that no *other* step orphans one. `IdRaces` tells whether a random id may hit one
that an unfinished operation still holds.

**PasteBoard** is the abstract specification: a board of pastes with `Post`, `LoseArchive`,
`Remove`. `PasteLifecycle!posted` is the refinement mapping, `BoardSpec` the refinement.

**FileJobs** describes the five handlers as records (operation, uploads, intermediate files) that
go through the same steps: save, prepare the record, insert it, run the tool, update it, answer.
`disk` maps each file to its modification time, `whole` holds the jobs whose output was written to
its end, `unflushed` the splits whose ZIP was completed although closing it failed (the deferred
`w.Close()` drops its error). The tools have no deadline, so the clock may pass the retention under a running job.
Cleanup reads a file's age (`SeeFile`) and removes it by path (`RemoveFile`) in two steps.

**ResultShelf** is what a job promises to who downloads: a result is on the shelf until a fixed
time, only that time takes it off, and who asked while it was there is sent away only if it is off
by then. `FileJobs!Offered` and `Got` are the refinement mapping, `ShelfSpec` the refinement.

**Server** has `main()` step by step (`main`, `next`), the listener, the three schedulers, the pool
and the goroutines: handlers, the view counts they leave behind, runs that cron starts and `Stop`
waits for, and the run each `Start` adds with `go`, which nobody waits for. A task is "querying"
while it holds a connection. `End` is every end of the process: `os.Exit(1)`, the forced exit after
30 seconds, a signal before `signal.Notify`, a kill, and the return from `main`; `cut` records what
it cut off.

**PasteServer** composes `PasteLifecycle` and `Server`, which it instantiates as `S` (together with
its theorems, through `ServerProofs`). Each SQL statement of a creation, read,
view count or sweep is taken while its task holds a connection, calls of the object store without
one; a pool that is closed or exhausted makes the statement fail in the way the code handles
(`AcquireFails`). `PasteLifecycle!Crash` happens exactly when `Server!End` does.

**PageRanges**, **RateSeries**, **ArchiveUpload** are pure operators under the names of the Go
functions, with what they should compute stated independently below them ("What it should be"). A
file name is a sequence of runes of one of a few classes; a page list has its numbers as written,
larger than an `int` included; the calendar is three constants (length of week, month and year) with
ISO's rule that a week belongs to the year of its middle day. `MCInputs` asks them every bounded
input, one at a time, and steps through `MergeUpload`'s forms.

**MergeUpload** takes every form of up to `MaxParts` parts; `Collect` ranges over the fields in any
order, as the code ranges over a map.

**CurrencyRates**: a rate is told by its date, as a pair has one rate a day. A worker is a
conversion, a history request or a warm-up run; a pair without the dollar has two legs. `work[w]`
holds a worker's locals, among them the clock read once at the start of each leg (`start`). The
steps are those of `getLatestRateSinglePair` (cache, database, provider, upsert, cacheSet) and of
`resolveHistoricalSeries`. `issued` is the provider. The five minutes that the code adds to
`fetchedAt` when it caches a stale row only show in `updated_at`, which is not modelled; the
provider's reply always carries a date. `fetched_at` and `expires_at` of a row are kept, with the
code's mixture of units: `fetched_at` is the midnight of the rate's date when a conversion wrote
the row, and the time of the call when a history request did.

The `MC` modules give the constants small values. Operators
named `X_Something` before an `X` are mutations of `X` (a dropped guard, another order): with one in
place of `X` the listed property fails, which shows that the property depends on that code.

## Runs

| Run | Instance | Shows |
|---|---|---|
| `paste_safety` | 2 ids, 2 objects, 2 creations, 2 sweeps, 1 crash, time 3 | `TypeOK`, `ReceiptHonoured`, `NoOrphan`, implements `PasteBoard` |
| `paste_live` | 2 creations that draw the same id at any time (`IdRaces`), 2 objects, reads, one fair sweep at a time, failing deletes, 1 crash, time 3 | `ReceiptHonoured` and `NoOrphan` from primary key and sweep order alone; `ExpiredRemoved` |
| `paste_server` | 1 id with reuse, 1 request with its view count, a cron run and a run at start, 1 connection, 2 restarts | `ComposedTypeOK`, `ViewsSound`, `GracefulLosesNothing` |
| `server_stop` | 2 schedulers with 2 overlapping runs each, 1 request, 2 connections, any number of restarts | `TypeOK`, `PoolOutlivesWork`, `GracefulCutsNothing`; `Stops` |
| `jobs_safety` | 1 job of any kind, 1 download, 2 cleanups, 1 crash, time 3 | `TypeOK`, `KeptUntilExpiry`, `NeverTorn`, `NothingLeftBehind`, implements `ResultShelf` |
| `jobs_live` | split, fair cleanup, 1 crash | `AgedRemoved`, `ExpiredArchived` |
| `rates_age` | 1 pair, conversions, history requests, warm-up and pruning, 1 restart, 4 days | `TypeOK`, `CacheBacked`, `AnswerAge` |
| `rates_cross` | a pair over two dollar legs | `AnswerAge` |
| `inputs` | page lists of up to 3 ranges, windows of up to 11 days around a year's end, sizes up to 51 MB, names of up to 7 runes, forms of up to 4 parts | `SplitDelivers`, `SplitDeterministic`, `SeriesAggregated`, `CrossRounding`, `UploadLimitsAgree`, `NamesSafe`, `NamesKeepExtension`, `MergedAll`, `RefusedLeavesNothing` |

`paste_server` and `inputs` do not check for deadlock: in the first the process may be dead and not
started again, in the second a form is refused or merged and that is its end.

Three runs are expected to be violated: each states a sentence of the documentation that the code
does not keep (`findings` in `PROJECT.json`).

| Run | Sentence | What happens |
|---|---|---|
| `merge_order` | files are combined in upload order | `range` over the map of form fields |
| `rates_fallback` | the stale window applies if the provider fails | the window counts from the rate date's midnight |
| `rates_window` | the range is a look-back window | one stored row of today passes for the whole series |

More differences were met while reading. They follow from a line or two each and no run is spent on
them; the models contain the steps of all but the third:

* `handler/pdf.go` discards the error of the final `UpdateStatus(StatusCompleted)` and answers 200
  with a link that then gives 404 (`README.md`: "available for 1 hour");
* between `os.Stat` and `http.ServeFile` of a download the cleanup can remove the file, so the bare
  404 that the check is there to prevent is still possible (only for an expired result: `ShelfSpec`);
* `handler/currency.go` compares with `err == ErrRateUnavailable`, but the service wraps that error
  when the provider cannot be reached: 500 instead of the documented 503;
* a row within the stale window is answered with `stale=true` before the provider is asked at all
  (`README.md`: "`stale=true` means provider was unavailable");
* `createZipFromFiles` returns before its deferred `w.Close()`, which writes the ZIP's directory, so
  an error there leaves a broken archive that is recorded as completed;
* `SanitizeFileName` ("extension preserved", `archive.go:116`) turns `a..zip` into `a_zip`;
* the comment at `config.go:95` takes the body limit to be 50 MB: with `MAX_UPLOAD_SIZE_MB` lowered an
  archive within `ARCHIVE_MAX_MB` is refused as too large (`UploadLimitsAgree` has the limit at 50);
* four decimals per dollar leg (`CrossRounding`) make a cross series zero where a leg is below 0.00005;
* "deterministic ZIP ordering" is the order of strings: page 10 comes before page 2.

### Bounds

Times are small because only their order against the lifetimes matters: each instance lets a
lifetime pass, the reaper run, and the resource be used again. One id with reuse, or two, give every
collision; two sweeps or cleanups give every overlap; jobs share neither files nor records (their
names are UUIDs), so one job of any kind stands for many. One crash at any point shows every state
a crash can leave. `LockPDF` and `UnlockPDF` differ in nothing but the name, so `jobs_safety` runs
one of them; `MaxCount` bounds the requests per pair.

`AnswerAge` bounds by how long an answered rate may have been superseded: a lifetime in the table
(`CacheTTL`, or `StaleWindow` if longer) plus one in the cache. In `rates_age` and `rates_cross` the
steps of a request interleave with all others, but within one tick (`MaxLatency = 0`); that slower
steps add no more than the slack `4 * MaxLatency` is proved (`AnswersNotOld`), not run. `rates_age` uses a `HistoryRetention` of two days; the
default (12 months against hours) is far above it. The two `rates_` runs that are violated have slow
steps. `MaxLag` says how long the provider may issue nothing; without
it an old rate would be pruned while it is still the newest.

`server_stop` has two of the three schedulers, as what matters is the order between one that is
stopped and one that still runs; its pool of two is smaller than its tasks, so connections run out.
`paste_server` has a pool of one, which makes every statement compete. In `inputs` the limits of the
code are scaled down with everything that is compared with them: names of 4 runes and 7 bytes with
runes of three bytes, an `int` of 99, weeks of 3 days and years of 10 (so that weeks span years, in
either direction), 3 units a megabyte.

### Fairness

The two `_live` runs and `server_stop` need any. cron starts cleanup runs again and again, so each run's next
step is weakly fair; strong fairness says that a call that is tried again and again (a query, the
removal of one file or row, the archiving of one record, a delete in the store) does not fail
for ever. Nothing is assumed of requests, tools, or archive storage being configured:
`ExpiredRemoved` asks for the latter explicitly. For `Stops`, `main` goes on, scheduled runs end as their
contexts have deadlines (30 s, 45 s, 2 min), and the 30 seconds of `Shutdown` pass. Nothing is assumed
of handlers, whose tools have no deadline, nor of view counts, whose context has none: `Stops` says
itself that a view count's statement which never returns would keep `pool.Close` waiting.

## Proofs

Eight modules hold theorems. They are proved for any values of the constants that satisfy the named
assumptions of their modules (`PasteAssumption`, `PostingAssumption`, `JobsAssumption`,
`RatesAssumption` and so on), which say that parameters have their types and that the model values
for "none" are none of the data; `ArchiveAssumption` also says that an extension and a stem fit into a
name together (16 runes of 120, and at most 64 bytes of 200, in the code). Where a theorem assumes more, it says so in an ASSUME, listed below.
"For any" includes the number of requests, runs, failures and restarts: no bound of an instance is used.

| Module | Theorem | States | Assumes |
|---|---|---|---|
| `PasteLifecycleProofs` | `TypeCorrect` | `Spec => []TypeOK` | |
| | `ReceiptsHonoured` | `Spec => []ReceiptHonoured` | `Undisturbed` |
| | `NoOrphans` | `Spec => []NoOrphan` | `Undisturbed` |
| | `ViewsBounded` | `Spec => []ViewsSound` | `~IdRaces` |
| | `ImplementsBoard` | `Spec => BoardSpec` | `Undisturbed` |
| `ServerProofs` | `TypeCorrect`, `PoolLast`, `GracefulEnd` | `TypeOK`, `PoolOutlivesWork`, `GracefulCutsNothing` always hold | |
| `PasteServerProofs` | `ImplementsParts` | the composed process is both a `PasteLifecycle` and a `Server` | |
| | `ComposedTypes` | `Served => []ComposedTypeOK` | |
| | `GracefulKeepsAll` | `Served => GracefulLosesNothing` | |
| | `PastesServed` | receipts, orphans and view counts, inside the process | `~IdRaces` |
| `FileJobsProofs` | `TypeCorrect`, `ResultsKept`, `DownloadsWhole`, `CleansUp` | `TypeOK`, `KeptUntilExpiry`, `NeverTorn`, `NothingLeftBehind` always hold | |
| | `ImplementsShelf` | `Spec => ShelfSpec` | |
| `CurrencyRatesProofs` | `TypeCorrect` | `Spec => []TypeOK` | |
| | `RestartLosesNothing` | `Spec => []CacheBacked` | `HistoryOutlives` |
| `CurrencyAgeProofs` | `AnswersNotOld` | `Spec => AnswerAge` | `Positive` |
| `SplitProofs` | `SplitAlwaysDelivers` | `Delivers`, for every page list and document | `pageCount < MaxInt` |
| | `SplitAlwaysDeterministic` | `Deterministic`, likewise | `pageCount < MaxInt` |
| `InputProofs` | `CrossRatesClose` | `RoundedClose` for all rates and scales | |
| | `SeriesAlwaysAggregated` | `LastOfEachPeriod`, for any two finite legs, calendar and aggregation | |
| | `LimitsAlwaysAgree` | `LimitsAgree` for all limits and sizes | `MaxBodyMB >= 50` |
| | `AllNamesSafe` | `SafeName`, for every name | |
| | `AllExtensionsKept` | `ExtensionKept`, for every name and content | |
| | `RefusedRemoved` | `MergeUpload!Spec => []RefusedLeavesNothing` | |
| | `MergesAll` | `MergeUpload!Spec => []MergedAll` | |
| | `InputsSplit`, `InputsSeries`, `InputsRounding`, `InputsNames` | `SplitDelivers`, `SplitDeterministic`, `SeriesAggregated`, `CrossRounding`, `NamesSafe`, `NamesKeepExtension` always hold in `InputSpec` | `Bounded` |
| | `InputsLimits` | `InputSpec => []UploadLimitsAgree` | `Bounded`, `MaxBodyMB >= 50` |

### Pastes

`Undisturbed`: either no random id hits one that an unfinished
operation still holds, or sweeps do not overlap. The assumption is needed. With both, a sweep can
work from a list whose entries another sweep has finished, while the id was drawn again: its
unconditional `DELETE ... WHERE id = $1` then removes the newer paste. Ids are drawn from a large
space, so this is improbable, but nothing in the code excludes it. `ViewsBounded` assumes the
first alternative alone, since a late view count would go to whatever paste has the id.

`ReceiptHonoured` is not inductive: a sweep's next delete is harmless only if its list is still
true, and an upload only if nobody else has the object. The inductive invariant `IInv` adds

* `NamesInv` - an object is used by rows, receipts and entries of the one id it was named for;
* `UploadInv` - a creation's object is its own, in no other creation and in no receipt;
* `SweepInv` - an entry a sweep holds describes an expired row, or one that is gone;
* `DrawInv` - without id races, an id drawn by a creation has no row and no view count under way.

Each has a lemma with one step per action; `IInvStep` collects them. `NoOrphan` and `ViewsSound`
are then inductive relative to `IInv`, and for the refinement every action is shown to map to a
step of `PasteBoard` or to a stutter.

### Process

`PhaseInv` relates how far `main()` has got to everything else: a pool is closed only at the last
step, by which time every scheduler in the stop order is `Stopped` and no handler is active, and a
server listens only between launch and shutdown. `PoolOutlivesWork` follows at once;
`GracefulCutsNothing` is inductive with it, because the only end that is graceful comes after `close`.

`PasteServer` is proved to implement its parts by matching each of its steps with a step or a stutter
of `PasteLifecycle` and of `Server`; so the theorems about either hold of the whole (`PastesServed`).
`GracefulLosesNothing` relates both parts and needs `Tied` besides: a creation or sweep that is under
way belongs to an active task that has begun it, so what `Server` says of tasks is said of pastes.

### Jobs

`KeptUntilExpiry` holds because two clocks agree that were set at different times, the record's
expiry and the output's modification time, and because what a cleanup saw stays true until it removes
by path. The inductive invariant has, for each job, `RecordOK` (only an answered job's record says
completed, with the expiry fixed before the tool ran), `FilesOK` (whose uploads and pieces may be on
disk at which step) and `OutputOK` (the output is written no earlier than the expiry less the
retention, and is there unless the expiry is past); for each cleanup `CleanOK` (an output it is about to
remove belongs to a job whose time is over); for each download `FetchOK`. The refinement of
`ResultShelf` goes action by action under this invariant.

### Rates

`CacheBacked` says that two parts which know nothing of each other, the cache's expiry and the pruning
of the table, never disagree. It depends on configuration: `HistoryOutlives` is
`HistoryRetention >= Lifetime + MaxLag * Day`, where `Lifetime` is how long a rate can live on in copies.
The code does not compare the two, but its defaults are far apart (`FX_HISTORY_KEEP` 8760h against
`FX_STALE_WINDOW` 6h and `FX_CACHE_TTL` 30m). The invariant bounds by `LastUse`, the last moment at
which a date can be the newest, what rows, cache and each request's locals may carry (`RowsOK`, `CacheOK`,
`WorkOK`); everything but the last step holds without the assumption.

`AnswerAge` needs exact relations in place of that bound. `Current(n, out, d, t, k)` says that a time
`t` is at most `k` after the moment a newer rate than that of `d` came out. `AgeInv` gives every copy its
`k`: the rows (`RowsAged`), the cache (`CacheAged`), a request's row, and what it has resolved so far
(`WorkAged`). A history request rewrites old rows with new lifetimes, so a row alone has no such bound:
the invariant is that a row without it is not the last, as the next date's row is there too (a series is
written in one transaction, and pruning removes from the front). `Positive` is `CacheTTL + MaxLatency > 0`:
with both zero, the bound is reached with equality. TLC found no violation of `AgeInv` on the instances
of `rates_age` and `rates_cross`, nor on one with slow steps, before it was proved.

### Inputs

These theorems are about what recursive and sorting code computes, where the library's induction
theorems cannot be used: they take a predicate as a parameter. `SplitProofs` therefore derives induction
over sets: every non-empty set of numbers has a least (`LeastNumber`, from the well-foundedness of `<`
that the library states without a parameter), so a set with 0 and with `n + 1` for each `n` has
every number (`AllNumbers`), and the elements of a finite strict order have ranks (`Ranks`,
`Enumerates`). A claim about a recursive function is proved by putting the numbers for which it holds into
such a set; that there is such a function at all comes first (`NumeralsExist`, `LoopsExist`,
`ReplacesExist`, `JoinsExist`), since TLA+ defines it by choice. For this the modules define by recursive functions (`Decimal`, `NoDoubleDots`,
`aggregatePoints`), and sorting by counting (`Sorted`, `Nth`: how many elements go before the k-th).

* *Split.* `NameOrder` shows that the order of names is a strict total one, `SortedIs` that sorting by it
  keeps every name and its multiplicity, and `DecimalInjective` that different numbers are printed
  differently, so that ranges overwrite each other's file only if they are the same range.
  `SplitAlwaysDeterministic` follows since exchanging two parts changes none of the counts.
  Both assume that the document has fewer pages than the largest `int`: a number too large for
  one becomes that `int`, which must then be past the end.
* *Series.* `combineByDate` has the common dates in order. The claim that goes through the pass of
  `aggregatePoints` is that after n points there is one for each bucket seen, the last of it, in order. It
  needs that buckets are intervals of days and that two days share a bucket exactly if they share a
  period. For ISO weeks, whose year can differ from the day's, that is the numbering of the weeks of
  a year by their middle days.
* *Names.* `Bytes` counts, so pieces of a name have at most its bytes; `NoDoubleDots` leaves no two dots
  together, and cutting and trimming bring none back. `AllExtensionsKept` follows the
  extension through each step of `SanitizeFileName`. Without `ArchiveAssumption` there might be no room
  for the stem.
* *Merge.* `MergedAll` needs that each field's parts have an ascending enumeration, and that the
  concatenation of those enumerations, in any order of the fields, has every part once.
  `MergeInv` then says that what is saved is a beginning of what was collected. For `RefusedRemoved` the
  invariant is that `disk` is what `paths` lists.
* *Limits and rounding.* `LimitsAlwaysAgree` assumes `MAX_UPLOAD_SIZE_MB` at its default or higher (see
  the list of differences above). `CrossRatesClose` writes the error of a cross rate as the three rounding
  errors times their factors and bounds each.

The theorems about `InputSpec` apply these to every state of the run `inputs`; the invariant is that
its input is well formed (`Asked`). `Bounded` says that the inputs chosen there suit the constants: an `int`
above 12, the number of pages, and windows of at most a year (2^63 - 1 and 365 days in the code).

### Left to TLC

Every invariant, action property and refinement that a passing run checks has a theorem. What stays
with TLC is liveness (`ExpiredRemoved`, `Stops`, `AgedRemoved`, `ExpiredArchived`), as the prover handles
neither fairness nor `ENABLED`, and the three violated properties.

## Not modelled

The router, rate limits and their key (the limiter is a library, the key two lines), CORS, logging and
panic recovery; static pages; migrations (idempotent DDL); the list of supported currencies, which is
passed through; the texts of answers, tool options, passwords, HTTP and JSON parsing. Jobs and rates are not composed with `Server`: what ends the process is
their `Crash`, and their statements fail as they would with a closed pool. Three hazards have no
property, each with its reason in `PROJECT.json`: starvation inside a sweep cut off after two minutes,
the growth of `requestCount`, and the error compared by identity.

## Plan

1. The router's limits, should the limiter become the repository's own code.
2. A property for starvation inside a sweep, once the order in which it lists rows is fixed.
