# Verification of iplayer-arr

TLA+ specifications of the server in `src/`, their TLC instances, and TLAPS
proofs.  iplayer-arr looks like a Newznab indexer and a SABnzbd download client
to Sonarr, and downloads from BBC iPlayer.  Two things must be right.  What is
offered: a search is answered from what the BBC lists, what TheTVDB numbers and
what a probe of the stream found, each of which may fail, be stale or disagree
with the others.  And the life of a download: it is accepted by an HTTP handler,
claimed by a worker, run through a pipeline of network calls, ffmpeg and moves on
disk, retried under several budgets, cancelled, moved and shut down by other
goroutines, and kept in bbolt across crashes.

Go sources are named relative to `src/internal/` unless they start with `src/`.

## 1. Inventory

| Component | Source | State | Operations | Interacts with |
|---|---|---|---|---|
| Download manager | `download/manager.go`, `worker.go` | `claimed`, `cancelled`, `enqueueMu`, `paused`, the workers' contexts, each worker's copy of its row | `Enqueue`, `CancelDownload`, `Pause`, `Resume`, `Stop`; `processNext`, `processDownload`, `failDownload`, `stopIfCancelled` | store (transactions), throttle (gate, stalls), ffmpeg (outcomes), handlers (calls), hub (events) |
| Retry policy | `worker.go` (`failDownload`), `supplier.go` | the counters of a row | charge, permanence, backoff | manager |
| Adaptive throttle | `throttle.go` | `activeLimit`, stall events, `coolingUntilNanos`, `consecutive`, `nextRecoverAt` | `recordStall`, `recordClean`, `maybeRecover`, `clearCooldown`, `admit` | every worker |
| Stream choice | `worker.go`, `supplier.go` | none | `pickStream`, `attemptQuality`, `degradeHeight`, `selectVariantByHeight` | manager, BBC clients |
| ffmpeg runner | `download/ffmpeg.go`, `ffprobe.go` | a process, its progress, a watchdog | `RunFFmpeg`, stall detection, verdict | manager |
| Disk staging | `manager.go`, `worker.go`, `cleanup.go`, `dirs.go`, `api/directory.go` | `incomplete/`, the download directory | `finaliseDownload`, `reconcileDownload`, `cleanupIncompleteDir`, `runCleanup` | manager, Sonarr, start-up |
| Store | `store/downloads.go`, `history.go` | buckets `downloads`, `history` | `PutDownload`, `ListDownloads`, `MoveDownload`, `DeleteDownload`, `MoveToHistory`, `PutHistory`, finders, clear | everyone |
| Other buckets | `store/quality_cache.go`, `series.go`, `first_seen.go` | quality rows, series mappings, first-seen stamps | get, put, purge, look up by name, stamp once | prober, indexer |
| SABnzbd shim | `sabnzbd/handler.go` | none | add, queue, queue delete, priority, history delete | manager, store |
| REST API | `api/*.go` | sessions of the hub | downloads, history, pause, directories, search | manager, store, prober |
| Newznab indexer | `newznab/*.go` | TheTVDB lists, refused lookups | search by id, by name, RSS; numbering, era, filters | BBC clients, prober, store |
| BBC clients | `bbc/*.go` | HTTP clients | iBL, playlist, media selector, HLS masters | manager, indexer, prober |
| Quality prober | `bbc/prober.go`, `fhdprobe.go` | quality cache, semaphores | `PrefetchPIDs` (by show), `PrefetchPIDsIndividually`, `probeOne` | indexer, dashboard, store |
| Start-up, shutdown | `src/cmd/iplayer-arr/main.go` | none | wiring, migrations, signal order | all |
| SSE hub, log ring | `api/hub.go`, `logs.go` | subscribers, ring | subscribe, broadcast with drop | manager, browsers |
| Diagnostics, auth, dashboard | `api/diag*.go`, `api/auth_middleware.go`, `src/frontend` | none of the server's | reports, a guard, views | - |

**What is hard.**  A worker reads a list, then claims a row of it, then keeps a
private copy of that row for minutes and writes the whole copy back at every
step, while HTTP handlers cancel, delete, move and enqueue rows in transactions
of their own.  Cancel is a protocol between a handler and a worker (a mark, a
context, a poll with a bound, a clean-up).  A crash or a panic stops a worker
between two transactions.  Five counters share one retry decision; one of them
also drives the quality ladder, and a set of suppliers the choice of the stream.
ffmpeg may hang, and the watchdog that kills it races with its end.  The throttle
is called from every worker and has three clocks.  Files are moved by steps that
fail singly, into directories other downloads, a cleanup loop and Sonarr use too.
The prober's two kinds of search write one cache that never expires, from
answers that may describe a passing state.  A search merges three sources of an
episode's number and must not give Sonarr another episode under the one it asked
for, whichever of the sources failed.

**What makes each component correct.**

- *Manager*: a claim names the one worker that works on a row; no grab is lost
  and no row is stranded; one row per (pid, quality); cancels return and leave
  no mark; every grab ends.
- *Retry policy, stream choice, ffmpeg*: every failure is paid for once, from the
  right budget; a row cannot be tried for ever, even by an ffmpeg that falls
  silent; quality is only lost to CDN failures, and then is lost; suppliers that
  refused wait for those that have not.
- *Throttle*: one halving per cluster, one step up per clean window, nothing
  during a cooldown, and back to the ceiling once stalls stop.
- *Store*: a move puts exactly one row exactly where asked; a row is in one
  bucket; what reaches history is finished and a completed entry stays.
- *Staging*: no file that is being written is ever visible in the download
  directory, and a finished one stays until Sonarr or the user takes it.
- *Prober*: a probe caches no promise of a quality the BBC does not serve for the
  episode it probed, nothing passing, and the dashboard's answer is the
  episode's own.
- *Indexer*: a search for a number returns that number; a guess does not go out
  unchecked; a series' name does not go out on another era's programme; and what
  Sonarr polls is above its watermark.

The list of concrete hazards, each at its line, is `hazards` in `PROJECT.json`.

## 2. Modules

```
RetryPolicy          pure: what an outcome does to a row's counters
  RetryBudget        one row under every sequence of outcomes
    Attempt          the attempts themselves: height, stream, rendition, ffmpeg,
                     watchdog, verdict; implements RetryBudget
QueueOrder           pure: the comparator of the queue, the renumbering of a move
  QueueMoves         pending rows among arrivals, claims and returns
Throttle             the contract: a cap and a cooldown
  AdaptiveThrottle   throttle.go with its clocks; implements Throttle
DownloadManager      workers, handlers and the two buckets;
                     EXTENDS RetryPolicy, QueueOrder; T == INSTANCE Throttle
Staging              the download directory under workers, cancels, cleanup, Sonarr
BBCAnswers           pure: what the BBC clients make of the BBC's answers
  QualityProber      two searches probing one show over one cache
ProgrammeNames       pure: names of shows, their years and subtitles
EpisodeNumbering     pure: the number of a programme, from TheTVDB's list or a guess
  SearchFeed         Sonarr's searches and RSS polls, from request to items;
                     INSTANCEs both
MC...                instances for TLC
..._proofs           lemmas and theorems of the module they are named after:
                     RetryPolicy, RetryBudget, Attempt, AdaptiveThrottle,
                     DownloadManager, Staging, QualityProber, SearchFeed
```

**RetryPolicy / RetryBudget.**  `Bookkeeping` is the part of `store.Download`
that `failDownload` touches.  `Charge` is the switch of `failDownload`
(including the stall that is counted, then uncounted and paid with a credit when
a cooldown is active), `MayRetry` its permanence rule, `Failed` the row it
stores.  An attempt's end is a *cause*: the failure code, and which CDN supplier
refused the request, if one did.  `tally` in RetryBudget is a history variable
that counts failed attempts by kind, independently of the counters; a stream the
CDN failed to deliver (`cdn`) and a supplier's refusal (`other`) are two kinds.  How long
`RetryAfter` is, is left out: no property depends on it.

**Attempt.**  Where the causes come from.  `Start` fixes the height
(`attemptQuality`, the ladder of `degradeHeight`), `Pick` the stream
(`pickStream`: nearest height, suppliers that refused left out unless none is
left, HLS first), `Open` the HLS rendition (`selectVariantByHeight`, and the
unlisted 1080p one), `Progress` is a progress line, `Tick` the watchdog looking
(`Threshold` is its escalating window, or the grace while ffmpeg relocates the
moov atom), `Finish` an end of the run with the verdict `processDownload` gives
it: a killed run is a stall, unless ffmpeg had already ended well, and then the
file may still turn out to be missing or short.  A progress line need not
advance: it restarts the clock of the watchdog all the same (`ffmpeg.go:676`).
`run` and `pick` are the local variables of the attempt, `refusers` is history.
Ticks are not aligned with progress lines, so a silence of exactly the window may
or may not be seen as one.

**QueueOrder / QueueMoves.**  Priority, then natural order (`Rank`, a constant:
show, season, episode, air date), then age.  `MoveDownload` sorts, takes out,
re-inserts, renumbers from `len` down to 1; `Place` says where each row ends up.

**AdaptiveThrottle.**  Clocks are kept as time left, stall events as the age of
each download's newest one (the cluster test counts distinct downloads).
`nextCooldown` is the value `base << consecutive` capped by the maximum.  Every
method holds the mutex, so each is one action.  The disabled throttle (every
method returns at once) is not modelled.

**Throttle.**  What the manager may assume: `Trip` halves the cap as a cooldown
opens, `Expire`, `Recover` by one outside cooldowns, `Clear`.

**DownloadManager.**  One action per store transaction or critical section.

| Variable | Code |
|---|---|
| `queue`, `history`, `nextId` | the bbolt buckets; ids in creation order stand for the random nzo ids |
| `claimed`, `marks`, `enqueueLock` | `Manager.claimed`, `.cancelled`, `.enqueueMu` |
| `paused`, `stopping` | `.paused`; the context of the workers |
| `limit`, `cooling` | the throttle, through its contract |
| `wpc`, `seen`, `dl`, `dead` | a worker's place in the code, its list, its row, its job's context |
| `cpc`, `cid`, `ckey`, `cop`, `csnap` | a handler's place and arguments; `csnap` is SABnzbd's snapshot of a row |

The worker's places are `idle` -> `list` -> `scan` (`processNext`), `begin`,
`playlist`, `media`, `fetch`, `verify` (the steps of `processDownload`),
`stalled` (between `recordStall` and `failDownload`), `giveup`, `archive`
(the second write of a permanent failure, `MoveToHistory`) and `release` (the
deferred function).  `enqueue` is `history` -> `supersede` -> `insert` ->
`priority`; `CancelDownload` is `signal` -> `wait` -> `clear` -> `delete`, and
SABnzbd's queue delete adds `mark` before and `record` after.  Merged steps:
the two writes around the media selector (neither is visible between), the
mkdir and the write before ffmpeg (part of `Progress` and of a failure at
`fetch`), and the lookup of the claim with the call of its cancel function (one
critical section and a call that cannot block).  A context is looked at before
a failed row is written and may be done by the time it is, so `Fail` does not
ask.  `RetryAfter` is a moment in the future: `List` returns any subset of the
retryable rows.  A manual download is `FindDownload` with no priority.

**Staging.**  `disk` maps a directory under `incomplete/` or in the download
directory to what its mp4 is: none, partial (ffmpeg is writing it, or gave up),
copying, whole, and whose it is.  The worker's places are those of
`processDownload` that touch the disk, with `reconcileDownload` in two
(`Reconcile` looks and makes, `Relocate` moves and removes) and
`finaliseDownload` in one rename or, across filesystems (`sameFS` is false),
three (`Finalise`, `CopyOpens`, `CopyEnds`).  A cancel has its snapshot, its
removal and its delete; the cleanup loop lists the history's directories, then
looks at one at a time (`CleanupLooks`; `doomed` is what it has decided to
remove) and removes it (`CleanupRemoves`).  The row's two buckets are one record here
(`PutDownload` and `MoveToHistory` of a finished row are one step, the manager's
module has them apart), and so are the gate's `failDownload` and its
`os.Remove`.  `gone` is history: what Sonarr or the user took, and what a cleanup
removed that had seen the directory empty.

**BBCAnswers / QualityProber.**  `Fetch` is the retry loop of `bbc.Client`,
`PickVersion` and `Resolve` the playlist, `Select` the media selector's failover,
`Checked` the test of a 1080p claim against the HLS master (`VerifyFHD`,
`HiddenFHD`), `Failover` the suppliers it is put to.  The prober's goroutines
are `job`: a feed search has one for the show, a dashboard search one per
episode, at most `Concurrency` at once.  `Look`, `ResolveEpisode`, `Streams`,
`StoreProbe` are `probeOne`; `Scan`, `CheckSibling`, `Spread` are
`probeShowGroup` and `propagateToSiblings` around it, each bbolt transaction an
action, so the get and the put of a sibling's row are apart as in the code.
Each episode has a `programme` of its own, so a leader's heights can be wrong for
the siblings they are spread to.  `stage` is how far the BBC is with an episode:
`Publish` moves it from unlisted towards on demand and on to expired (one that
comes back after that is not modelled).  The cache starts with anything an
earlier release can have left (`LeftRows`): an episode's heights, a sibling's,
those of a passing state, checked or believed, all unmarked.  `Boot` is the
start-up purge, which may fail, or lose its marker.  Two things are history, not
code: `by` on a row and a goroutine, the episode whose probe found the heights
(or `Old`), and `swept`, that a purge has gone through.

**ProgrammeNames / EpisodeNumbering / SearchFeed.**  A name is a record of what
the code reads out of it, a title a record of its keys.  `GenerateTitle` and
`EmittedNumber` are the number a release title carries; `ClaimsOf`, `Settle`,
`Resolve` are `resolve` in `tvdb.go` (a programme claims an episode by title, by
label, by date or out of the window, weaker claims give way), `Contradicts` and
`CheckGuess` what the list says of a guess.  A request is a process that stops at
each call out: `Ask`, `LookUp` (Skyhook names the show), `SearchIBL` (listings
and pools, some of which may fail), `FetchList` (TheTVDB's list, cached whatever
another request cached meanwhile), `Emit` (numbering, `Filtered`, probes, limit,
first-seen stamps, items).  `sonarr` is history: what the RSS poll was given and
when.  A chain of ifs and early returns of the code (`GenerateTitle`,
`CheckGuess`, `ClaimsOf`, `MatchesSearchFilter`, ...) is an IF chain here, since
the arms of a TLA+ CASE have no order.  A listed element carries the fields
TheTVDB's numbering will set from the start, unset (`IsElement`).  Spelling, sizes
and the order of iBL's listings are left out: which items a limit cuts is any
choice the tags allow (`Fitting`), and episodes of one date are numbered by
position in any order (`Orders`).

## 3. What the runs show

| Run | Instance | Question and answer |
|---|---|---|
| `retry_budget` | `MCAttempt`: two suppliers, of which one also lists a DASH stream and one stream names none; budgets 3, 4, 2, 3, 1; window 1, cap 3, grace 2, duration 2 | One row from its first attempt to its last.  Budgets are spent as they should (`EveryFailureCharged`, `DedicatedBudgets`, `AttemptsBounded`, `CountersNeverReset`), suppliers take turns (`SuppliersAlternate`), quality goes down only for streams the CDN did not deliver (`DegradeIsEarned`), goes down after every such failure (`CdnFailureLowers`), an HLS master never gives more than asked for when it lists less (`NoSilentUpgrade`), and the row settles although ffmpeg may fall silent at any point (`EventuallySettled`) |
| `throttle` | shipped timing in minutes, three downloads, cap 1..5 | `RecoveryAfterCooldown`, `OneStepPerWindow`, `OneHalvingPerCooldown`, `ClusterOpensCooldown`, `FullRecovery` once stalls stop, and `ImplementsThrottle` |
| `queue_moves` | four rows with ties and out-of-order arrival | `MoveIsExact`: the moved row lands where asked, every other pair keeps its order |
| `dm_cancel` | 2 workers, 1 handler, 1 row; grabs, cancels, SABnzbd deletes, history deletes, SIGTERM, the wait's bound | `ClaimExclusive`, `NoMarkLeak`, `BucketFollowsWorker`, `NoOrphans`, `TerminalInTransit`, `HistoryIsFinal` |
| `dm_enqueue` | 1 worker, 2 handlers, 3 rows of a key, crashes and panics | `OneRowPerKey`, `OneBucket`, `NoGrabLost`, `CompletedStays`, `AbandonedUntilCancelled` |
| `dm_turns` | 1 worker, 2 rows of 2 keys, stalls and cooldowns, cancels | `GrabsEnd`, `CancelsReturn` |
| `quality_prober` | a show of two episodes, each with either of two programmes (one of which claims a 1080p that its master does not have), one probe of a search at a time, two suppliers, any rows of earlier releases | the feed and the dashboard probe it while the BBC publishes and withdraws the episodes, fetches and the purge fail and the server restarts: `NoPhantomQuality`, `OnlySettledCached`, `AvailabilityIsOwn` |
| `staging` | one download whose real quality differs from the one asked for, both kinds of filesystem | staging, rename, copy, cancels, cleanup, imports, deletions, crashes: `NothingPartialVisible`, `CompletedIsWhole`, `FinishedFilesStayOnRename` |
| `search_feed` | Doctor Who (2005) and (2023), six worlds of what iPlayer lists, overrides and stored mappings, six requests | searches by id, by name and the RSS poll, with failed, cancelled and lost answers and restarts: `AskedIsAnswered`, `OneAtANumber`, `GuessesAreChecked`, `RightEra`, `DebutsAboveWatermark` |
| `dm_duplicate` | 2 workers | violation: a stale list lets a worker process a completed row again |
| `dm_sabdelete` | 1 worker, 1 handler | violation: the snapshot of a queue delete overwrites a completed entry |
| `staging_shared` | two downloads of one episode, one of which turns out to be of the other's quality | violation: both stage in one directory, and the first moves the second's unfinished file into the download directory |

The three violations are listed as `findings`, with the line of the comment that
says otherwise.

**Bounds.**  `MaxIds` bounds the rows ever inserted, `Outcomes` the failure
codes, `Requests` and `Faults` what handlers, operators and the environment do;
all are named in the configurations.  The races of the manager are between one
worker and one handler, two workers, or two handlers, over one row.  `dm_cancel`
has the first two, `dm_enqueue` the third; superseding needs a second row of a
key and its own failure a third.  Two concurrent cancels are not in a run, but
`NoMarkLeak` is proved for any number of them.  Budgets in the manager's runs
and in `retry_budget` are smaller than the shipped ones (3, 12, 12, 3, 6), but
large enough for each counter to meet its limit before and after another has,
and for two steps down the ladder, from 1080 to 540 (that the lowest rung ends it
is in the proof of `CdnFailureLowers`, for every height); the budget properties
are proved for every value.  `OneBucket` and `CompletedStays` are checked with one
worker: with two, the stale list of `dm_duplicate` breaks them, and that is the
finding.  They are proved for any number of workers whenever no stale claim
occurs, see section 4.
`dm_cancel` has no crash, since after one a row is orphaned by design of the
code; `AbandonedUntilCancelled` states what then happens.  A group probe
behaves the same for every sibling after the leader, so two episodes show the
leader, a sibling whose quality differs, and the races with the dashboard's own
row; more programmes or episodes multiply the states beyond an exhaustive check,
and the proofs allow any.  `staging` has
one download because two of one episode meet in one directory: that is
`staging_shared`, which checks the same property.  `search_feed` serves one
request at a time (two multiply the states beyond an exhaustive check): what is
cached, stamped, refused and stored by one request is what the next one finds,
but the interleavings of two lookups of one list are not covered.  `MaxPolls` is
2 because a stamp matters from one feed to the next.  Deadlock checking is off
where the ids, the polls or the searches run out and the system then rightly
stops; a retried row and the throttle are checked for it.

**Type invariants.**  `TypeOK` of RetryBudget, AdaptiveThrottle,
DownloadManager, Staging and QualityProber is proved for every value of the
constants, so no run is spent on them.

**Fairness.**  Goroutines are scheduled and the worker's ticker fires for ever,
so each worker's and each started handler's next step is weakly fair.
`Admit` and `ListDue` are strongly fair: the gate closes and opens with
cooldowns, and `RetryAfter` is a moment that passes, so a worker that keeps
listing sees every due row some day.  A cooldown runs out because time passes,
and a process that is stopped by a fault is started again unless it is being
shut down.  No user or BBC answer is fair: nobody has to make a request, and an
attempt may end in any outcome.  In Attempt, starting an attempt, the lookups'
answers (whichever they are) and the opening are weakly fair, which assumes that
the HTTP calls return; `resolveHLSVariant` has no timeout of its own, see below.
Time ticks, and an ffmpeg that was killed ends.  A running ffmpeg may stop doing
anything, at any point, and never end: that is what the watchdog is for, and
`EventuallySettled` is its work.  One thing is assumed of it, because nothing in
the code sees to it: an ffmpeg that prints progress lines for ever, which restart
the watchdog's clock even if their time stands still, ends some day by itself
(the last conjunct of `AttemptFairness`).  The process
is not stopped for ever (`<>[][~Stopped]`).  The throttle's `Tick` and
`maybeRecover` are weakly fair (time; every worker ticks each second).  The
prober, staging and search modules state safety only.

Each property of a passing run has a mutant in `PROJECT.json`: the definition it
replaces, and a plausible bug the property then catches.

## 4. What is proved

TLAPS checks the theorems below for all values of the constants that the named
assumptions allow.  These say what the constants are: budgets and sizes are
numbers, a row is not `NoRow` (`BudgetsAssumption`, `ConfigAssumption`,
`SizesAssumption`, `NoRowAssumption`, `ShowAssumption`, `ConcurrencyAssumption`),
suppliers are not the empty string (`SuppliersAssumption`), a stream's supplier is one of them
or empty and heights are numbers (`OffersAssumption`, `HeightsAssumption`),
directory names are given (`NamesAssumption`), programmes, shelves and overrides are records of the fields
the code has (`ProgrammesAssumption`, `WorldsAssumption`), and a request is for a
known series or for none (`SeriesAssumption`).  TLC evaluates each of them on the
instances above.  A hypothesis that not every configuration satisfies is part of
the theorem that needs it, and is discussed here.

**`RetryBudget_proofs`** (with `RetryPolicy_proofs`): `TypeOK`,
`EveryFailureCharged`, `AttemptsBounded`, `DedicatedBudgets`, `DegradeIsEarned`
and `CountersNeverReset` of `RetryBudget!Spec`.  The inductive invariant `IInv`
adds what these need of each other: a row that may still be tried is strictly
below *every* budget and has fewer than `MaxRetries` hard failures behind it, and
credits never exceed their bound.  Without that, a failure of one kind could find
another counter already at its budget and the sum would not be bounded.
`FailedPays` carries the argument: one failed attempt moves exactly one counter
by one.

**`Attempt_proofs`**: every behaviour of `AttemptSpec` is one of RetryBudget's
(`AttemptsImplement`), so its budget theorems hold of the attempts in full.  The
step needs `PickOK` (the picked stream's supplier is a supplier): a verdict is a
cause only then.  `SuppliersAlternate` rests on `AlternateInv`: while the row may
still be tried, whoever refused is in `failedSuppliers` (`Recorded`), and
`PickPrefersWilling`: `pickStream` takes a recorded one only when all of the
nearest are.  `NoSilentUpgrade` and `CdnFailureLowers` rest on `HeightInv`: the
target of an attempt is the requested height or the one stepped down for the CDN
failures on record, and after such a failure the record is one longer than when
the attempt chose its target; the rest is that `degradeHeight` is strictly
decreasing in the failures until the lowest rung.

**`AdaptiveThrottle_proofs`**: `TypeOK`, `RecoveryAfterCooldown`,
`OneStepPerWindow`, `OneHalvingPerCooldown`, `ClusterOpensCooldown`, and that
every behaviour of the throttle is one of the contract (`Implements`).

**`DownloadManager_proofs`**: all safety properties of the manager.  `TypeOK` is
not inductive by itself: that `Insert` has an id to give out rests on `enqueueMu`
(`Shape`).  `Base` then adds `ClaimExclusive` (only `Take` enters and only `Freed`
leaves the claimed window of a row), `Rowed` (a row is stored under its own id,
which was given out) and, the heart of it, `Mirror`: from a worker's first write
on, what the bucket holds under its row is exactly what the worker wrote last, or
nothing.  Every step is first reduced to its effect on the rows (`WorkerEffect`,
`Outside`), and the properties are argued from effects.  What each needs:

| Theorem | Property | Hypotheses | Further invariant |
|---|---|---|---|
| `Exclusion`, `MarksDoNotLeak`, `HistoryFinal`, `AbandonedStays` | `ClaimExclusive`, `NoMarkLeak`, `HistoryIsFinal`, `AbandonedUntilCancelled` | none: any workers, callers, requests and faults | `Base` |
| `BucketFollows` | `BucketFollowsWorker` | none | `Base`; this is what `Mirror` says for the places where a worker has written |
| `NoneStranded` | `TerminalInTransit` | no crash, no panic | `Base` |
| `NoneOrphaned` | `NoOrphans` | no crash, no panic, no shutdown that gives up on a request | `OrphanInv`: a row a worker walked away from is being deleted by a cancel, and a stopping server has no request left |
| `OneBucketOnly` | `OneBucket` | any workers, callers and faults; no SABnzbd delete; `FreshClaims` | `ClaimedInv`: a row in a worker's hand is not in history |
| `CompletedForGood` | `CompletedStays` | that, and no request that deletes from history | `AboutToSupersede`: what an `Enqueue` is about to supersede is a failure to come back for |
| `OneRowOnly` | `OneRowPerKey` | one worker, no cancel of either kind | `KeyInv`: what the holder of `enqueueMu` did not find is still not there |
| `GrabsStay` | `NoGrabLost` | that, and no request that deletes from history | `KeyInv` |

The hypotheses mark where the code stops keeping the property.  A second worker
with a stale list processes a completed row again (`dm_duplicate`), which puts it
in both buckets and rewrites its entry.  `FreshClaims` is the exact complement of
that: no step claims a row that is already in history.  Under it the two theorems
say that *nothing else* breaks the buckets, with the shipped default of two or
more workers; a single worker cannot make such a claim.  A SABnzbd delete
writes a snapshot over history (`dm_sabdelete`).  A row that is cancelled between
a worker's list and its claim is written back by the worker (`worker.go:106`), so
a grab made in between has a twin.  After a crash or a panic a row is abandoned,
which is what `AbandonedStays` states instead.  And a property that says a row
stays cannot hold of requests to delete it.  `dm_enqueue` is an instance of the
single-worker theorems, `dm_cancel` of the others.

**`Staging_proofs`**: `TypeOK` without hypotheses, and `NothingPartialVisible`,
`CompletedIsWhole` and `FinishedFilesStayOnRename` for any set of downloads under
`NamesApart`: no two downloads share a directory name, requested or actual
(`staging_shared` is what happens when two do).  `IInv` says of each download whose
directories its row, worker and cancel point at (`Pointers`), that a row being
worked on is not in the history and its file not gone before it has moved
(`Claimed`), and what is on disk at each step (`Files`); of the cleanup, that what
it is about to remove was empty when it looked (`SeenEmpty`); and of each path that ffmpeg's unfinished file lies where its download
is staged, with the worker not yet past ffmpeg (`Unfinished`).  `OneStep` is why
`NamesApart` suffices: a step on one download's names disturbs no other's part.

**`QualityProber_proofs`**: `TypeOK`, `NoPhantomQuality`, `OnlySettledCached` and
`AvailabilityIsOwn` for any show, a programme of its own for each episode, any
number of suppliers, any concurrency and any rows left by earlier releases.  What
is wrong in the cache was first wrong in a goroutine's hand, so `IInv` is about
both: `InHand` (what a probe has learnt at each of its steps, between the look and
the put) and `Kept` (what a row says of the episode it was found for).  It holds
through `Publish` because an episode that was on demand can only expire, and
through the non-atomic spread because both rows that race are settled and true of
the episodes they name.  The three properties are stated of that episode, and
except the old rows, because the code promises no more, see section 5.

**`SearchFeed_proofs`**: all five properties of the run, for any number of
requests served at once, any shelf, overrides, lists and mappings.  Only `Emit`
writes an answer, so four are about what one request lets out; `IInv` carries what
that needs: the request is one Sonarr may make, and its programmes are what iPlayer
lists, not numbered yet.  From there: two claims that survive on one number carry
its title or are one programme (`SettleSound`, `WonSound`; the weaker-claim rules
of `resolve`), the pairs and guesses a search's numbering leaves (`SearchPair`,
`SearchGuess`), the feed's choice among candidate series (`FeedNumbering`), the
filter's number against the number of the generated title (`AskedNumber`), and the
era of what the name filter lets through (`OfItsEra`).  `DebutsAboveWatermark` has
its own invariant, `PollInv`: an item the poll was never given is unstamped, or was
in an answer that was lost.

*What proving taught about the properties.*  Four of SearchFeed's held on the
run's instance but not in general, and are stated as what the code does keep:
`AskedIsAnswered` lets date titles through beside numbers for a request that names
no show (it browses); `GuessesAreChecked` holds a special's guess against the list in
every search, but in the feed only where one series could be meant and the item
carries its name (of several candidates `numberBrowseFromTVDB` heeds only the one
so named, `tvdb.go:885-909`; in the fourth world the feed thus emits Xmas as
S00E02, TheTVDB's "bride"), and never for a special whose subtitle holds a date,
which `resolve` skips (`tvdb.go:487`), nor for one whose label's assumed Series 1
the list bears out (`labelBorneOut`); `OneAtANumber` is about numbers, not
about titles an override dates or that cannot be read back; and `RightEra` needs
a year that is known, but holds for items of every name, which it did not say.

**Only model-checked**: everything under fairness (`EventuallySettled`,
`FullRecovery`, `GrabsEnd`, `CancelsReturn`, and the liveness half of
`ImplementsThrottle`; liveness is outside what the prover handles), and
`MoveIsExact`.

## 5. Known disagreements, and what is not modelled

Modelling brought up places where the code and what is said of it part, beside
the three findings.  They are described here and have no run of their own.

- A worker that listed a row before its cancel can claim and put it back
  afterwards (`worker.go:106`; CHANGELOG.md:917 says a cancelled row cannot come
  back).  Two workers can pass the admission gate on one count (`worker.go:86`).
- `RetryCount` is shared by waits and hard failures, so a hard failure that is
  the first of its kind can be permanent (`worker.go:445`, `506`).
- A refusal is meant to be retried at the same quality (GitHub #55); but it
  leaves `ffmpeg_error` on the row, and `shouldDegrade` (`worker.go:685-688`) only
  looks at that and at the count: with a CDN failure on record and a stall or a
  wait since, the attempt after a refusal goes out lower than the refused one.
- Any progress line restarts the watchdog's clock (`ffmpeg.go:676`), also one
  whose time does not advance: an ffmpeg that goes on printing is never killed.
- `degradeHeight` of a request below 396 returns 396, the lowest rung.
- `propagateToSiblings` reads a sibling's row and writes it in another
  transaction (`prober.go:267-270`): a row the sibling's own probe wrote between
  is replaced by the spread one.  `OnlySettledCached` and `NoPhantomQuality`
  hold all the same.
- A spread row promises a sibling the leader's heights (`prober.go:228`): in the
  feed an episode made in standard definition can be offered at its series' 1080p
  (CHANGELOG.md:217-223 reports one; a search for one episode now probes that).
- Rows that earlier releases spread carry no mark and read as the episode's own
  (`store/types.go:163-167`, `api/search.go:23-24`), and the passing states they
  cached were never dropped: such a row makes the dashboard call an unpublished
  episode available.  So does an episode's own row when it has expired, though
  `store/types.go:148` says entries never need to be invalidated.
- The cleanup reads a directory and removes it in two steps (`cleanup.go:55-67`):
  a finished file that is moved into an empty directory in between is lost.
- Across filesystems `finaliseDownload` copies over an existing target, and a
  copy that fails removes it (`manager.go:445` promises an error that leaves the
  directory in place); hence `FinishedFilesStayOnRename` is stated for one
  filesystem.
- A specials search can be answered with a programme numbered by position; a
  failed fetch of a list overwrites a fresh one another request cached
  (`tvdb.go:100`); two RSS clients with different limits, and a poll whose answer
  was lost, can miss an item whose stamp is then below the watermark
  (`search.go:693-697`), the last being the exception `DebutsAboveWatermark`
  states; `numberOneOffs` does not add what it numbers to `taken`.

Not modelled: film searches, NZB, capabilities and size documents and the
spelling of titles; subtitles; ffprobe's and ffmpeg's output and the patterns
that recognise a refusal (they are endings of a run); the event broadcasts, the
SSE hub and the log ring (delivery to browsers that also poll); diagnostics,
authentication and the dashboard, which keep no state of the server;
configuration, the one-off migrations other than the purge of the quality cache,
and the 400 day purge of stamps (`main.go:259`); store write errors, which the
code logs and ignores, except the prober's own and those of the purge; the fallback on filesystems without
`RENAME_NOREPLACE`; the disabled throttle; a `resolveHLSVariant` whose server
never answers, which the code has no bound for (`ffmpeg.go:349`) and
`EventuallySettled` therefore assumes away; a show's episode that iBL lists again
after it expired.  The status `converting` and the
codes `timeout` and `unknown` are never assigned by the code.  The bound on
`srv.Shutdown` is the fault `drain`, which no run includes: when it strikes, a
cancel between its mark and its delete strands the row (see the hazards).

## 6. Plan

1. **DownloadLedger**: an abstract queue in which a grab is accepted, then
   completed, given up or deleted, and DownloadManager shown to implement it for
   one worker, by TLC and from `KeyInv` and `ClaimedInv` by proof.
2. `MoveIsExact`, from the comparator being a strict total order and the new
   priorities being apart.
3. Two clients of the search feed over a smaller world in TLC, for the caches'
   races (the proofs already allow any number); film searches.
4. **EventHub**: fan-out with drop, unsubscribe during broadcast, the log ring.
