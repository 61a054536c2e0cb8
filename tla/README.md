# A TLA+ model of gitChecker

gitChecker is a local service that finds the git repositories on a machine, keeps the
status of each in an SQLite table, fetches their remotes in the background and serves
what it knows over HTTP to a menu-bar client (macOS) or a tray client (Windows).  This
directory holds TLA+ modules that model the service and the two clients, the TLC
configurations that check them on small instances, and proofs, checked by the TLA+ proof
system, of the safety properties of the service and of its clients for instances of any size.

Paths below are those of the repository: `src/main.rs` is the server's main file,
`clients/menubar/...` and `clients/wingitchecker/...` are the clients.

Contents: [the system](#the-system) - [the modules](#the-modules) -
[what is checked](#what-is-checked) - [fairness](#fairness) -
[what the code does not keep](#what-the-code-does-not-keep) -
[what is proved](#what-is-proved) - [what is not modelled](#what-is-not-modelled) -
[plan](#plan) - [running it](#running-it)

## The system

| part | state it keeps | operations | how it interacts |
|------|----------------|------------|------------------|
| status store (`src/db.rs`) | table `repos` (on disk), `CheckCache` (in memory) | `upsert_discovered`, `delete`, `save_status`, the listings | called by everything else on the runtime's one thread, never across an `.await` |
| fetch columns (`src/db.rs`) | `last_fetched`, `last_fetch_error`, `fetch_failures`, `next_fetch_after` | `set_last_fetched`, `record_fetch_failure`, `list_fetch_candidates`, `list_failed_fetches` | the same table; independent of the status columns |
| scan loop, `run_scan` (`src/main.rs`) | - | walk, upsert what was found, prune what is gone | walk in the blocking pool; wakes the other two loops; shared with `POST /scan` |
| check loop, `check_all`, `check_paths` | a semaphore and a `JoinSet` per call | inspect every tracked repository, save its status | inspections in the blocking pool; woken by timer or `Notify`; shared with `POST /check`, `/scan`, `/fetch/retry` |
| fetch loop, `fetch_paths`, `src/fetch.rs` | the same, and git child processes | fetch every repository that is not backing off, with a time limit | git outlives the time limit; wakes the check loop; shared with `POST /fetch/retry` |
| discovery (`src/scan.rs`) | the walk's stack | find directories that contain `.git` | reads a file system its users are changing |
| inspection (`src/status.rs`) | the status being filled in | working tree, state, stashes, HEAD, upstream | reads a repository its user is changing, piece by piece |
| hover card (`src/status.rs`, `src/model.rs`) | file groups with a cap | sort the status list into groups | second reading of the list that the row's flags come from |
| configuration and process start (`src/config.rs`, `src/main.rs`) | `config.toml` on disk, `Config` in memory | load it or create it, open the table, bind the address, spawn the loops | read once per process; launchd starts the process again when it ends; two instances share file and table |
| threads of the runtime (`src/main.rs`, tokio) | the queue and threads of the blocking pool | run inspections, walks, git and hover cards | shared by everything; a job that was sent runs even if nobody waits for it any more |
| summary (`src/model.rs`) | counters | count the repositories that need attention | the clients repeat its rule on the list they get |
| HTTP API (`src/api.rs`) | - | read the table; trigger a scan, a check, a retry and wait for it | a client that hangs up drops the handler between two `.await`s |
| macOS client (`clients/menubar`) | badge, list, error, progress flags; a cache of hover cards, the message of a retry | poll, panel, refresh, rescan, restart; hover, retry | overlapping reloads on the main actor; timers that sleep and then hide a message |
| Windows client (`clients/wingitchecker`) | the same, `_busy` | timer, panel, refresh, rescan | one reload at a time, further ones are dropped |

What is hard about it:

* **Interleaving.** Checks, scans, fetches and API requests overlap on one thread, switching
  at every `.await`; the blocking pool, the git processes and the user's own work run truly in
  parallel.  A status is computed at one time and saved at another; a scan acts on a walk that
  may be minutes old; a fetch is listed long before it has a permit.
* **Two copies of the truth.** The cache decides whether the table is written.  If the two ever
  disagree, a status is silently not written, and nothing repairs it.
* **Failure in the middle.** A crash keeps the table and loses the cache; a database error leaves
  a scan half done; a time limit abandons a git process that may yet succeed; a client that hangs up
  aborts what it asked for; a first start may die with half a configuration file.
* **Running out.**  A git process that hangs keeps its thread, and what waits for a thread waits behind it.
* **Several processes.**  A second instance opens the same table, with a cache of its own, before it
  notices that its address is taken.
* **Ordering of wake-ups.** The intervals are minutes to a day, so that new work gets done soon
  depends on notifications that may arrive while their loop is busy.
* **Overlapping replies.** The clients apply several replies of several reloads, each when it comes.

What makes each part correct, in a sentence: the cache agrees with the table and the table with what
was last delivered; what stays on disk, and can be seen there, is tracked in the end; a request that
waits for a check leaves fresh rows; a repository that settles is eventually shown as it is; a
repository that is held back shows why, and comes back by itself; the fetch loop cannot be stopped
by git, and nothing else as long as git leaves a thread; the service comes up again after any crash,
with the configuration in the file; no new or fetched repository is forgotten by the loops, and they
go back to sleep; the walk records what was there and nothing that was not; an undisturbed
inspection is exact, and work that stays put is never missed; card, row, badge and lists agree; a
hover card is never old; and the clients' flags and numbers catch up with the service whatever
overlapped or failed.

## The modules

```
   server, its data          StatusStore --extends--> CheckScan     CheckScanProofs
                                  CheckScan --implements--> StatusBoard
                             FetchBackoff                           FetchProofs
   server, its processes     Loops                                  LoopsProofs
                             WorkerPool     Startup                 ServerProofs
   server, reading the disk  Discover                               ServerProofs
                             Inspection                             ReadingsProofs
   server, pure readings     Details        Summarize               ReadingsProofs
   clients                   ClientReload                           ClientReloadProofs
                                  --extends--> MenuBar
                             HoverCard                              MenuBarProofs
                                  --extends--> Tray                 TrayProofs
```

The `.cfg` files instantiate the modules for TLC, with the help of an `MC` module where a constant
needs a definition.  In each module, definitions whose comment starts with "Variant" are changed
versions of the definition below them, as a plausible mistake would have it; no specification uses
them, they are there to see that the properties notice.

An action is what the code does between two `.await`s, in the service and in the clients alike.
The server runs on tokio's current-thread runtime (`src/main.rs:30`), both clients on their UI
thread, so such a stretch is never interrupted by another one of the same process.  Work on
the blocking pool, in git and on disk is interleaved with it step by step.

**StatusStore** - the status half of `src/db.rs`.  `rows[p]` is the column `status_json` of p's
row (`Null` for a repository that has not been checked, `Untracked` for no row), `cache[p]` the
`CheckCache` entry.  One operator per `Db` method: `SaveStatus` (write only on a difference to
what `OnDisk` believes, then remember), `UpsertThenDelete`, `OpenDb` (a new process).  A status is
one value, the JSON string that the code compares; repositories are named by their paths, so
`repo_id` is taken to be injective.  `Served` is what `hydrate` makes of a row and its cache entry for
the API: the status, and the time of the check.

**CheckScan** - the processes that use the store: the check loop, the scan loop and a number of
API requests, over a disk that changes at any time.  `pc[k]` is what process k is doing,
`job[k][p]` the task for p in its `check_paths` call: listed, running in the blocking pool with a
permit, or done and waiting for the runtime.  `StartCheck`, `Spawn`, `Inspect`, `Save`,
`LoseStatus` and `FinishCheck` are `check_all` and `check_paths`; `StartScan`, `Visit`,
`CommitScan` and `FailScan` are `run_scan`, whose upserts, tests and deletions have no `.await`
between them and so are one step (a disk change between the tests of two paths is the same as one
before or after the step, since each test looks at a path of its own).  The test is `still_exists`,
that is `Path::exists`, which is false on every error: a repository on a volume that is not mounted,
or in a directory that may not be searched (`Hidden`), looks as if it were gone, and is pruned although
it is on disk (`StillExists`). `StartRetry` and
`CheckRetried` are the ends of `POST /fetch/retry`; `Disconnect` drops a request's future;
`Restart` is a crash at any point.  `raced`, `moved` and `rival` only record what happened, for
the properties: paths pruned while a check of them was under way, paths on which a running
call cannot be judged, and paths of which an older inspection was waiting when a call began.

**StatusBoard** - what readers of the statuses may rely on, without cache or permits: a board on
which a delivered status shows at once, except after the pruning race.  `CheckScan!WriteThrough`
states that CheckScan implements it, with board = rows and pending = the inspections not saved.

**FetchBackoff** - the fetch columns and who uses them: the fetch loop, `POST /fetch/retry`, git
processes that end, hang or are abandoned, remotes that come and go, scans that insert and delete
rows, crashes.  `next_fetch_after` is kept as the time left until then, so `Tick` makes it smaller.
`failures` is counted only as far as it changes the delay (`ShiftCap + 1`).  `Init` includes tables
from before the backoff columns were added by `ALTER TABLE`.

**Loops** - the three loops, their intervals (`due`, with tokio's Burst behaviour for missed
ticks) and the two `Notify`s (`permit`: `notify_one` stores at most one).  It abstracts what the
other modules detail, and keeps account of what is *owed*: a new row is owed a check and a fetch, a
repository whose refs advanced is owed a check; `slipped` is what an error kept from being done.

**WorkerPool** - the blocking pool, on which the other modules give every job a thread at once.
`pool` is the queue, of which the first `Threads` jobs run; a job is known by who waits for it, by its
repository and by whether it is git.  `Begin`, `Spawn`, `Resume` and `Finish` are a pass of
`check_paths` or `fetch_paths` with its semaphore, `RequestCard` is `GET /repos/{id}/details`, which
needs no permit, `Timeout` is `FETCH_TIMEOUT`, which counts from `spawn_blocking` on.  A time limit and a
client that hangs up only drop a handle: the job stays in the queue and has its turn (`Abandon`).

**Startup** - processes from `load_or_init` to their loops, several over one `config.toml` and one
table.  The test that the file exists, its truncation and the write of the defaults are steps of
their own (`Start`, `Truncate`, `WriteDefault`), and a process may die between any two (`Die`).  A
configuration is kept as its address and whether the intervals of scans and checks are zero; an
interval of zero panics in the loop that asked for it, so that loop does nothing (`Scan`, `Check`).
`Works` has the point that matters for two instances: loops are spawned before the address is bound,
but `main` does not await in between, so on the one thread they are first polled afterwards.

**Discover** - the walk of `src/scan.rs`, entry by entry, with walkdir's stack of open directories
and `skip_current_dir`, on a tree that changes meanwhile.  Its reference, `Repositories`, is
declarative.

**Inspection** - `compute_status`, read by read, while a user edits, discards, stages, commits,
stashes, resets, merges, pushes, switches and changes permissions in between.  The status list is
itself read file by file (`ReadFile`), and the flags are set when all files have been visited
(`ReadTree`). git is modelled from what those commands do to the things the inspection reads.
`target` is the HEAD that was read: it is this commit that `graph_ahead_behind` compares with the
upstream, wherever HEAD has moved since.

**Details** - `working_tree` and `fill_details` side by side over the same status list.

**Summarize** - `Summary::from_statuses`, and the clients' `needsAttention`, `atRiskRepos`,
`behindOrUnreachableRepos` and `ShouldList` on the same list.

**ClientReload, MenuBar, Tray** - the clients.  ClientReload is their common part: a reload posts
its trigger, reads `/summary`, `/repos` and (menu bar) `/config`, and applies each reply when it
comes.  Each write by which the service changes what it serves makes a new *revision*, which gives
"older" and "newer" a meaning; what is shown is a revision.  A later revision need not be nearer to
the disk: a status that is saved late is one, with an older state of its repository
(`CheckScan_fresh.cfg`).  Nor does a trigger that is answered with 200 promise a new one: that is its
status also if the listing failed (`src/main.rs:136`), a save failed (`:153`) or an inspection panicked
(`:157`).  What a trigger does leave behind is `CheckScan!AnswerFresh`.  So the clients are held to what
was stored when the trigger was answered (`answered`).  MenuBar adds the poll, the panel, its buttons with
their disabled states and the restart.  A click only makes a task (`Make`, `clicked`), which begins
later and then sets its flag without looking at it (`Takes`), so that two rescans, or two restarts, may
overlap (`doubled` remembers that they have).  Tray adds the timer, `_busy` and the tray menu.

**HoverCard** - the card of a row in the menu bar, `details(for:)` with its cache, and
`retryFailedFetches`, which empties that cache and shows a message until a timer hides it.  Details are
kept as their age, so `Tick` makes everything older; a request is answered, fails, or ends at its limit.
It shares no state with MenuBar except the reload at the end of a retry, which is `ReloadEnds` here
and any reload there.  The retry button makes a task as well, which HoverCard joins with the click.

## What is checked

Each run is a configuration of one module; `PROJECT.json` lists it with its properties.

| run | instance | what it shows |
|-----|----------|---------------|
| `check_scan` (`CheckScan.cfg`) | one repository with a content that can be read and one that cannot even be looked at, both loops, one request, one permit | `CacheCoherent`, `NoRedundantWrite`, `AnswerFresh`; `WriteThrough` (refinement of StatusBoard); `Discovered`, `Converges` under fairness |
| `fetch_backoff` (`Fetch_backoff.cfg`) | one repository, the loop and one retry, delays 2, 4, 7, 7 | `HeldBackIsShown`, `BackoffJustified`, `LoopHoldsBack`; `Recovers` under fairness |
| `worker_pool` (`WorkerPool.cfg`) | three threads, two repositories, both loops with one permit each, one hover card | `OnlyGivenUpStarves`; `NeverWedged`, `PassesEnd` under fairness |
| `loops` (`Loops.cfg`) | two repositories, all three loops | `NoCheckForgotten`, `NoFetchForgotten`; `LoopsCatchUp`, `Quiesces` with no further tick |
| `startup` (`Startup.cfg`) | launchd's instance and one started by hand, three configurations, two faults | `CacheAgrees`, `LoadedIsFile`; `ComesUp`, `StoredInTheEnd` under fairness |
| `discover` (`Discover.cfg`) | all trees of five nodes, two roots one inside the other, one change during the walk | `NothingInvented`, `NothingMissed` |
| `readings` (`Readings.cfg`) | lists of up to two repositories; status lists of up to two entries, with up to two index and two worktree flags each | `BadgeCountsIssues`, `CountedIsListed`; `CardMatchesRow`, `ListedUpToCap` |
| `inspection` (`Inspection.cfg`) | every repository with two files, in each of git's twelve states, up to two steps of its user | `ExactWhenQuiet`, `SteadyWorkShown` |
| `menu_bar` (`MenuBar.cfg`) | the poll and two tasks of the panel, one new revision, one failed request | `FlagsTellTheTruth`, `AloneIsFresh`; `ClientCatchesUp` under fairness |
| `hover_card` (`HoverCard.cfg`) | one card, two messages, up to two timers at once | `CardIsRecent`, `ShownInFull`; `CardSettles`, `RetrySettles` under fairness |
| `tray` (`Tray.cfg`) | two slots for reloads, two new revisions, two failed requests | `ScanningIsReal`, `NeverBackwards`; `TrayCatchesUp` under fairness |
| `cache_mistaken` (`CheckScan_mistaken.cfg`) | as `check_scan`, no request | refutes `CacheNeverMistaken` |

Each module of a component has one type invariant.  The runs do not list them, since all of them are
proved.  `PROJECT.json` also names, for every property of a passing run, a variant of a definition
under which TLC finds the property violated.

### Why these bounds are enough to be of interest

* *CheckScan.*  Every operator of the store touches one repository at a time and no guard looks at
  two, except for the permits; so one repository with everything that can happen to it shows
  all interactions of its row, its cache entry and the inspections of it.  Up to two checks of it
  are under way at once (the loop's and a request's) and two scans, which is what the race of a stale
  save needs.  Two contents are enough to tell a fresh status from a stale one, and one of them being
  hidden, a repository that is gone from one that only seems so.  With one repository
  and one permit the semaphore never makes anyone wait; that is what the second repository of
  WorkerPool is for, which has the same pattern of permits, and the second one of
  `CheckScan_permits.cfg`.  The proofs cover all sizes.
* *FetchBackoff.*  Base 2, cap 7 and shift cap 2 make the cap bite between two powers and leave one
  count beyond the shift's own cap, so all three branches of the delay occur.  One request is
  enough for a second writer of the same row.
* *WorkerPool.*  One permit for two repositories makes tasks wait for each other; three threads are just
  enough for two passes and a card, so whatever was given up makes somebody wait.  `MaxJobs` = 3 only
  keeps new passes from beginning while three jobs are in the pool; those under way may send more.
* *Startup.*  Two instances are what it takes to create one file and to want one address.
  `MaxFaults` = 2 lets the first start die half-way and a later instance die as well; between faults
  anything may be started any number of times.  One repository stands for all, as in CheckScan.
* *Loops.*  A repository that is owed something while another keeps the loop busy needs two of them.
  `MaxDue` = 1 leaves out that several missed ticks are delivered in a row, which only wakes a
  loop more often.
* *Discover.*  Five nodes hold a repository inside another, an excluded directory, an unreadable one
  and a `.git` that is a file, at two depths, and a root that is inside another root.
* *Readings.*  The cap of Details is 1, so two entries exceed it; the flags of an entry are independent
  of those of the others.  The lists of Summarize have repositories with at most two things that count,
  one with all of them, and one with all but an upstream.  The proofs cover all lists and any cap.
* *Inspection.*  Two files and two steps of the user are enough for a mixture of two working trees: one
  file is changed behind the reader, and another discarded before it comes there.  One step is enough to
  move work from one read to another, as `CleanAtOnePoint` shows (see below).
* *Clients.*  A task has one reload at a time.  The menu bar has two tasks next to the poll, so that two
  rescans, or two restarts, overlap with each other and with a poll; one new revision is enough to tell
  an older reply from a newer one.  Two slots are one too many for the tray, which must be alone; its
  two new revisions give an older, a present and a newer one.  The pings of a restart are not counted:
  any of them may be answered, or none.
* *HoverCard.*  A cache that lives for 2 ticks and a request that may take 3 make an entry that is
  filled late and used late; two timers and two messages, equal or not, are what an overlap needs.

## Fairness

Safety properties are checked and proved without any.  For the liveness properties:

* *CheckScan*: weak fairness of every process's own progress, because tokio polls every task that
  can run, git2 reads local files, and the walk is finite.  Strong fairness of the check loop's own
  steps on each repository, and of its start: a panic, a database error or a crash may happen any
  number of times, but does not hit the same operation every time it is tried.  The same of the scan
  loop's steps, for `Discovered`, which excepts a repository that walks miss for ever.  Nothing is
  assumed of the user or of clients.
* *FetchBackoff*: time passes, the loop's timer ticks, a task that can run is polled, and the timer
  around git fires (`Timeout` is a disjunct of `RunsOn`).  `Recovers` has its further conditions as
  an antecedent, `Lucky`: the fetches of the repository are not lost to a time limit, an error or a
  crash every time.
* *WorkerPool*: the runtime polls what can go on, and the timer around git fires.  That anything on
  the pool ends is not assumed, which is the point of `NeverWedged`.  `PassesEnd` has two conditions
  as antecedents: inspections that have a thread end (`DiskJobsEnd`), and git does not hold all
  threads for ever (`GitLeavesAThread`).
* *Startup*: a process that has begun goes on, its loops come round, and launchd starts its instance
  again (`KeepAlive` in the LaunchAgent).  Nobody need start another, and faults may strike
  anywhere; that the file stays readable in the end is an antecedent of both liveness properties.
* *Loops*: the tasks go on, `select!` takes a branch that is ready.  No tick is assumed: what has to
  happen must happen because of a notification.
* *MenuBar, Tray*: the service answers, replies are applied, the poll or timer goes on.  The service
  need not store anything, nor the user do anything.  The tray's timer is restarted when the panel
  is opened or closed, so it is only fair as long as neither happens for ever.
* *HoverCard*: time passes, a request ends at its limit, sleeping tasks wake up.  The service need
  not answer.

## What the code does not keep

One statement of the repository's comments is listed as a finding, with the run that refutes it:

* `cache_mistaken` - `src/db.rs:99` says the cache entry of a deleted repository is dropped "so a
  re-discovered repo can't be mistaken for "unchanged" against a row that no longer holds its
  status".  An inspection that was under way when the repository was deleted is saved afterwards:
  the `UPDATE` matches no row, but the cache entry is made (`src/db.rs:131`).  When the repository is
  discovered again, its row is blank, the next inspection equals the cache entry, and the row
  stays blank until the status changes or the service is restarted.  `CacheCoherent`,
  `Converges` and `WriteThrough` hold with exactly this exception, `raced`.

Further configurations state what comments say, or what one might expect, and are refuted by TLC in a
second or two.  They are not among the listed runs, being weaker statements or matters of reading:

| configuration | property | what TLC shows |
|---------------|----------|----------------|
| `CheckScan_fresh.cfg` | `PostCheckFresh` (`src/api.rs:97`) | `POST /check` returns while another process still holds an older inspection, which it saves over the fresh one |
| `CheckScan_checked.cfg` | `LastCheckedSuccessful` (`src/model.rs:74`) | a repository that cannot be opened gets a time of "last successful check" from `save_status` |
| `CheckScan_permits.cfg` | `ConcurrencyBounded` (`src/main.rs:24`) | every call has a semaphore of its own |
| `Fetch_soon.cfg` | `LoopNeverTooSoon` (`src/main.rs:180`) | a manual retry fails between the loop's listing and its turn; the loop fetches all the same |
| `Fetch_stamp.cfg` | `LastFetchedTruthful` (`src/model.rs:76`) | a git process that outlived its time limit succeeds, and nobody records it |
| `WorkerPool_api.cfg` | `ApiResponsive` (`src/main.rs:29`) | git that hangs on all threads keeps hover cards from being read |
| `WorkerPool_given.cfg` | `GivenUpHasRun` (`src/fetch.rs:45`) | the time limit of a fetch runs out while it still waits for a thread; it is recorded as failed, and git is started later |
| `WorkerPool_twice.cfg` | `OneGitPerRepo` (no comment says so) | an abandoned fetch of a repository goes on next to a new one |
| `Startup_addresses.cfg` | `CacheAgrees` (`src/db.rs:23`) | an edit of the address lets a second instance serve next to the first; each takes for stored what the other has overwritten |
| `Startup_edits.cfg` | `EditsSurvive` (no comment says so) | a file written between the test that there is none and its creation is overwritten |
| `Discover_nested.cfg` | `NoNestedRepos` (`src/scan.rs:3`) | `skip_current_dir` skips `.git` only: the walk goes on through the rest of the working tree and records repositories in it |
| `Inspection_torn.cfg` | `CleanAtOnePoint` (`src/model.rs:50`) | the stash is popped after the working tree and before the stashes were read: the status is clean, the repository never was |
| `Inspection_risk.cfg` | `DirtyIfAtRisk` (`src/model.rs:105`) | conflicts, and commits without an upstream or on a detached HEAD, do not count |
| `MenuBar_badge.cfg` | `IssuesMatchBadge` (`AppModel.swift:45`) | the badge is refreshed by a reload that started while the panel was closed; the list is not |
| `MenuBar_open.cfg` | `OpenShowsCurrent` (`AppModel.swift:80`) | a poll's older reply arrives after that of the opening panel |
| `HoverCard_message.cfg` | `ShownForSeconds` (`AppModel.swift:22`) | the timer of the first retry hides the equal message of the second |
| `HoverCard_cleared.cfg` | `ClearedStaysClear` (`AppModel.swift:158`) | a card asked for before the retry puts its old details back into the cache |
| `Tray_open.cfg` | `OpenPullsFresh` (`AppModel.cs:81`) | the refresh of an opening panel is dropped because a tick's reload is under way |
| `Tray_scanning.cfg` | `ScanningIsShown` (`AppModel.cs:21`) | a second rescan is dropped, and resets the flag of the first |

Some of the listed properties have an exception because of what the code does, rather than a run that
refutes them: a repository that only seems to be gone is pruned, and comes back with a new row when it can
be seen again (`Discovered`); a rescan or restart that is clicked twice loses its flag with the first that
ends (`FlagsTellTheTruth`); a 200 for `POST /check` or `/scan` does not say that anything was stored
(`AloneIsFresh`); and a status that is saved late is shown as if it were new (`NeverBackwards`).

## What is proved

TLAPS proves the following for every value of the constants that satisfies the named `ASSUME`s of
the modules: any number of repositories, requests and permits, any contents, any delays, lists of
any length.  What the assumptions say is that sentinels differ from values, that processes differ
from each other, and that bounds are natural numbers; `FetchAssumption` also says of the powers of
two up to the bound of the shift that they are natural numbers, begin with 1 and double, which the
prover's arithmetic does not know by itself and TLC evaluates;
`DetailsAssumption` has the fact about libgit2 that a conflicted file has no other flags, and
`DiscoverAssumption` that no directory lies below itself.

| theorem | says |
|---------|------|
| `CheckScanProofs!TypeCorrect` | `Spec => []CheckScanTypeOK` |
| `CheckScanProofs!CacheIsCoherent`, `NoWriteIsRedundant` | `Spec => []CacheCoherent`, `Spec => []NoRedundantWrite` |
| `CheckScanProofs!AnswerIsFresh` | `Spec => []AnswerFresh` |
| `CheckScanProofs!ImplementsBoard` | `Spec => WriteThrough`: CheckScan implements StatusBoard |
| `CheckScanProofs!RowsSettle` | the steps behind `Converges` |
| `CheckScanProofs!CallsOnlyAdvance` | a call that has begun is never set back |
| `CheckScanProofs!CallsKeepTheirPermits` | the bound on the checks of one call, what is true of `ConcurrencyBounded` |
| `FetchProofs!FetchTypeCorrect`, `HeldBackIsAlwaysShown`, `BackoffIsJustified` | the invariants of the fetch columns |
| `FetchProofs!LoopRespectsBackoff` | `Spec => LoopHoldsBack` |
| `FetchProofs!DelayDoubles` | the delay doubles from one interval up to the cap |
| `FetchProofs!FailuresOnlyPostpone` | a failure never brings the next attempt forward |
| `FetchProofs!OnlyFailuresSetBack` | the steps behind `Recovers` |
| `LoopsProofs!LoopsTypeCorrect`, `ChecksAreRemembered`, `FetchesAreRemembered` | the invariants of the wake-ups |
| `LoopsProofs!LoopsRunDown` | the steps behind `Quiesces` |
| `ServerProofs!WorkerPoolTypeCorrect`, `OnlyGivenUpWorkStarves` | the invariants of the blocking pool |
| `ServerProofs!PermitsNeverOverdrawn` | no pass has more operations under way than permits |
| `ServerProofs!NoPassIsStuck`, `PassesOnlyAdvance` | the states and steps behind `NeverWedged` and `PassesEnd` |
| `ServerProofs!StartupTypeCorrect`, `FileIsLoaded` | the type, and `Spec => []LoadedIsFile` |
| `ServerProofs!CachesAgree` | `Spec => []CacheAgrees`, if all configurations have one address |
| `ServerProofs!OneServerPerAddress` | no two processes serve at one address |
| `ServerProofs!StartsOnlyAdvance` | the steps behind `ComesUp` |
| `ServerProofs!RightRowStays` | the steps behind `StoredInTheEnd`, if all configurations have one address |
| `ServerProofs!DiscoverTypeCorrect`, `NoneInvented`, `NoneMissed` | the invariants of the walk |
| `ReadingsProofs!InspectionTypeCorrect`, `QuietIsExact`, `SteadyWorkIsShown` | the invariants of an inspection |
| `ReadingsProofs!ShownWasThere`, `NeverAFalseAlarm` | what a status shows was there, and what makes it dirty was work at risk |
| `ReadingsProofs!DetailsTypeCorrect`, `CardAlwaysMatchesRow`, `GroupsListUpToCap`, `EmptyCardIsClean` | the invariants of the file groups |
| `ReadingsProofs!SummarizeTypeCorrect`, `BadgeIsIssues`, `NothingCountedIsHidden`, `BadgeStaysBounded` | the invariants of the summary |
| `MenuBarProofs!MenuBarTypeCorrect`, `FlagsAreTrue` | the invariants of the macOS client |
| `MenuBarProofs!AloneShowsWhatWasAsked` | `Spec => AloneIsFresh` |
| `MenuBarProofs!MenuBarNeverAhead`, `OutdatedRepliesDieOut` | the states and steps behind `ClientCatchesUp` |
| `MenuBarProofs!HoverCardTypeCorrect`, `CardStaysRecent` | the invariants of the hover card |
| `MenuBarProofs!OutcomeShownInFull` | `HoverSpec => ShownInFull` |
| `MenuBarProofs!SomeoneAlwaysEndsIt` | the states behind `CardSettles` and `RetrySettles` |
| `TrayProofs!TrayTypeCorrect`, `TrayNeverOverlaps` | the type, and one reload at a time, whose reply is no earlier revision than what is shown |
| `TrayProofs!ShowsNeverBackwards`, `ScanningAlwaysReal` | `Spec => NeverBackwards`, `Spec => []ScanningIsReal` |
| `TrayProofs!EveryReloadIsFresh` | what `AloneIsFresh` says of some reloads of the menu bar holds for all of the tray |
| `TrayProofs!OvertakenRepliesDieOut` | the steps behind `TrayCatchesUp` |

**CheckScan.**  `CacheCoherent` is not inductive: a cache entry of an untracked repository would
break it when the repository is tracked again.  So one has to know that there is none, which
holds only as long as no inspection of an untracked repository can be saved.  `RaceFreeInv` says
so for all repositories outside `raced`: untracked means not cached and no check on its way.
`PhaseInv` is needed to know that a process that is idle or walking has nothing on its way, so
that the one step that enters `raced`, the pruning, sees everyone (`UnderWay`).  `BlankAtWorst` is
what remains after the race: a row that the cache contradicts is blank, so that a write that the
cache believes necessary is never redundant.  Their conjunction with the type invariant,
`CacheInv`, is inductive; `SaveStore` and `ScanStore` are the two lemmas that matter, about what
a save and a pruning do to row, entry and list together.

For `AnswerFresh`, `FreshInv` follows a call from its beginning: on a repository that the call can
be held to (neither changed, nor pruned, nor lost since, no older inspection about when it began),
*every* finished inspection, whoever holds it, sees what is on disk now, and once the call has
saved its own, so do the row and the time of check in the cache entry, which are what is served;
whoever saves later saves the same.  It is inductive together with
`CacheInv`, because a save that the cache prevents must not be needed.

`ImplementsBoard` maps each step to a step of StatusBoard or to a stutter: `Inspect` observes,
`Save` delivers, `LoseStatus` and `Disconnect` forget, the end of a scan revises, `Restart` resets, and
all others leave the board alone.  `Save` needs `CacheInv`, for the case that it writes nothing.

**Fetches.**  `FetchInv` = type, `HeldBackIsShown` and `BackoffJustified` is inductive, from
`DelayFacts`: the delay lies within the cap, and counting past the bound of the shift does not
change it.  `LoopHoldsBack` needs `ListedWhenDue` in addition: a path that waits for the loop's
permit has no time left to wait, or has been pushed back by someone else since it was listed.
`DelayDoubles` is the sentence of the repository's README about the backoff, as an equation: one
interval, twice as much for each further failure, at most the cap.  So the delays grow (`DelayGrows`),
and by `BackoffJustified` what is left to wait is at most the delay of the failure before: a manual
retry that fails puts the next attempt of the loop off, or leaves it where it is, but never brings it
forward (`FailuresOnlyPostpone`).

**Loops.**  `LoopsInv` adds `OwedToRows` to the two properties: only tracked paths are owed
anything and only owed ones have slipped.

**WorkerPool.**  `OnlyGivenUpStarves` compares the length of the queue with the number of threads.
Its jobs are those that were given up, those of the two passes and those of the cards.  `JobsMatchTasks`
says that a task that has sent a job has one at exactly one position of the queue, and that a job that
anyone waits for has such a task.  So a pass has no more jobs than it has permits in use
(`PermitsBounded`), a card no more than one (`OneJobPerCard`), and `UnionBound` adds them up: if what was
given up leaves `Share` threads, the queue is no longer than the threads are many.  The lemmas
`SendJob`, `EndJob` and `AbandonJobs` follow the positions through the three things that happen to the
queue, of which removing a job from its middle shifts all later ones.  `IdleInv` adds that one who is
not in a pass has no task; without it, a new request could be a second one for a job that is there.

**Startup.**  `LoadedInv` extends `LoadedIsFile` to the whole time from the reading of the file on;
`SameMeaning` is the step that matters: an instance that has read an empty file is in step with it
still when the defaults are written.  For `CacheAgrees`, `OwnerInv` adds that one instance serves
at most, and that one that is about to begin has an empty cache; so nobody writes the table
behind the back of a cache that is used.  With more than one address that is lost
(`Startup_addresses.cfg`), but `OneServerPerAddress` remains: it is inductive with the type, because a
process keeps its configuration from the moment it binds.

**Discovery.**  What a walk of a tree D reaches is defined by recursion along the path from a root
(`Visible`).  The proofs need that this recursion has a solution at all.  An induction over the tree
is out of reach, but not needed: the union of all sets of nodes that respect the recursion downwards
is one, because the tree is a forest (`VisibleEquation`), and by the same fact a larger tree
lets more be seen (`VisibleGrows`).  `NothingInvented` then follows from `PendingReached`: whatever is on the
walk's stack could be reached in the tree of all that has ever been there.  `NothingMissed` is not
inductive, as what is still to be found is not on the stack but somewhere below it.  `BehindOrAhead` says so
for every part D of the tree that has been there all the time: a set T of its nodes is still ahead, each of them
pending itself or below another one of T, and outside T the repositories of D have been recorded.  When
the walk is over nothing is pending, and a T with nodes would have one whose parent is not in T.  It
speaks of all repositories of D, those inside others as well, because the walk does go on below a
repository (`Discover_nested.cfg`); `NothingMissed` asks for the outermost ones only, which is what the
comment of `scan.rs` promises.

**Inspection.**  `QuietSoFar` says what the status holds after each read as long as the repository
has had one state only; with it, `ExactWhenQuiet` is inductive.  `SteadySoFar` says, for each kind
of work that all states since the start have had, that it is in the status once its read has been
made.  For files it goes through the list: of a file that has been visited and had local changes
throughout, a kind that it had is listed (`FilesListed`), and the flags keep it (`FilesStayShown`), since
more states only leave fewer files with changes throughout, and more kinds that they had.  That is why
the property is about each file by itself: `unstaged` as such may hold throughout and not be shown, when
one file is edited behind the reader and another discarded before it.  For commits the reads are three,
between which HEAD may leave the branch, come back, grow and be reset, and what is compared at last is
the HEAD that was read.  If the commits are there all along, they are there when HEAD is read, and no
push comes in between.  `TargetShared` says that the present HEAD has what the HEAD read shares with it,
so that a push takes no more commits from the latter than it has, and none if there is nothing to push.

The converse is `ShownWasThere`.  `NothingInvented` says of each field by itself that one of the
states the repository has gone through had it; it needs `ReadWasThere` for what has been read and is
not in the status yet, the kinds that are listed and the HEAD that a push may shorten.  Files of the
three kinds, stashes, an operation and commits are work at risk, so `NeverAFalseAlarm` follows.  That
all fields were true *at the same time* is what TLC refutes with `CleanAtOnePoint`: a status may be torn,
but is not made up.

**Details.**  `DetailsInv` is inductive from `KindFacts` and `GroupFacts`: the chains of tests name
a kind exactly if the entry has one of the flags of their half.

**Summarize.**  `CountersCount` says that each counter is the number of repositories, among those
the loop has gone through, that it stands for; with the type it is inductive, and the counting
theorems of the library turn it into the two statements about lists.  `BadgeIsBounded` is inductive
by itself, because a repository counts for the badge exactly if it counts for one of the parts.

**Hover card.**  `AgesBounded` follows the age of details from their reading to the card: within a
request they are no older than the request, and in the cache no older than the entry and one
limit.  With the two ages at their bounds when the card is filled, `CardIsRecent` follows.  For
`ShownInFull`, `TimersWait` weighs a timer against the message it would hide: what the timer has left
and what the message has had add up to its time, unless the timer was begun with an earlier message
that was equal.  `SomeoneEndsIt` is inductive with the type: a message without a timer is one whose
retry is still reloading, and it is the end of that reload that begins the timer.

**Clients.**  ClientReloadProofs says what the operators of ClientReload do to types, positions and
replies, once for both clients.  `FlagsTellTheTruth` of MenuBar is not inductive: the task that ends
resets the flag, so one must know that no other one of its kind is left without having been counted as
`doubled`.  `OneOfEach` says that two tasks of a kind are under way only if it is.  For `AloneIsFresh`,
`AloneInv` follows a reload that nobody overlaps from request to request (`InStep`): what it has was
served, what it shows is what it has, and each is no earlier a revision than the one before and than
the one with which its trigger was answered.  For `NeverBackwards` of Tray, `InOrder` says that a reply
still to be applied is at least as late a revision as what is shown, and at most the one served, so that
a later reply cannot be an earlier revision; `OneAtATime` makes sure that nothing else is applied in
between.  The menu bar has neither.  `ScanningIsReal` is inductive together with them: the flag is set
only by a rescan that begins, and reset by whatever ends.  `EveryReloadIsFresh` is the gain from `_busy`:
as reloads do not overlap, each is alone from its begin to its end (`AllAlone`), and the step lemmas of
`AloneIsFresh` apply to all of them.  `NoneNewer` and `SettleStep` are about replies: what is under way
was served once, so it is no later than the revision served.  `PingsUnanswered` adds that a ping carries
no revision.

**Towards liveness.**  That something happens is out of the prover's reach; that nothing undoes it, and
that each step counts, is not.  These theorems state what the liveness properties need besides fairness:

* `RowsSettle`, for `Converges`: while a repository stays as it is, the set of processes that hold a
  stale status of it only shrinks; with none left, a row that is right stays so, whoever saves or
  prunes; and each fresh status that is saved makes the row right, even where the cache prevents the
  write, or leaves it blank after the pruning race.
* `LoopsRunDown`, for `Quiesces`: `Energy` weighs the wake-ups and passes that are left.  A fetch
  that ends wakes the check loop, and a scan that ends wakes both, so a pass weighs more than what
  it wakes.  Without a further tick, every pass that begins or ends lowers it, and at zero all loops
  sleep: the loops cannot keep each other awake.
* `NoPassIsStuck` and `PassesOnlyAdvance`, for `NeverWedged` and `PassesEnd`: a pass that is not
  over can go on, or has a job of its own in the pool; its paths only advance, and a job that waits
  for a thread moves up or stays. `PermitsNeverOverdrawn` is the bound of the semaphore, which gives
  a permit back only when a task has been resumed.
* `CallsOnlyAdvance`, for every liveness property of CheckScan: a walk has fewer paths to pass, a
  check goes from listed to running to done to saved or lost, and a call turns to its final check
  once; nobody else sets it back.  With `CallsKeepTheirPermits`, one that is not over always has
  something that can go on.
* `FailuresOnlyPostpone` and `OnlyFailuresSetBack`, for `Recovers`: only a fetch that fails or runs
  out of time sets a repository back, and one success of anybody frees it, whatever else is on its
  way.
* `StartsOnlyAdvance`, for `ComesUp`: a start goes through its phases in one direction, and ends
  with a server at its address, itself or the one that had it before, unless there is a fault or the
  file cannot be read; from then on only a fault ends the service.
* `OutdatedRepliesDieOut` and `OvertakenRepliesDieOut`, for `ClientCatchesUp` and `TrayCatchesUp`:
  while the service stores nothing, no further outdated replies come up; without any, what is shown
  of the revision served stays shown, and every reply that arrives shows it.  The menu bar needs
  this more than the tray: its reloads overlap, and until then the older of two replies may win.
* `SomeoneAlwaysEndsIt`, for `CardSettles` and `RetrySettles`: nothing that is shown for the time
  being is left without the request, retry or timer that ends it.
* `RightRowStays`, for `StoredInTheEnd`: a right row survives every restart and every second
  instance, and a check always leaves a right row, because a cache that would prevent the write is
  never behind the table.

Only model-checked are the liveness properties themselves, which need fairness, and ENABLED with it:
`Discovered`, `Converges`, `Recovers`, `NeverWedged`, `PassesEnd`, `LoopsCatchUp`, `Quiesces`, `ComesUp`,
`StoredInTheEnd`, `ClientCatchesUp`, `CardSettles`, `RetrySettles` and `TrayCatchesUp`; and the statements that
TLC refutes, above.

## What is not modelled

* The contents of a configuration (`src/config.rs`) other than the address and whether an interval is
  zero: roots, excludes and `fetch_enabled` are constants of the other modules, in which intervals are
  positive.
* Time in seconds, apart from the delay of a fetch and the ages of a hover card: timers may fire at any
  moment.
* Threads of the blocking pool that a scan's walk takes: it is one job that ends, next to the
  inspections that WorkerPool has.
* In Loops, `POST /scan`: it changes no permit, so what it finds is owed nothing by the loops;
  CheckScan and Startup have what it does to the table.
* The tests of `still_exists` run on the runtime's own thread; one that hangs, on a dead network volume,
  stops the whole service.  WorkerPool has the blocking pool only.
* In Discover, a link is an entry like a file, and a root is taken to be a directory, though walkdir follows a
  root that is a link; an entry may come and go during the walk, but does not change its kind.
* In Inspection, what libgit2 reads of the index when it begins to list files: each file is compared when it
  is visited.  A renamed file is one that was changed.
* `repo_id`: a 64-bit hash of the path, taken to be injective.
* HTTP routing, JSON and SQL as such; the message texts, and the reading of commits, remotes and
  stash messages for the hover card.
* The clients' windows, icons, terminal launchers, settings file, login item and single-instance
  lock, and the installers: layout, or sequential calls of the operating system.

## Plan

In the order of what matters to someone who relies on the service.  Done, all with proofs: StatusStore,
CheckScan and StatusBoard; FetchBackoff, Loops, WorkerPool and Startup; Discover, Inspection, Details and
Summarize; ClientReload, MenuBar, HoverCard and Tray.  To come:

1. *Service*: CheckScan and FetchBackoff over one table, to check that a retry's answer shows
   both the fetch columns and the status that follow from its fetches.
2. `POST /scan` in Loops, with the notification that it does not send.

## Running it

In this directory:

```sh
tlc -config CheckScan.cfg CheckScan        # one run
tlc -config Startup.cfg MCStartup          # one with definitions for its constants
tlapm CheckScanProofs.tla                  # one module of proofs
```

The configurations of Startup, Discover and Inspection, and `Readings.cfg`, belong to the `MC` module of
that name, all others to the module itself.

The slowest runs are `check_scan`, `loops` and `menu_bar`, of up to a million states, with one to three
minutes; all others take less than a minute.  The proofs of CheckScan take about a minute, the others less.
