------------------------------ MODULE CheckScan ------------------------------
(***************************************************************************)
(* Discovery and status checks (src/main.rs, src/api.rs) running against   *)
(* the store while the user keeps changing, removing and recreating        *)
(* repositories.                                                           *)
(*                                                                         *)
(* A process is the check loop, the scan loop, or one API request being    *)
(* served.  The async runtime has a single thread, so a process runs       *)
(* without interruption from one .await to the next: these stretches are   *)
(* the actions.  What really runs in parallel is the work handed to the    *)
(* blocking pool, and the file system it looks at: Visit and Inspect.      *)
(*                                                                         *)
(* The timers are abstracted: a loop that waits may be woken at any        *)
(* moment.  So is the order in which check_paths takes its paths.          *)
(***************************************************************************)
EXTENDS StatusStore, Naturals, FiniteSets

CONSTANTS
    CheckLoop,    \* the task check_loop
    ScanLoop,     \* the task scan_loop
    Requests,     \* slots for API requests served at the same time
    Concurrency   \* permits of the semaphore of one check_paths call

ASSUME CheckScanAssumption ==
    /\ Concurrency \in Nat \ {0}
    /\ CheckLoop # ScanLoop
    /\ CheckLoop \notin Requests
    /\ ScanLoop \notin Requests

Checkers == Requests \cup {CheckLoop}
Scanners == Requests \cup {ScanLoop}
Procs == Requests \cup {CheckLoop, ScanLoop}

VARIABLES
    disk,    \* disk[p]: the state of p on disk
    pc,      \* what a process is doing
    unseen,  \* paths that a discovery walk has still to pass
    found,   \* repositories that it has found so far
    job,     \* job[k][p]: the check of p in the check_paths call of k
    (* History variables: no guard reads them. *)
    raced,   \* paths pruned while a check of them was under way
    moved,   \* moved[k]: paths on whose check k's answer cannot be judged
    rival    \* rival[k]: paths for which, when k began to check, another
             \* process already held an inspection that it had not saved

vars == <<disk, rows, cache, pc, unseen, found, job, raced, moved, rival>>

Phase == {"idle", "walking", "fetching", "checking"}

\* "todo": listed, waiting for a permit; "running": in the blocking pool;
\* "done": inspected, the task not yet resumed.
JobState == [st : {"none", "todo", "running", "done"}, json : Json \cup {Null}]
NoJob == [st |-> "none", json |-> Null]
NoJobs == [p \in Repos |-> NoJob]

CheckScanTypeOK ==
    /\ StoreTypeOK
    /\ disk \in [Repos -> Content \cup {Gone}]
    /\ pc \in [Procs -> Phase]
    /\ unseen \in [Procs -> SUBSET Repos]
    /\ found \in [Procs -> SUBSET Repos]
    /\ job \in [Procs -> [Repos -> JobState]]
    /\ \A k \in Procs, p \in Repos :
          job[k][p].st = "done" <=> job[k][p].json # Null
    /\ raced \in SUBSET Repos
    /\ moved \in [Procs -> SUBSET Repos]
    /\ rival \in [Procs -> SUBSET Repos]

-----------------------------------------------------------------------------
\* still_exists: false for a deleted repository, and for one whose .git cannot be
\* looked at (a volume that is not mounted, a directory that may not be entered).
StillExists == {p \in Repos : disk[p] \in Content \ Hidden}
Listed(k) == {p \in Repos : job[k][p].st # "none"}
\* Paths of k's call that hold a permit of its semaphore.
Permits(k) == {p \in Repos : job[k][p].st \in {"running", "done"}}
\* The paths S changed, or their rows went: those who are checking cannot be held
\* to an answer on them.
Unsettled(S) == [k \in Procs |-> IF pc[k] = "checking" THEN moved[k] \cup S
                                ELSE moved[k]]
UnderWay == {p \in Repos : \E k \in Procs : job[k][p].st # "none"}

Init ==
    /\ disk \in [Repos -> Content \cup {Gone}]
    /\ rows = [p \in Repos |-> Untracked]
    /\ cache = [p \in Repos |-> Null]
    /\ pc = [k \in Procs |-> "idle"]
    /\ unseen = [k \in Procs |-> {}]
    /\ found = [k \in Procs |-> {}]
    /\ job = [k \in Procs |-> NoJobs]
    /\ raced = {}
    /\ moved = [k \in Procs |-> {}]
    /\ rival = [k \in Procs |-> {}]

-----------------------------------------------------------------------------
(* The world outside the server.                                           *)

\* The user, or a fetch, changes, removes or recreates a repository.
DiskChange(p) ==
    /\ \E d \in (Content \cup {Gone}) \ {disk[p]} :
          disk' = [disk EXCEPT ![p] = d]
    /\ moved' = Unsettled({p})
    /\ UNCHANGED <<rows, cache, pc, unseen, found, job, raced, rival>>

\* The process dies and is started again: only the table survives.
Restart ==
    /\ OpenDb
    /\ pc' = [k \in Procs |-> "idle"]
    /\ unseen' = [k \in Procs |-> {}]
    /\ found' = [k \in Procs |-> {}]
    /\ job' = [k \in Procs |-> NoJobs]
    /\ raced' = {}
    /\ moved' = [k \in Procs |-> {}]
    /\ rival' = [k \in Procs |-> {}]
    /\ UNCHANGED disk

-----------------------------------------------------------------------------
(* Checking: check_all and check_paths.                                    *)

\* Process k enters check_paths with the paths S.  The table it runs against, r,
\* and the history m are those this very step leaves when a scan comes first.
BeginCheck(k, S, r, m) ==
    /\ pc' = [pc EXCEPT ![k] = "checking"]
    /\ job' = [job EXCEPT ![k] = [p \in Repos |->
                  IF p \in S THEN [st |-> "todo", json |-> Null] ELSE NoJob]]
    /\ moved' = [m EXCEPT ![k] =
                    {p \in Repos : p \notin S \/ r[p] = Untracked}]
    /\ rival' = [rival EXCEPT ![k] =
                    {p \in Repos : \E j \in Procs \ {k} : job[j][p].st = "done"}]

\* check_all, called by the check loop and by POST /check.
StartCheck(k) ==
    /\ pc[k] = "idle"
    /\ BeginCheck(k, ListPaths, rows, moved)
    /\ UNCHANGED <<disk, rows, cache, unseen, found, raced>>

\* The paths cannot be listed: check_all warns and returns, as if there were
\* none, and POST /check is answered like any other.
StartCheckBlind(k) ==
    /\ pc[k] = "idle"
    /\ BeginCheck(k, {}, rows, moved)
    /\ UNCHANGED <<disk, rows, cache, unseen, found, raced>>

\* A permit is free: the task for p is spawned and enters the blocking pool.
Spawn(k, p) ==
    /\ job[k][p].st = "todo"
    /\ pc[k] = "checking"
    /\ Cardinality(Permits(k)) < Concurrency
    /\ job' = [job EXCEPT ![k][p] = [st |-> "running", json |-> Null]]
    /\ UNCHANGED <<disk, rows, cache, pc, unseen, found, raced, moved, rival>>

\* Variant: a repository that is in the cache is not looked at again.
InspectCached(k, p) ==
    /\ job[k][p].st = "running"
    /\ job' = [job EXCEPT ![k][p] =
                  [st |-> "done", json |-> IF cache[p] # Null THEN cache[p].json
                                           ELSE ComputeStatus(disk[p])]]
    /\ UNCHANGED <<disk, rows, cache, pc, unseen, found, raced, moved, rival>>

\* compute_status looks at the disk, in the blocking pool.
Inspect(k, p) ==
    /\ job[k][p].st = "running"
    /\ job' = [job EXCEPT ![k][p] = [st |-> "done",
                                     json |-> ComputeStatus(disk[p])]]
    /\ UNCHANGED <<disk, rows, cache, pc, unseen, found, raced, moved, rival>>

\* The task resumes with the status and saves it.
Save(k, p) ==
    /\ job[k][p].st = "done"
    /\ SaveStatus(p, job[k][p].json)
    /\ job' = [job EXCEPT ![k][p] = NoJob]
    /\ UNCHANGED <<disk, pc, unseen, found, raced, moved, rival>>

\* compute_status panicked, or save_status met a database error: a warning.
LoseStatus(k, p) ==
    /\ job[k][p].st \in {"running", "done"}
    /\ job' = [job EXCEPT ![k][p] = NoJob]
    /\ moved' = [moved EXCEPT ![k] = @ \cup {p}]
    /\ UNCHANGED <<disk, rows, cache, pc, unseen, found, raced, rival>>

\* All tasks joined: the loop waits again, the request is answered.
FinishCheck(k) ==
    /\ pc[k] = "checking"
    /\ Listed(k) = {}
    /\ pc' = [pc EXCEPT ![k] = "idle"]
    /\ moved' = [moved EXCEPT ![k] = {}]
    /\ rival' = [rival EXCEPT ![k] = {}]
    /\ UNCHANGED <<disk, rows, cache, unseen, found, job, raced>>

-----------------------------------------------------------------------------
(* Scanning: run_scan.                                                     *)

StartScan(k) ==
    /\ pc[k] = "idle"
    /\ pc' = [pc EXCEPT ![k] = "walking"]
    /\ unseen' = [unseen EXCEPT ![k] = Repos]
    /\ found' = [found EXCEPT ![k] = {}]
    /\ UNCHANGED <<disk, rows, cache, job, raced, moved, rival>>

\* The walk of scan::discover, in the blocking pool, passes p.  It records p if
\* p is a repository at that moment (a directory can name the .git of a hidden one),
\* unless p lies in a directory that cannot be read.
Visit(k, p) ==
    /\ p \in unseen[k]
    /\ unseen' = [unseen EXCEPT ![k] = @ \ {p}]
    /\ \/ /\ disk[p] # Gone
          /\ found' = [found EXCEPT ![k] = @ \cup {p}]
       \/ found' = found
    /\ UNCHANGED <<disk, rows, cache, pc, job, raced, moved, rival>>

\* What run_scan does to the store, and to the history, once `up` have been
\* upserted and `lost` deleted.
Apply(up, lost) ==
    /\ UpsertThenDelete(up, lost)
    /\ raced' = (raced \ lost) \cup (lost \cap UnderWay)

\* The rows that run_scan prunes after upserting `up`: those of all paths that
\* do not seem to exist now, whatever the walk saw.
Vanished(up) == (ListPaths \cup up) \ StillExists

\* run_scan after the walk: no .await, so one step.  POST /scan goes straight
\* on to check_all; the loop has notified the other loops and waits.
CommitScan(k) ==
    /\ pc[k] = "walking"
    /\ unseen[k] = {}
    /\ Apply(found[k], Vanished(found[k]))
    /\ found' = [found EXCEPT ![k] = {}]
    /\ IF k \in Requests
       THEN \E S \in {{p \in Repos : rows'[p] # Untracked}, {}} :
               BeginCheck(k, S, rows', Unsettled(Vanished(found[k])))
       ELSE /\ pc' = [pc EXCEPT ![k] = "idle"]
            /\ moved' = Unsettled(Vanished(found[k]))
            /\ UNCHANGED <<job, rival>>
    /\ UNCHANGED <<disk, unseen>>

\* A database error ends run_scan early, after some of the upserts or after
\* all of them and some of the deletes; POST /scan answers with status 500.
FailScan(k) ==
    /\ pc[k] = "walking"
    /\ unseen[k] = {}
    /\ \/ /\ \E up \in SUBSET found[k] : Apply(up, {})
          /\ UNCHANGED moved
       \/ \E lost \in SUBSET Vanished(found[k]) \ {Vanished(found[k])} :
             /\ Apply(found[k], lost)
             /\ moved' = Unsettled(lost)
    /\ found' = [found EXCEPT ![k] = {}]
    /\ pc' = [pc EXCEPT ![k] = "idle"]
    /\ UNCHANGED <<disk, unseen, job, rival>>

-----------------------------------------------------------------------------
(* POST /fetch/retry: the paths are listed before the fetches and checked  *)
(* after them.  Which of the tracked repositories failed their last fetch  *)
(* is recorded in columns that are not part of this module.                *)

StartRetry(k) ==
    /\ pc[k] = "idle"
    /\ pc' = [pc EXCEPT ![k] = "fetching"]
    /\ \E S \in SUBSET ListPaths :
          job' = [job EXCEPT ![k] = [p \in Repos |->
                     IF p \in S THEN [st |-> "todo", json |-> Null] ELSE NoJob]]
    /\ UNCHANGED <<disk, rows, cache, unseen, found, raced, moved, rival>>

CheckRetried(k) ==
    /\ pc[k] = "fetching"
    /\ BeginCheck(k, Listed(k), rows, moved)
    /\ UNCHANGED <<disk, rows, cache, unseen, found, raced>>

\* The client of request k is gone (it gave up, or its own timeout passed):
\* the handler's future is dropped, and its JoinSet aborts the tasks.  Work in
\* the blocking pool runs on, but nobody receives its result.
Disconnect(k) ==
    /\ pc[k] # "idle"
    /\ pc' = [pc EXCEPT ![k] = "idle"]
    /\ unseen' = [unseen EXCEPT ![k] = {}]
    /\ found' = [found EXCEPT ![k] = {}]
    /\ job' = [job EXCEPT ![k] = NoJobs]
    /\ moved' = [moved EXCEPT ![k] = {}]
    /\ rival' = [rival EXCEPT ![k] = {}]
    /\ UNCHANGED <<disk, rows, cache, raced>>

-----------------------------------------------------------------------------
Task(k, p) ==
    \/ Spawn(k, p)
    \/ Inspect(k, p)
    \/ Save(k, p)
    \/ LoseStatus(k, p)

Next ==
    \/ \E p \in Repos : DiskChange(p)
    \/ Restart
    \/ \E k \in Checkers : StartCheck(k) \/ StartCheckBlind(k) \/ FinishCheck(k)
    \/ \E k \in Procs, p \in Repos : Task(k, p) \/ Visit(k, p)
    \/ \E k \in Scanners : StartScan(k) \/ CommitScan(k) \/ FailScan(k)
    \/ \E k \in Requests : StartRetry(k) \/ CheckRetried(k) \/ Disconnect(k)

Spec == Init /\ [][Next]_vars

-----------------------------------------------------------------------------
(* Fairness.  The runtime polls every task that can go on, the blocking    *)
(* pool finishes what it was given (git2 reads local files, and a fetch    *)
(* has a time limit), and the timers of the loops tick for ever.  Database *)
(* errors and panics may happen again and again, but do not hit the same   *)
(* operation every single time, and the server is not restarted each time  *)
(* before it gets there: strong fairness for the two loops' own steps.     *)

Progress(k) ==
    \/ FinishCheck(k) \/ CommitScan(k) \/ FailScan(k) \/ CheckRetried(k)
    \/ \E p \in Repos : Task(k, p) \/ Visit(k, p)

FairSpec ==
    /\ Spec
    /\ \A k \in Procs : WF_vars(Progress(k))
    /\ SF_vars(StartCheck(CheckLoop))
    /\ SF_vars(StartScan(ScanLoop))
    /\ SF_vars(CommitScan(ScanLoop))
    /\ \A p \in Repos :
          /\ SF_vars(Visit(ScanLoop, p))
          /\ SF_vars(Spawn(CheckLoop, p))
          /\ SF_vars(Inspect(CheckLoop, p))
          /\ SF_vars(Save(CheckLoop, p))

-----------------------------------------------------------------------------
(* Safety.                                                                 *)

\* The cache agrees with the table: an entry of a tracked repository holds what
\* its row holds ("the status JSON most recently confirmed to be what's on
\* disk", src/db.rs:23), except for repositories that were pruned while a check
\* of them was under way.
CacheCoherent ==
    \A p \in ListPaths \ raced : cache[p] # Null => rows[p] = cache[p].json

\* "Status checks only touch the database when a repo's status actually
\* changes" (README.md): no status that is about to be saved causes an UPDATE of
\* a row that already holds it.  Unlike CacheCoherent this survives the race.
NoRedundantWrite ==
    \A k \in Procs, p \in ListPaths :
        job[k][p].st = "done" /\ OnDisk(p) # job[k][p].json
            => rows[p] # job[k][p].json

\* When a check is complete, just before its request is answered, what the service
\* serves is the status of the repository as it is on disk, with a time of check,
\* if the repository was tracked when the check began, has since neither changed
\* nor been pruned, its status was not lost to an error, no other process held an
\* older inspection of it when the check began, and no earlier pruning raced with
\* a check of it.
AnswerFresh ==
    \A k \in Procs : pc[k] = "checking" /\ Listed(k) = {} =>
        \A p \in ListPaths \ (moved[k] \cup rival[k] \cup raced) :
            LET status == ComputeStatus(disk[p])
            IN  Served(p) = [status |-> status, last_checked |-> LastChecked(status)]

\* Inspections that have not been saved.
Pending == [k \in Procs |-> [p \in Repos |-> job[k][p].json]]

\* The cached, write-on-change store behaves like a board that every delivered
\* status is written through to.
Board == INSTANCE StatusBoard WITH
    Observers <- Procs,
    Statuses <- Json,
    Blank <- Null,
    Absent <- Untracked,
    Nothing <- Null,
    board <- rows,
    pending <- Pending,
    tainted <- raced

WriteThrough == Board!Spec

-----------------------------------------------------------------------------
(* Why the invariants hold: what is inductive about them.                  *)

Quiet(p) == \A k \in Procs : job[k][p].st = "none"

\* A process has checks on its list only while it retries or checks, and none of
\* them has begun while it still fetches.
PhaseInv ==
    \A k \in Procs :
        /\ pc[k] \in {"idle", "walking"} => \A p \in Repos : job[k][p] = NoJob
        /\ pc[k] = "fetching" => \A p \in Repos : job[k][p].st \in {"none", "todo"}

\* What the pruning race breaks.  While no check of an untracked repository is
\* on its way, nothing can put it back into the cache.
RaceFreeInv ==
    \A p \in Repos \ raced :
        /\ rows[p] = Untracked => cache[p] = Null /\ Quiet(p)
        /\ rows[p] # Untracked /\ cache[p] # Null => rows[p] = cache[p].json

\* What it does not break: a row is at worst blank where the cache says more.
BlankAtWorst ==
    \A p \in ListPaths :
        cache[p] # Null /\ rows[p] # Null => rows[p] = cache[p].json

CacheInv == CheckScanTypeOK /\ PhaseInv /\ RaceFreeInv /\ BlankAtWorst

\* From the moment k begins to check, every inspection of a repository that k can
\* be held to sees what is on disk now; once k has saved its own, so have row and cache.
FreshInv ==
    \A k \in Procs : pc[k] = "checking" =>
        \A p \in Repos \ (moved[k] \cup rival[k] \cup raced) :
            /\ rows[p] # Untracked
            /\ \A j \in Procs :
                  job[j][p].st = "done" => job[j][p].json = ComputeStatus(disk[p])
            /\ job[k][p].st = "none" =>
                  LET status == ComputeStatus(disk[p])
                  IN  /\ rows[p] = status
                      /\ cache[p] = [json |-> status, last_checked |-> LastChecked(status)]

-----------------------------------------------------------------------------
(* Liveness, under FairSpec.                                               *)

\* A walk passes p and does not record it.
Missed(p) ==
    \E k \in Scanners : /\ p \in unseen[k]
                        /\ pc'[k] = "walking"
                        /\ p \notin unseen'[k] \cup found'[k]

\* A repository that stays where it can be seen, and that the walks do not miss for
\* ever, is tracked in the end and stays tracked: whatever other scans found before it
\* was there, however they failed, and whatever was pruned while it was being checked.
Discovered ==
    \A p \in Repos :
        <>[](p \in StillExists) /\ <>[][~Missed(p)]_vars => <>[](p \in ListPaths)

\* If a tracked repository stops changing, its row settles on its true status,
\* whatever stale results were still on their way, and however often the server
\* is restarted.  The one exception is a row left blank by the pruning race.
Converges ==
    \A p \in Repos, d \in Content :
        <>[](disk[p] = d /\ p \in ListPaths)
            => <>[](rows[p] = ComputeStatus(d) \/ (p \in raced /\ rows[p] = Null))

-----------------------------------------------------------------------------
(* What comments and documents of the repository say, and the code does    *)
(* not do.                                                                 *)

\* "Drop the cache entry so a re-discovered repo can't be mistaken for
\* "unchanged" against a row that no longer holds its status" (src/db.rs:99).
CacheNeverMistaken ==
    \A p \in ListPaths : cache[p] # Null => rows[p] = cache[p].json

\* "Synchronously re-inspect every repo and return once done, so a client that
\* POSTs here can immediately GET fresh status" (src/api.rs:97): as AnswerFresh,
\* but whatever the other processes were doing.
PostCheckFresh ==
    \A k \in Requests : pc[k] = "checking" /\ Listed(k) = {} =>
        \A p \in ListPaths \ moved[k] : rows[p] = ComputeStatus(disk[p])

\* "Unix seconds of the last successful local status check" (src/model.rs:74):
\* a repository that could not be opened does not get a time of check.
LastCheckedSuccessful ==
    \A p \in Repos : cache[p] # Null => cache[p].last_checked = "inspected"

\* "Max concurrent per-repo operations (status checks / fetches)"
\* (src/main.rs:24).
ConcurrencyBounded ==
    Cardinality({kp \in Procs \X Repos : kp[2] \in Permits(kp[1])}) <= Concurrency
=============================================================================
