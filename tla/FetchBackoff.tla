----------------------------- MODULE FetchBackoff -----------------------------
(***************************************************************************)
(* Fetching and the exponential backoff (fetch_loop and fetch_paths of     *)
(* src/main.rs, POST /fetch/retry of src/api.rs, the fetch columns of      *)
(* src/db.rs, src/fetch.rs).                                               *)
(*                                                                         *)
(* As in CheckScan a process is the fetch loop or an API request, and what *)
(* it does between two .awaits is one action; git itself runs in parallel. *)
(* A git process that outlives FETCH_TIMEOUT is abandoned, not killed.     *)
(*                                                                         *)
(* Time enters only through the column next_fetch_after, so it is kept as  *)
(* the time that is left until then: the column is NULL or in the past iff *)
(* wait is 0.  The loop's own timer and the length of a fetch are          *)
(* abstracted: the loop may wake, and a fetch may end or time out, at any  *)
(* moment.                                                                 *)
(***************************************************************************)
EXTENDS Integers, FiniteSets

CONSTANTS
    Repos,        \* the paths a scan may find
    FetchLoop,    \* the task fetch_loop
    Requests,     \* slots for POST /fetch/retry requests
    Concurrency,  \* permits of the semaphore of one fetch_paths call
    Base,         \* fetch_interval_secs, in ticks
    Cap,          \* FETCH_BACKOFF_CAP, in ticks
    ShiftCap      \* the 10 of min(fetch_failures, 10)

ASSUME FetchAssumption ==
    /\ Concurrency \in Nat \ {0}
    /\ FetchLoop \notin Requests
    /\ Base \in Nat \ {0}
    /\ Cap \in Nat \ {0}
    /\ ShiftCap \in Nat
    \* Arithmetic, which the provers do not know about.
    /\ 2^0 = 1
    /\ \A n \in 0 .. ShiftCap : 2^n \in Nat /\ 2^(n + 1) = 2 * 2^n

Procs == Requests \cup {FetchLoop}

VARIABLES
    (* The table. *)
    tracked,   \* paths with a row
    error,     \* error[p]: last_fetch_error IS NOT NULL
    failures,  \* failures[p]: fetch_failures
    wait,      \* wait[p]: time left until next_fetch_after
    (* The process. *)
    pc,        \* what a process is doing
    job,       \* job[k][p]: the fetch of p in the fetch_paths call of k
    orphans,   \* paths in which an abandoned git process still runs
    (* The world. *)
    reachable, \* paths whose remotes answer
    (* History: no guard reads it. *)
    late,      \* paths that an abandoned git process has fetched successfully
               \* since last_fetched was last set
    pushed     \* paths pushed back by another process since the loop listed

columns == <<error, failures, wait>>
vars == <<tracked, error, failures, wait, pc, job, orphans, reachable,
          late, pushed>>

\* "todo": listed, waiting for a permit; "running": git runs; "ok" and "bad":
\* git has exited in time, the task not yet resumed.
JobState == {"none", "todo", "running", "ok", "bad"}

FetchTypeOK ==
    /\ tracked \in SUBSET Repos
    /\ error \in [Repos -> BOOLEAN]
    /\ failures \in [Repos -> 0 .. ShiftCap + 1]
    /\ wait \in [Repos -> 0 .. Cap]
    /\ pc \in [Procs -> {"idle", "fetching"}]
    /\ job \in [Procs -> [Repos -> JobState]]
    /\ orphans \in SUBSET Repos
    /\ reachable \in SUBSET Repos
    /\ late \in SUBSET Repos
    /\ pushed \in SUBSET Repos

-----------------------------------------------------------------------------
Min2(a, b) == IF a <= b THEN a ELSE b

\* min(base << min(failures, 10), cap)
Delay(f) == Min2(Base * 2^Min2(f, ShiftCap), Cap)

\* Variant: the next attempt stays where the failures have put it.
SetLastFetchedKeepWait(p) ==
    /\ error' = IF p \in tracked THEN [error EXCEPT ![p] = FALSE] ELSE error
    /\ failures' = IF p \in tracked THEN [failures EXCEPT ![p] = 0] ELSE failures
    /\ wait' = wait
    /\ late' = late \ {p}

\* set_last_fetched; without a row it changes nothing.
SetLastFetched(p) ==
    /\ error' = IF p \in tracked THEN [error EXCEPT ![p] = FALSE] ELSE error
    /\ failures' = IF p \in tracked THEN [failures EXCEPT ![p] = 0] ELSE failures
    /\ wait' = IF p \in tracked THEN [wait EXCEPT ![p] = 0] ELSE wait
    /\ late' = late \ {p}

\* Variant: the delay is taken from the count after the update.
RecordFailurePost(k, p) ==
    /\ error' = IF p \in tracked THEN [error EXCEPT ![p] = TRUE] ELSE error
    /\ failures' = IF p \in tracked
                   THEN [failures EXCEPT ![p] = Min2(@ + 1, ShiftCap + 1)]
                   ELSE failures
    /\ wait' = IF p \in tracked
               THEN [wait EXCEPT ![p] = Delay(failures[p] + 1)] ELSE wait
    /\ pushed' = IF k # FetchLoop THEN pushed \cup {p} ELSE pushed

\* record_fetch_failure: the delay is taken from the count before the update.
\* The count is kept only as far as it matters to Delay.
RecordFailure(k, p) ==
    /\ error' = IF p \in tracked THEN [error EXCEPT ![p] = TRUE] ELSE error
    /\ failures' = IF p \in tracked
                   THEN [failures EXCEPT ![p] = Min2(@ + 1, ShiftCap + 1)]
                   ELSE failures
    /\ wait' = IF p \in tracked
               THEN [wait EXCEPT ![p] = Delay(failures[p])] ELSE wait
    /\ pushed' = IF k # FetchLoop THEN pushed \cup {p} ELSE pushed

\* Variants: the test `<= now` is missing; the backoff is ignored.
CandidatesNull == {p \in tracked : failures[p] = 0}
CandidatesAll == tracked

\* list_fetch_candidates and list_failed_fetches.
Candidates == {p \in tracked : wait[p] = 0}
FailedFetches == {p \in tracked : error[p]}

Permits(k) == {p \in Repos : job[k][p] \in {"running", "ok", "bad"}}
NoJobs == [p \in Repos |-> "none"]

\* A database of any age: one from before the backoff columns has errors without
\* a count or a delay.
Init ==
    /\ tracked \in SUBSET Repos
    /\ error \in [Repos -> BOOLEAN]
    /\ \A p \in Repos \ tracked : ~error[p]
    /\ failures = [p \in Repos |-> 0]
    /\ wait = [p \in Repos |-> 0]
    /\ pc = [k \in Procs |-> "idle"]
    /\ job = [k \in Procs |-> NoJobs]
    /\ orphans = {}
    /\ reachable \in SUBSET Repos
    /\ late = {}
    /\ pushed = {}

-----------------------------------------------------------------------------
(* The world outside fetch_paths.                                          *)

Tick ==
    /\ wait # [p \in Repos |-> 0]
    /\ wait' = [p \in Repos |-> IF wait[p] > 0 THEN wait[p] - 1 ELSE 0]
    /\ UNCHANGED <<tracked, error, failures, pc, job, orphans, reachable,
                   late, pushed>>

\* The network, the credentials or the remote come and go.
RemoteChange(p) ==
    /\ reachable' = (reachable \ {p}) \cup ({p} \ reachable)
    /\ UNCHANGED <<tracked, columns, pc, job, orphans, late, pushed>>

\* run_scan inserts a row with its defaults, or deletes one.
ScanChange(p) ==
    /\ tracked' = (tracked \ {p}) \cup ({p} \ tracked)
    /\ error' = [error EXCEPT ![p] = FALSE]
    /\ failures' = [failures EXCEPT ![p] = 0]
    /\ wait' = [wait EXCEPT ![p] = 0]
    /\ late' = late \ {p}
    /\ UNCHANGED <<pc, job, orphans, reachable, pushed>>

\* The process dies, with its children, and is started again.
Restart ==
    /\ pc' = [k \in Procs |-> "idle"]
    /\ job' = [k \in Procs |-> NoJobs]
    /\ orphans' = {}
    /\ pushed' = {}
    /\ UNCHANGED <<tracked, columns, reachable, late>>

-----------------------------------------------------------------------------
(* fetch_paths.                                                            *)

BeginFetch(k, S) ==
    /\ pc[k] = "idle"
    /\ pc' = [pc EXCEPT ![k] = "fetching"]
    /\ job' = [job EXCEPT ![k] = [p \in Repos |-> IF p \in S THEN "todo" ELSE "none"]]

\* fetch_loop wakes.  When the candidates cannot be listed it goes back to sleep.
StartCycle ==
    /\ BeginFetch(FetchLoop, Candidates)
    /\ pushed' = {}
    /\ UNCHANGED <<tracked, columns, orphans, reachable, late>>

\* POST /fetch/retry, whatever the backoff says.
StartRetry(k) ==
    /\ BeginFetch(k, FailedFetches)
    /\ UNCHANGED <<tracked, columns, orphans, reachable, late, pushed>>

Spawn(k, p) ==
    /\ job[k][p] = "todo"
    /\ Cardinality(Permits(k)) < Concurrency
    /\ job' = [job EXCEPT ![k][p] = "running"]
    /\ UNCHANGED <<tracked, columns, pc, orphans, reachable, late, pushed>>

\* git fetch ends within FETCH_TIMEOUT.
GitSucceeds(k, p) ==
    /\ job[k][p] = "running"
    /\ p \in reachable
    /\ job' = [job EXCEPT ![k][p] = "ok"]
    /\ UNCHANGED <<tracked, columns, pc, orphans, reachable, late, pushed>>

\* It exits with an error, or cannot be run: for want of a remote that answers, or for
\* any other reason (a locked ref, a full disk, no git in the PATH).
GitFails(k, p) ==
    /\ job[k][p] = "running"
    /\ job' = [job EXCEPT ![k][p] = "bad"]
    /\ UNCHANGED <<tracked, columns, pc, orphans, reachable, late, pushed>>

\* The task resumes with git's result.
RecordOk(k, p) ==
    /\ job[k][p] = "ok"
    /\ SetLastFetched(p)
    /\ job' = [job EXCEPT ![k][p] = "none"]
    /\ UNCHANGED <<tracked, pc, orphans, reachable, pushed>>

RecordBad(k, p) ==
    /\ job[k][p] = "bad"
    /\ RecordFailure(k, p)
    /\ job' = [job EXCEPT ![k][p] = "none"]
    /\ UNCHANGED <<tracked, pc, orphans, reachable, late>>

\* FETCH_TIMEOUT passes: the task records a failure and leaves git behind.
Timeout(k, p) ==
    /\ job[k][p] = "running"
    /\ RecordFailure(k, p)
    /\ job' = [job EXCEPT ![k][p] = "none"]
    /\ orphans' = orphans \cup {p}
    /\ UNCHANGED <<tracked, pc, reachable, late>>

\* The blocking task panicked, or the database refused the update: no record.
LoseOutcome(k, p) ==
    /\ job[k][p] \in {"running", "ok", "bad"}
    /\ job' = [job EXCEPT ![k][p] = "none"]
    /\ UNCHANGED <<tracked, columns, pc, orphans, reachable, late, pushed>>

\* An abandoned git process ends; there may be more of them in the same path.
OrphanExit(p) ==
    /\ p \in orphans
    /\ orphans' \in {orphans, orphans \ {p}}
    /\ late' \in {late} \cup {late \cup {q} : q \in {p} \cap reachable}
    /\ UNCHANGED <<tracked, columns, pc, job, reachable, pushed>>

\* All tasks joined: the loop wakes the check loop, the request goes on to check.
FinishFetch(k) ==
    /\ pc[k] = "fetching"
    /\ job[k] = NoJobs
    /\ pc' = [pc EXCEPT ![k] = "idle"]
    /\ UNCHANGED <<tracked, columns, job, orphans, reachable, late, pushed>>

\* The client of request k is gone: its tasks are aborted, its git processes
\* run on.
Disconnect(k) ==
    /\ pc[k] = "fetching"
    /\ pc' = [pc EXCEPT ![k] = "idle"]
    /\ job' = [job EXCEPT ![k] = NoJobs]
    /\ orphans' = orphans \cup {p \in Repos : job[k][p] = "running"}
    /\ UNCHANGED <<tracked, columns, reachable, late, pushed>>

-----------------------------------------------------------------------------
Task(k, p) ==
    \/ Spawn(k, p)
    \/ GitSucceeds(k, p)
    \/ GitFails(k, p)
    \/ RecordOk(k, p)
    \/ RecordBad(k, p)
    \/ Timeout(k, p)
    \/ LoseOutcome(k, p)

Next ==
    \/ Tick
    \/ \E p \in Repos : RemoteChange(p) \/ ScanChange(p) \/ OrphanExit(p)
    \/ Restart
    \/ StartCycle
    \/ \E k \in Requests : StartRetry(k) \/ Disconnect(k)
    \/ \E k \in Procs : FinishFetch(k)
    \/ \E k \in Procs, p \in Repos : Task(k, p)

Spec == Init /\ [][Next]_vars

-----------------------------------------------------------------------------
(* Fairness.  Time passes and the loop's timer keeps ticking.  A task that *)
(* can go on is polled, and the timer of a running fetch fires unless git  *)
(* exits first.  About git itself nothing is assumed here: it may hang for *)
(* ever.                                                                   *)

RunsOn(k, p) ==
    Spawn(k, p) \/ RecordOk(k, p) \/ RecordBad(k, p) \/ Timeout(k, p)

FairSpec ==
    /\ Spec
    /\ WF_vars(Tick)
    /\ WF_vars(StartCycle)
    /\ \A k \in Procs : WF_vars(FinishFetch(k))
    /\ \A k \in Procs, p \in Repos : WF_vars(RunsOn(k, p))

-----------------------------------------------------------------------------
(* Safety.                                                                 *)

\* The three fetch columns tell one story: a repository that is being held back
\* has failed, and one that has failed shows an error.  So whatever the loop
\* skips is listed by POST /fetch/retry and shown to the user.
HeldBackIsShown ==
    \A p \in Repos :
        /\ wait[p] > 0 => failures[p] > 0
        /\ failures[p] > 0 => error[p]
        /\ error[p] => p \in tracked

\* The wait never exceeds what the failures counted so far justify ("the wait
\* doubles from the fetch interval up to a 6 h cap", README.md): the first one
\* costs one interval, each further one twice as much, up to the cap.
BackoffJustified ==
    \A p \in Repos :
        failures[p] > 0 => wait[p] <= Delay(failures[p] - 1)

\* The loop never starts to fetch a repository that is backing off, unless another
\* process pushed it back after the loop had listed it.
LoopHoldsBack ==
    [][\A p \in Repos :
          job[FetchLoop][p] = "todo" /\ job'[FetchLoop][p] = "running"
              => wait[p] = 0 \/ p \in pushed]_vars

-----------------------------------------------------------------------------
(* Liveness.                                                               *)

\* The loop's fetches of p do not fail, time out, get lost to an error or die with the
\* server every single time that p's remotes answer.
Lucky(p) ==
    /\ SF_vars(StartCycle)
    /\ SF_vars(Spawn(FetchLoop, p))
    /\ SF_vars(GitSucceeds(FetchLoop, p))
    /\ SF_vars(RecordOk(FetchLoop, p))

\* A repository that stays tracked and whose remotes stay reachable loses its
\* error by itself, whatever its backoff was, if its fetches are lucky now and then
\* and there is an end to manual retries: each one that times out pushes the loop's
\* next try away.
Recovers ==
    <>[](\A k \in Requests : pc[k] = "idle") =>
        \A p \in Repos :
            Lucky(p) /\ <>[](p \in tracked /\ p \in reachable) => []<>(~error[p])

-----------------------------------------------------------------------------
(* What comments of the repository say, and the code does not do.          *)

\* "Only repos not currently backing off after repeated failures."
\* (src/main.rs:180): as LoopHoldsBack, without the exception.
LoopNeverTooSoon ==
    [][\A p \in Repos :
          job[FetchLoop][p] = "todo" /\ job'[FetchLoop][p] = "running"
              => wait[p] = 0]_vars

\* "Unix seconds of the last successful `git fetch`" (src/model.rs:76): no fetch
\* has succeeded since.
LastFetchedTruthful == late = {}
=============================================================================
