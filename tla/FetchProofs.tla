----------------------------- MODULE FetchProofs -----------------------------
(***************************************************************************)
(* Proofs about FetchBackoff, for every set of repositories and requests,  *)
(* every interval, cap and bound of the shift.                             *)
(***************************************************************************)
EXTENDS FetchBackoff, TLAPS

\* The delay is a time up to the cap, and counting past the bound of the shift
\* does not change it.
LEMMA DelayFacts ==
    /\ \A f \in Nat : Delay(f) \in 0 .. Cap
    /\ \A f \in 0 .. ShiftCap + 1 :
          /\ Min2(f + 1, ShiftCap + 1) \in 1 .. ShiftCap + 1
          /\ Delay(Min2(f + 1, ShiftCap + 1) - 1) = Delay(f)
<1>1. ASSUME NEW f \in Nat PROVE Delay(f) \in 0 .. Cap
  <2> DEFINE n == Min2(f, ShiftCap)
  <2>1. n \in 0 .. ShiftCap
    BY FetchAssumption DEF FetchAssumption, Min2
  <2>2. 2^n \in Nat
    BY <2>1, FetchAssumption DEF FetchAssumption
  <2> HIDE DEF n
  <2>3. Base * 2^n \in Nat
    BY <2>2, FetchAssumption DEF FetchAssumption
  <2>4. Min2(Base * 2^n, Cap) \in 0 .. Cap
    BY <2>3, FetchAssumption DEF FetchAssumption, Min2
  <2> QED BY <2>4 DEF Delay, n
<1>2. ASSUME NEW f \in 0 .. ShiftCap + 1
      PROVE  /\ Min2(f + 1, ShiftCap + 1) \in 1 .. ShiftCap + 1
             /\ Min2(Min2(f + 1, ShiftCap + 1) - 1, ShiftCap) = Min2(f, ShiftCap)
  BY FetchAssumption DEF FetchAssumption, Min2
<1> QED BY <1>1, <1>2 DEF Delay

FetchInv == FetchTypeOK /\ HeldBackIsShown /\ BackoffJustified

\* What a task that still waits for its permit owes to the loop's listing.
ListedWhenDue ==
    \A p \in Repos : job[FetchLoop][p] = "todo" => wait[p] = 0 \/ p \in pushed

LEMMA NoJobsType == NoJobs \in [Repos -> JobState] /\ \A p \in Repos : NoJobs[p] = "none"
BY DEF NoJobs, JobState

\* record_fetch_failure keeps the columns in step.
LEMMA FailureColumns ==
    ASSUME FetchInv, NEW k \in Procs, NEW p \in Repos, RecordFailure(k, p),
           tracked' = tracked
    PROVE  /\ error' \in [Repos -> BOOLEAN]
           /\ failures' \in [Repos -> 0 .. ShiftCap + 1]
           /\ wait' \in [Repos -> 0 .. Cap]
           /\ pushed' \in SUBSET Repos
           /\ HeldBackIsShown' /\ BackoffJustified'
<1> USE DEF FetchInv, FetchTypeOK
<1> DEFINE f == failures[p]
           g == Min2(f + 1, ShiftCap + 1)
<1>1. f \in 0 .. ShiftCap + 1 /\ f \in Nat
  BY FetchAssumption DEF FetchAssumption
<1>2. g \in 1 .. ShiftCap + 1 /\ Delay(g - 1) = Delay(f) /\ Delay(f) \in 0 .. Cap
  BY <1>1, DelayFacts
<1>3. pushed' \in SUBSET Repos
  BY DEF RecordFailure
<1>4. CASE p \notin tracked
  BY <1>3, <1>4 DEF RecordFailure, HeldBackIsShown, BackoffJustified
<1>5. CASE p \in tracked
  <2>1. /\ error' = [error EXCEPT ![p] = TRUE]
        /\ failures' = [failures EXCEPT ![p] = g]
        /\ wait' = [wait EXCEPT ![p] = Delay(f)]
    BY <1>5 DEF RecordFailure
  <2> HIDE DEF f, g
  <2>2. error' \in [Repos -> BOOLEAN]
    BY <2>1
  <2>3. failures' \in [Repos -> 0 .. ShiftCap + 1]
    BY <2>1, <1>2
  <2>4. wait' \in [Repos -> 0 .. Cap]
    BY <2>1, <1>2
  <2>5. HeldBackIsShown'
    BY <2>1, <1>2, <1>5 DEF HeldBackIsShown
  <2>6. BackoffJustified'
    <3> SUFFICES ASSUME NEW q \in Repos, failures'[q] > 0
                 PROVE  wait'[q] <= Delay(failures'[q] - 1)
      BY DEF BackoffJustified
    <3>1. CASE q = p
      BY <3>1, <2>1, <1>2
    <3>2. CASE q # p
      BY <3>2, <2>1 DEF BackoffJustified
    <3> QED BY <3>1, <3>2
  <2> QED BY <1>3, <2>2, <2>3, <2>4, <2>5, <2>6
<1> QED BY <1>4, <1>5

\* So do set_last_fetched and an insert or delete of the row.
LEMMA ResetColumns ==
    ASSUME FetchInv, NEW p \in Repos,
           error' = [error EXCEPT ![p] = FALSE], failures' = [failures EXCEPT ![p] = 0],
           wait' = [wait EXCEPT ![p] = 0], \A q \in tracked : q # p => q \in tracked'
    PROVE  /\ error' \in [Repos -> BOOLEAN]
           /\ failures' \in [Repos -> 0 .. ShiftCap + 1]
           /\ wait' \in [Repos -> 0 .. Cap]
           /\ HeldBackIsShown' /\ BackoffJustified'
<1> USE DEF FetchInv, FetchTypeOK
<1>1. error' \in [Repos -> BOOLEAN]
  OBVIOUS
<1>2. failures' \in [Repos -> 0 .. ShiftCap + 1] /\ wait' \in [Repos -> 0 .. Cap]
  BY FetchAssumption DEF FetchAssumption
<1>3. HeldBackIsShown'
  BY DEF HeldBackIsShown
<1>4. BackoffJustified'
  BY DEF BackoffJustified
<1> QED BY <1>1, <1>2, <1>3, <1>4

LEMMA InitFetch == Init => FetchInv
<1> SUFFICES ASSUME Init PROVE FetchInv
  OBVIOUS
<1>1. FetchTypeOK
  BY FetchAssumption, NoJobsType DEF Init, FetchTypeOK, FetchAssumption
<1>2. HeldBackIsShown
  BY DEF Init, HeldBackIsShown
<1>3. BackoffJustified
  BY DEF Init, BackoffJustified
<1> QED BY <1>1, <1>2, <1>3 DEF FetchInv

\* A step that leaves the columns and the table alone can only disturb the types
\* of the rest.
LEMMA SameColumns ==
    ASSUME FetchInv, UNCHANGED <<tracked, columns>>
    PROVE  HeldBackIsShown' /\ BackoffJustified'
BY DEF FetchInv, columns, HeldBackIsShown, BackoffJustified

\* One element of a process's job replaced by another.
LEMMA JobType ==
    ASSUME FetchInv, NEW k \in Procs, NEW p \in Repos, NEW s \in JobState,
           job' = [job EXCEPT ![k][p] = s]
    PROVE  job' \in [Procs -> [Repos -> JobState]]
<1>1. job \in [Procs -> [Repos -> JobState]]
  BY DEF FetchInv, FetchTypeOK
<1>2. [job[k] EXCEPT ![p] = s] \in [Repos -> JobState]
  BY <1>1
<1>3. job' = [job EXCEPT ![k] = [job[k] EXCEPT ![p] = s]]
  OBVIOUS
<1> QED BY <1>1, <1>2, <1>3

\* The tasks of one fetch_paths call.
LEMMA TaskInductive ==
    ASSUME FetchInv, NEW k \in Procs, NEW p \in Repos, Task(k, p)
    PROVE  FetchInv'
<1>1. CASE Spawn(k, p)
  <2>1. job' \in [Procs -> [Repos -> JobState]]
    BY <1>1, JobType DEF Spawn, JobState
  <2> QED BY <1>1, <2>1, SameColumns DEF Spawn, FetchInv, FetchTypeOK, columns
<1>2. CASE GitSucceeds(k, p) \/ GitFails(k, p)
  <2>1. job' \in [Procs -> [Repos -> JobState]]
    BY <1>2, JobType DEF GitSucceeds, GitFails, JobState
  <2> QED BY <1>2, <2>1, SameColumns DEF GitSucceeds, GitFails, FetchInv, FetchTypeOK, columns
<1>3. CASE RecordOk(k, p)
  <2>1. job' \in [Procs -> [Repos -> JobState]]
    BY <1>3, JobType DEF RecordOk, JobState
  <2>2. CASE p \in tracked
    <3>1. /\ error' = [error EXCEPT ![p] = FALSE]
          /\ failures' = [failures EXCEPT ![p] = 0]
          /\ wait' = [wait EXCEPT ![p] = 0]
          /\ tracked' = tracked
      BY <1>3, <2>2 DEF RecordOk, SetLastFetched
    <3>2. /\ error' \in [Repos -> BOOLEAN]
          /\ failures' \in [Repos -> 0 .. ShiftCap + 1]
          /\ wait' \in [Repos -> 0 .. Cap]
          /\ HeldBackIsShown' /\ BackoffJustified'
      BY <3>1, ResetColumns
    <3> QED BY <1>3, <2>1, <3>1, <3>2
            DEF RecordOk, SetLastFetched, FetchInv, FetchTypeOK
  <2>3. CASE p \notin tracked
    BY <1>3, <2>1, <2>3, SameColumns
       DEF RecordOk, SetLastFetched, FetchInv, FetchTypeOK, columns
  <2> QED BY <2>2, <2>3
<1>4. CASE RecordBad(k, p)
  <2>1. job' \in [Procs -> [Repos -> JobState]]
    BY <1>4, JobType DEF RecordBad, JobState
  <2>2. RecordFailure(k, p) /\ tracked' = tracked
    BY <1>4 DEF RecordBad
  <2> QED BY <1>4, <2>1, <2>2, FailureColumns DEF RecordBad, FetchInv, FetchTypeOK
<1>5. CASE Timeout(k, p)
  <2>1. job' \in [Procs -> [Repos -> JobState]]
    BY <1>5, JobType DEF Timeout, JobState
  <2>2. RecordFailure(k, p) /\ tracked' = tracked
    BY <1>5 DEF Timeout
  <2> QED BY <1>5, <2>1, <2>2, FailureColumns DEF Timeout, FetchInv, FetchTypeOK
<1>6. CASE LoseOutcome(k, p)
  <2>1. job' \in [Procs -> [Repos -> JobState]]
    BY <1>6, JobType DEF LoseOutcome, JobState
  <2> QED BY <1>6, <2>1, SameColumns DEF LoseOutcome, FetchInv, FetchTypeOK, columns
<1> QED BY <1>1, <1>2, <1>3, <1>4, <1>5, <1>6 DEF Task

\* BeginFetch and Disconnect replace the job of a whole call.
LEMMA CallType ==
    ASSUME FetchInv, NEW k \in Procs, NEW w \in {"idle", "fetching"},
           NEW j \in [Repos -> JobState],
           pc' = [pc EXCEPT ![k] = w], job' = [job EXCEPT ![k] = j]
    PROVE  /\ pc' \in [Procs -> {"idle", "fetching"}]
           /\ job' \in [Procs -> [Repos -> JobState]]
BY DEF FetchInv, FetchTypeOK

LEMMA BeginInductive ==
    ASSUME FetchInv, NEW k \in Procs, NEW S, BeginFetch(k, S),
           pushed' \in {pushed, {}},
           UNCHANGED <<tracked, columns, orphans, reachable, late>>
    PROVE  FetchInv'
<1> DEFINE j == [p \in Repos |-> IF p \in S THEN "todo" ELSE "none"]
<1>1. j \in [Repos -> JobState]
  BY DEF JobState
<1>2. pc' = [pc EXCEPT ![k] = "fetching"] /\ job' = [job EXCEPT ![k] = j]
  BY DEF BeginFetch
<1> HIDE DEF j
<1>3. /\ pc' \in [Procs -> {"idle", "fetching"}]
      /\ job' \in [Procs -> [Repos -> JobState]]
  BY <1>1, <1>2, CallType
<1> QED BY <1>3, SameColumns DEF FetchInv, FetchTypeOK, columns

\* Every step keeps the columns in step with each other.
LEMMA FetchInductive == FetchInv /\ [Next]_vars => FetchInv'
<1> SUFFICES ASSUME FetchInv, [Next]_vars PROVE FetchInv'
  OBVIOUS
<1>1. CASE Tick
  <2>1. wait' = [p \in Repos |-> IF wait[p] > 0 THEN wait[p] - 1 ELSE 0]
    BY <1>1 DEF Tick
  <2>2. /\ wait' \in [Repos -> 0 .. Cap]
        /\ \A p \in Repos : wait'[p] <= wait[p] /\ (wait'[p] > 0 => wait[p] > 0)
    BY <2>1, FetchAssumption DEF FetchInv, FetchTypeOK, FetchAssumption
  <2>3. FetchTypeOK'
    BY <1>1, <2>2 DEF Tick, FetchInv, FetchTypeOK
  <2>4. HeldBackIsShown'
    BY <1>1, <2>2 DEF Tick, FetchInv, HeldBackIsShown
  <2>5. BackoffJustified'
    <3> SUFFICES ASSUME NEW p \in Repos, failures'[p] > 0
                 PROVE  wait'[p] <= Delay(failures'[p] - 1)
      BY DEF BackoffJustified
    <3>1. failures'[p] = failures[p]
      BY <1>1 DEF Tick
    <3>2. failures[p] \in Nat /\ failures[p] - 1 \in Nat
      BY <3>1, FetchAssumption DEF FetchInv, FetchTypeOK, FetchAssumption
    <3>3. Delay(failures[p] - 1) \in 0 .. Cap
      BY <3>2, DelayFacts
    <3>4. wait[p] <= Delay(failures[p] - 1)
      BY <3>1 DEF FetchInv, BackoffJustified
    <3>5. wait[p] \in Int /\ wait'[p] \in Int
      BY <2>2 DEF FetchInv, FetchTypeOK
    <3>6. Cap \in Nat
      BY FetchAssumption DEF FetchAssumption
    <3> QED BY <3>1, <3>3, <3>4, <3>5, <3>6, <2>2
  <2> QED BY <2>3, <2>4, <2>5 DEF FetchInv
<1>2. ASSUME NEW p \in Repos, RemoteChange(p) PROVE FetchInv'
  BY <1>2, SameColumns DEF RemoteChange, FetchInv, FetchTypeOK, columns
<1>3. ASSUME NEW p \in Repos, ScanChange(p) PROVE FetchInv'
  <2>1. /\ error' = [error EXCEPT ![p] = FALSE]
        /\ failures' = [failures EXCEPT ![p] = 0]
        /\ wait' = [wait EXCEPT ![p] = 0]
        /\ \A q \in tracked : q # p => q \in tracked'
    BY <1>3 DEF ScanChange
  <2>2. /\ error' \in [Repos -> BOOLEAN]
        /\ failures' \in [Repos -> 0 .. ShiftCap + 1]
        /\ wait' \in [Repos -> 0 .. Cap]
        /\ HeldBackIsShown' /\ BackoffJustified'
    BY <2>1, ResetColumns
  <2> QED BY <1>3, <2>2 DEF ScanChange, FetchInv, FetchTypeOK
<1>4. ASSUME NEW p \in Repos, OrphanExit(p) PROVE FetchInv'
  BY <1>4, SameColumns DEF OrphanExit, FetchInv, FetchTypeOK, columns
<1>5. CASE Restart
  BY <1>5, SameColumns, NoJobsType DEF Restart, FetchInv, FetchTypeOK, columns
<1>6. CASE StartCycle
  BY <1>6, BeginInductive DEF StartCycle, Procs
<1>7. ASSUME NEW k \in Requests, StartRetry(k) PROVE FetchInv'
  BY <1>7, BeginInductive DEF StartRetry, Procs
<1>8. ASSUME NEW k \in Requests, Disconnect(k) PROVE FetchInv'
  <2>1. /\ pc' \in [Procs -> {"idle", "fetching"}]
        /\ job' \in [Procs -> [Repos -> JobState]]
    BY <1>8, CallType, NoJobsType DEF Disconnect, Procs
  <2> QED BY <1>8, <2>1, SameColumns DEF Disconnect, FetchInv, FetchTypeOK, columns
<1>9. ASSUME NEW k \in Procs, FinishFetch(k) PROVE FetchInv'
  BY <1>9, SameColumns DEF FinishFetch, FetchInv, FetchTypeOK, columns
<1>10. ASSUME NEW k \in Procs, NEW p \in Repos, Task(k, p) PROVE FetchInv'
  BY <1>10, TaskInductive
<1>11. CASE UNCHANGED vars
  BY <1>11, SameColumns DEF vars, FetchInv, FetchTypeOK, columns
<1> QED BY <1>1, <1>2, <1>3, <1>4, <1>5, <1>6, <1>7, <1>8, <1>9, <1>10, <1>11
        DEF Next

LEMMA FetchInvariant == Spec => []FetchInv
BY InitFetch, FetchInductive, PTL DEF Spec

\* The model of fetching is well typed: no counter or delay leaves its range.
THEOREM FetchTypeCorrect == Spec => []FetchTypeOK
<1>1. FetchInv => FetchTypeOK
  BY DEF FetchInv
<1> QED BY <1>1, FetchInvariant, PTL

\* A repository the loop holds back is one the user is shown with an error and can
\* retry (list_fetch_candidates against list_failed_fetches, src/db.rs).
THEOREM HeldBackIsAlwaysShown == Spec => []HeldBackIsShown
<1>1. FetchInv => HeldBackIsShown
  BY DEF FetchInv
<1> QED BY <1>1, FetchInvariant, PTL

\* The delay until the next try never exceeds what the counted failures justify
\* (record_fetch_failure, src/db.rs).
THEOREM BackoffIsJustified == Spec => []BackoffJustified
<1>1. FetchInv => BackoffJustified
  BY DEF FetchInv
<1> QED BY <1>1, FetchInvariant, PTL
-----------------------------------------------------------------------------
\* A task of the loop that waits for its permit is due, or was pushed back since.
HoldInv == FetchInv /\ ListedWhenDue

LEMMA HoldInductive == HoldInv /\ [Next]_vars => HoldInv'
<1> SUFFICES ASSUME HoldInv, [Next]_vars PROVE ListedWhenDue'
  BY FetchInductive DEF HoldInv
<1> USE DEF HoldInv, FetchInv, FetchTypeOK
<1>1. CASE Tick
  BY <1>1, FetchAssumption DEF Tick, ListedWhenDue
<1>2. ASSUME NEW p \in Repos, RemoteChange(p) PROVE ListedWhenDue'
  BY <1>2 DEF RemoteChange, ListedWhenDue, columns
<1>3. ASSUME NEW p \in Repos, ScanChange(p) PROVE ListedWhenDue'
  BY <1>3, FetchAssumption DEF ScanChange, ListedWhenDue
<1>4. ASSUME NEW p \in Repos, OrphanExit(p) PROVE ListedWhenDue'
  BY <1>4 DEF OrphanExit, ListedWhenDue, columns
<1>5. CASE Restart
  BY <1>5, NoJobsType DEF Restart, ListedWhenDue, columns, Procs
<1>6. CASE StartCycle
  <2>1. job' = [job EXCEPT ![FetchLoop] =
                   [p \in Repos |-> IF p \in Candidates THEN "todo" ELSE "none"]]
    BY <1>6 DEF StartCycle, BeginFetch
  <2>2. wait' = wait
    BY <1>6 DEF StartCycle, columns
  <2>3. ASSUME NEW p \in Repos, job'[FetchLoop][p] = "todo" PROVE wait'[p] = 0
    BY <2>1, <2>2, <2>3 DEF Candidates, Procs
  <2> QED BY <2>3 DEF ListedWhenDue
<1>7. ASSUME NEW k \in Requests, StartRetry(k) PROVE ListedWhenDue'
  <2>1. k # FetchLoop /\ k \in Procs /\ FetchLoop \in Procs
    BY FetchAssumption DEF FetchAssumption, Procs
  <2>2. job'[FetchLoop] = job[FetchLoop]
    BY <1>7, <2>1 DEF StartRetry, BeginFetch
  <2> QED BY <1>7, <2>2 DEF StartRetry, columns, ListedWhenDue
<1>8. ASSUME NEW k \in Requests, Disconnect(k) PROVE ListedWhenDue'
  <2>1. k # FetchLoop /\ k \in Procs /\ FetchLoop \in Procs
    BY FetchAssumption DEF FetchAssumption, Procs
  <2>2. job'[FetchLoop] = job[FetchLoop]
    BY <1>8, <2>1 DEF Disconnect
  <2> QED BY <1>8, <2>2 DEF Disconnect, columns, ListedWhenDue
<1>9. ASSUME NEW k \in Procs, FinishFetch(k) PROVE ListedWhenDue'
  BY <1>9 DEF FinishFetch, ListedWhenDue, columns
<1>10. ASSUME NEW k \in Procs, NEW p \in Repos, Task(k, p) PROVE ListedWhenDue'
  <2>1. /\ \A q \in Repos : job'[FetchLoop][q] = "todo" => job[FetchLoop][q] = "todo"
        /\ k = FetchLoop => job'[FetchLoop][p] # "todo"
    BY <1>10, JobType
    DEF Task, Spawn, GitSucceeds, GitFails, RecordOk, RecordBad, Timeout, LoseOutcome, Procs
  <2>2. CASE RecordBad(k, p) \/ Timeout(k, p)
    <3>1. /\ \A q \in Repos : q # p => wait'[q] = wait[q]
          /\ pushed \subseteq pushed'
          /\ k # FetchLoop => p \in pushed'
          /\ k = FetchLoop => job'[FetchLoop][p] # "todo"
      BY <2>2, <2>1 DEF RecordBad, Timeout, RecordFailure, Procs
    <3> QED BY <2>1, <3>1 DEF ListedWhenDue
  <2>3. CASE RecordOk(k, p)
    <3>1. /\ \A q \in Repos : wait'[q] = wait[q] \/ wait'[q] = 0
          /\ pushed' = pushed
      BY <2>3, FetchAssumption DEF RecordOk, SetLastFetched
    <3> QED BY <2>1, <3>1 DEF ListedWhenDue
  <2>4. CASE Spawn(k, p) \/ GitSucceeds(k, p) \/ GitFails(k, p) \/ LoseOutcome(k, p)
    BY <2>1, <2>4 DEF Spawn, GitSucceeds, GitFails, LoseOutcome, columns, ListedWhenDue
  <2> QED BY <1>10, <2>2, <2>3, <2>4 DEF Task
<1>11. CASE UNCHANGED vars
  BY <1>11 DEF vars, columns, ListedWhenDue
<1> QED BY <1>1, <1>2, <1>3, <1>4, <1>5, <1>6, <1>7, <1>8, <1>9, <1>10, <1>11
        DEF Next

\* The loop starts no fetch of a repository that is backing off, unless another
\* call pushed it back after the loop had listed it (fetch_loop, src/main.rs).
THEOREM LoopRespectsBackoff == Spec => LoopHoldsBack
<1>1. Init => HoldInv
  <2>1. Init => ListedWhenDue
    BY NoJobsType DEF Init, ListedWhenDue, Procs
  <2> QED BY <2>1, InitFetch DEF HoldInv
<1>2. HoldInv =>
        [\A p \in Repos :
            job[FetchLoop][p] = "todo" /\ job'[FetchLoop][p] = "running"
                => wait[p] = 0 \/ p \in pushed]_vars
  BY DEF HoldInv, ListedWhenDue
<1> QED BY <1>1, <1>2, HoldInductive, PTL DEF Spec, LoopHoldsBack
-----------------------------------------------------------------------------
\* The delay doubles with every failure, up to the cap; counts past the bound of the
\* shift change nothing ("the wait doubles from the fetch interval up to a 6 h cap",
\* README.md, of record_fetch_failure, src/db.rs).
THEOREM DelayDoubles ==
    /\ Delay(0) = Min2(Base, Cap)
    /\ \A f \in Nat :
          Delay(f + 1) = IF f < ShiftCap THEN Min2(2 * Delay(f), Cap) ELSE Delay(f)
<1>1. Delay(0) = Min2(Base, Cap)
  <2>1. Min2(0, ShiftCap) = 0
    BY FetchAssumption DEF FetchAssumption, Min2
  <2>2. Base * 2^0 = Base
    BY FetchAssumption DEF FetchAssumption
  <2> QED BY <2>1, <2>2 DEF Delay
<1>2. ASSUME NEW f \in Nat, f < ShiftCap PROVE Delay(f + 1) = Min2(2 * Delay(f), Cap)
  <2> DEFINE y == Base * 2^f
  <2>1. Min2(f, ShiftCap) = f /\ Min2(f + 1, ShiftCap) = f + 1
    BY <1>2, FetchAssumption DEF FetchAssumption, Min2
  <2>2. 2^f \in Nat /\ 2^(f + 1) = 2 * 2^f
    BY <1>2, FetchAssumption DEF FetchAssumption
  <2>3. y \in Nat /\ Base * 2^(f + 1) = 2 * y
    <3> DEFINE x == 2^f
    <3>1. x \in Nat /\ 2^(f + 1) = 2 * x /\ Base \in Nat
      BY <2>2, FetchAssumption DEF FetchAssumption
    <3> HIDE DEF x
    <3>2. Base * x \in Nat /\ Base * (2 * x) = 2 * (Base * x)
      BY <3>1
    <3> QED BY <3>1, <3>2 DEF x
  <2>4. Delay(f) = Min2(y, Cap) /\ Delay(f + 1) = Min2(2 * y, Cap)
    BY <2>1, <2>3 DEF Delay
  <2> HIDE DEF y
  <2>5. Min2(2 * y, Cap) = Min2(2 * Min2(y, Cap), Cap)
    BY <2>3, FetchAssumption DEF FetchAssumption, Min2
  <2> QED BY <2>4, <2>5
<1>3. ASSUME NEW f \in Nat, ~(f < ShiftCap) PROVE Delay(f + 1) = Delay(f)
  <2>1. Min2(f, ShiftCap) = Min2(f + 1, ShiftCap)
    BY <1>3, FetchAssumption DEF FetchAssumption, Min2
  <2> QED BY <2>1 DEF Delay
<1> QED BY <1>1, <1>2, <1>3

LEMMA DelayGrows == \A f \in Nat : Delay(f) <= Delay(f + 1)
<1> SUFFICES ASSUME NEW f \in Nat PROVE Delay(f) <= Delay(f + 1)
  OBVIOUS
<1>1. Delay(f) \in 0 .. Cap /\ Cap \in Nat
  BY DelayFacts, FetchAssumption DEF FetchAssumption
<1>2. Delay(f + 1) = IF f < ShiftCap THEN Min2(2 * Delay(f), Cap) ELSE Delay(f)
  BY DelayDoubles
<1> QED BY <1>1, <1>2 DEF Min2

\* A failed fetch, whoever asked for it, never brings the next attempt of the loop
\* forward: only time, a fetch that succeeds and a row that is new do
\* (record_fetch_failure against set_last_fetched, src/db.rs).
PostponeStep ==
    \A p \in Repos : failures'[p] > 0 /\ ~Tick => wait'[p] >= wait[p]

LEMMA FailurePostpones ==
    ASSUME FetchInv, NEW k \in Procs, NEW p \in Repos, RecordFailure(k, p)
    PROVE  \A q \in Repos : wait'[q] >= wait[q]
<1> USE DEF FetchInv, FetchTypeOK
<1>1. \A q \in Repos : wait[q] \in Int /\ (q # p => wait'[q] = wait[q])
  BY FetchAssumption DEF RecordFailure, FetchAssumption
<1>2. wait'[p] >= wait[p]
  <2>1. CASE p \notin tracked
    BY <2>1, <1>1 DEF RecordFailure
  <2>2. CASE p \in tracked
    <3> DEFINE f == failures[p]
    <3>1. wait'[p] = Delay(f)
      BY <2>2 DEF RecordFailure
    <3>2. f \in Nat /\ Delay(f) \in 0 .. Cap
      BY DelayFacts, FetchAssumption DEF FetchAssumption
    <3>3. CASE f = 0
      <4>1. wait[p] = 0
        BY <3>3, FetchAssumption DEF HeldBackIsShown, FetchAssumption
      <4> QED BY <3>1, <3>2, <4>1, FetchAssumption DEF FetchAssumption
    <3>4. CASE f > 0
      <4>1. wait[p] <= Delay(f - 1) /\ f - 1 \in Nat
        BY <3>4, <3>2 DEF BackoffJustified
      <4>2. Delay(f - 1) \in 0 .. Cap
        BY <4>1, DelayFacts
      <4>3. Delay(f - 1) <= Delay(f)
        <5>1. Delay(f - 1) <= Delay((f - 1) + 1) /\ (f - 1) + 1 = f
          BY <4>1, <3>2, DelayGrows
        <5> QED BY <5>1
      <4> HIDE DEF f
      <4>4. Cap \in Nat
        BY FetchAssumption DEF FetchAssumption
      <4> QED BY <1>1, <3>1, <3>2, <4>1, <4>2, <4>3, <4>4
    <3> QED BY <3>2, <3>3, <3>4
  <2> QED BY <2>1, <2>2
<1> QED BY <1>1, <1>2

THEOREM FailuresOnlyPostpone == Spec => [][PostponeStep]_vars
<1>1. ASSUME FetchInv, Next, ~Tick PROVE PostponeStep
  <2>1. \A p \in Repos : wait[p] \in Int
    <3>1. wait \in [Repos -> 0 .. Cap]
      BY <1>1 DEF FetchInv, FetchTypeOK
    <3> QED BY <3>1, FetchAssumption DEF FetchAssumption
  <2>2. CASE UNCHANGED columns
    BY <2>1, <2>2 DEF columns, PostponeStep
  <2>3. ASSUME NEW p \in Repos, SetLastFetched(p) \/ ScanChange(p) PROVE PostponeStep
    <3>1. /\ failures'[p] = 0 \/ wait'[p] = wait[p]
          /\ \A q \in Repos : q # p => wait'[q] = wait[q]
      <4>1. failures \in [Repos -> 0 .. ShiftCap + 1] /\ wait \in [Repos -> 0 .. Cap]
        BY <1>1 DEF FetchInv, FetchTypeOK
      <4> QED BY <2>3, <4>1 DEF SetLastFetched, ScanChange
    <3> QED BY <2>1, <3>1 DEF PostponeStep
  <2>4. ASSUME NEW k \in Procs, NEW p \in Repos, RecordFailure(k, p) PROVE PostponeStep
    <3>1. \A q \in Repos : wait'[q] >= wait[q]
      BY <1>1, <2>4, FailurePostpones
    <3> QED BY <3>1 DEF PostponeStep
  <2>5. \/ UNCHANGED columns
        \/ \E p \in Repos : SetLastFetched(p) \/ ScanChange(p)
        \/ \E k \in Procs, p \in Repos : RecordFailure(k, p)
    <3>1. ASSUME NEW k \in Procs, NEW p \in Repos, Task(k, p)
          PROVE UNCHANGED columns \/ SetLastFetched(p) \/ RecordFailure(k, p)
      BY <3>1
      DEF Task, Spawn, GitSucceeds, GitFails, RecordOk, RecordBad, Timeout, LoseOutcome
    <3> QED BY <1>1, <3>1 DEF Next, RemoteChange, OrphanExit, Restart, StartCycle,
               StartRetry, Disconnect, FinishFetch
  <2> QED BY <1>1, <2>2, <2>3, <2>4, <2>5
<1>2. FetchInv /\ [Next]_vars => [PostponeStep]_vars
  BY <1>1 DEF PostponeStep
<1> QED BY <1>2, FetchInvariant, PTL DEF Spec

\* A repository is set back, by an error or a longer wait, only by a fetch of it that ends
\* in failure, and each one that succeeds leaves it free, whatever the others have recorded
\* before.
SetbackStep ==
    \A p \in Repos :
        /\ (error'[p] /\ ~error[p]) \/ wait'[p] > wait[p]
              => \E k \in Procs : job[k][p] \in {"running", "bad"} /\ job'[k][p] = "none"
        /\ \A k \in Procs : RecordOk(k, p) => ~error'[p] /\ failures'[p] = 0 /\ wait'[p] = 0

\* Time, scans and lost outcomes set nothing back.
LEMMA SetBackByFailure ==
    ASSUME FetchInv, Next, NEW p \in Repos, (error'[p] /\ ~error[p]) \/ wait'[p] > wait[p]
    PROVE  \E k \in Procs : job[k][p] \in {"running", "bad"} /\ job'[k][p] = "none"
<1>1. /\ error \in [Repos -> BOOLEAN] /\ wait \in [Repos -> 0 .. Cap]
      /\ wait[p] \in Nat /\ job \in [Procs -> [Repos -> JobState]]
  <2>1. FetchTypeOK
    BY DEF FetchInv
  <2> QED BY <2>1, FetchAssumption DEF FetchTypeOK, FetchAssumption
<1>2. ~Tick
  BY <1>1 DEF Tick
<1>3. ~UNCHANGED columns
  BY <1>1 DEF columns
<1>4. ~\E q \in Repos : SetLastFetched(q) \/ ScanChange(q)
  BY <1>1 DEF SetLastFetched, ScanChange
<1>5. PICK k \in Procs, q \in Repos : RecordBad(k, q) \/ Timeout(k, q)
  <2>1. ASSUME NEW k \in Procs, NEW q \in Repos, Task(k, q)
        PROVE  UNCHANGED columns \/ SetLastFetched(q) \/ RecordBad(k, q) \/ Timeout(k, q)
    BY <2>1 DEF Task, Spawn, GitSucceeds, GitFails, RecordOk, LoseOutcome
  <2> QED
    BY <1>2, <1>3, <1>4, <2>1
    DEF Next, RemoteChange, OrphanExit, Restart, StartCycle, StartRetry, Disconnect,
        FinishFetch
<1>6. q = p
  BY <1>1, <1>5 DEF RecordBad, Timeout, RecordFailure
<1>7. job[k][p] \in {"running", "bad"} /\ job'[k][p] = "none"
  BY <1>1, <1>5, <1>6 DEF RecordBad, Timeout
<1> QED BY <1>7

\* The steps that Recovers rests on.
THEOREM OnlyFailuresSetBack == Spec => [][SetbackStep]_vars
<1>1. ASSUME FetchInv, Next, NEW k \in Procs, NEW p \in Repos, RecordOk(k, p)
      PROVE  ~error'[p] /\ failures'[p] = 0 /\ wait'[p] = 0
  <2>1. /\ error \in [Repos -> BOOLEAN] /\ wait \in [Repos -> 0 .. Cap]
        /\ failures \in [Repos -> 0 .. ShiftCap + 1]
    BY <1>1 DEF FetchInv, FetchTypeOK
  <2>2. CASE p \in tracked
    BY <1>1, <2>1, <2>2 DEF RecordOk, SetLastFetched
  <2>3. CASE p \notin tracked
    <3>1. error' = error /\ failures' = failures /\ wait' = wait
      BY <1>1, <2>3 DEF RecordOk, SetLastFetched
    <3>2. ~error[p] /\ ~(failures[p] > 0) /\ ~(wait[p] > 0)
      BY <1>1, <2>3 DEF FetchInv, HeldBackIsShown
    <3>3. failures[p] \in Nat /\ wait[p] \in Nat
      BY <2>1, FetchAssumption DEF FetchAssumption
    <3> QED BY <3>1, <3>2, <3>3
  <2> QED BY <2>2, <2>3
<1>2. FetchInv /\ [Next]_vars => [SetbackStep]_vars
  <2> SUFFICES ASSUME FetchInv, Next PROVE SetbackStep
    OBVIOUS
  <2> QED BY <1>1, SetBackByFailure DEF SetbackStep
<1> QED BY <1>2, FetchInvariant, PTL DEF Spec
=============================================================================
