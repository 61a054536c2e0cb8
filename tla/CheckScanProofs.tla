--------------------------- MODULE CheckScanProofs ---------------------------
(***************************************************************************)
(* Proofs about CheckScan, for every set of repositories, of contents and  *)
(* of requests, and every number of permits.                               *)
(*                                                                         *)
(* CacheInv is inductive and gives the cache properties; FreshInv is       *)
(* inductive given CacheInv and gives AnswerFresh.  Given CacheInv, each    *)
(* step is one of the write-through board or leaves the board unchanged,   *)
(* and makes no right row wrong unless with a status that was stale        *)
(* already.  A call only advances, and keeps within its permits.           *)
(***************************************************************************)
EXTENDS CheckScan, FiniteSetTheorems, TLAPS

\* What the constants' assumption says of the values a row can hold.
LEMMA JsonFacts ==
    /\ Null \notin Json
    /\ Untracked \notin Json
    /\ Null # Untracked
    /\ \A d : ComputeStatus(d) \in Json
BY StoreAssumption DEF StoreAssumption, Json, ComputeStatus

LEMMA NoJobsType ==
    /\ NoJobs \in [Repos -> JobState]
    /\ \A p \in Repos : NoJobs[p].st = "none" /\ NoJobs[p].json = Null
BY DEF NoJobs, NoJob, JobState

\* An entry of the cache is not a missing one.
LEMMA EntryNotNull ==
    ASSUME NEW json \in Json
    PROVE  [json |-> json, last_checked |-> LastChecked(json)] # Null
BY EntryAssumption DEF EntryAssumption, CacheEntry, LastChecked, Stamp

\* save_status and run_scan leave a well-typed store.
LEMMA SaveType ==
    ASSUME StoreTypeOK, NEW p \in Repos, NEW json \in Json, SaveStatus(p, json)
    PROVE  StoreTypeOK'
<1>1. rows' \in [Repos -> Json \cup {Null, Untracked}]
  BY DEF StoreTypeOK, SaveStatus
<1>2. [json |-> json, last_checked |-> LastChecked(json)] \in CacheEntry
  BY DEF CacheEntry, LastChecked, Stamp
<1>3. cache' \in [Repos -> CacheEntry \cup {Null}]
  BY <1>2 DEF StoreTypeOK, SaveStatus
<1> QED BY <1>1, <1>3 DEF StoreTypeOK

LEMMA ScanType ==
    ASSUME StoreTypeOK, NEW up, NEW lost, UpsertThenDelete(up, lost)
    PROVE  StoreTypeOK'
BY DEF StoreTypeOK, UpsertThenDelete

\* Entering check_paths leaves well-typed jobs and history.
LEMMA BeginType ==
    ASSUME CheckScanTypeOK, NEW k \in Procs, NEW S, NEW r,
           NEW m \in [Procs -> SUBSET Repos], BeginCheck(k, S, r, m)
    PROVE  /\ pc' \in [Procs -> Phase]
           /\ job' \in [Procs -> [Repos -> JobState]]
           /\ \A j \in Procs, p \in Repos :
                 job'[j][p].st = "done" <=> job'[j][p].json # Null
           /\ moved' \in [Procs -> SUBSET Repos]
           /\ rival' \in [Procs -> SUBSET Repos]
<1> DEFINE J == [p \in Repos |->
                   IF p \in S THEN [st |-> "todo", json |-> Null] ELSE NoJob]
<1>1. pc' \in [Procs -> Phase]
  BY DEF CheckScanTypeOK, BeginCheck, Phase
<1>2. job' = [job EXCEPT ![k] = J]
  BY DEF BeginCheck
<1>3. J \in [Repos -> JobState] /\ \A p \in Repos : J[p].st # "done" /\ J[p].json = Null
  BY DEF JobState, NoJob
<1>4. job' \in [Procs -> [Repos -> JobState]]
  BY <1>2, <1>3 DEF CheckScanTypeOK
<1>5. \A j \in Procs, p \in Repos :
         job'[j][p].st = "done" <=> job'[j][p].json # Null
  BY <1>2, <1>3 DEF CheckScanTypeOK
<1>6. moved' \in [Procs -> SUBSET Repos] /\ rival' \in [Procs -> SUBSET Repos]
  BY DEF CheckScanTypeOK, BeginCheck
<1> QED BY <1>1, <1>4, <1>5, <1>6

LEMMA UnsettledType ==
    ASSUME CheckScanTypeOK, NEW S \in SUBSET Repos
    PROVE  Unsettled(S) \in [Procs -> SUBSET Repos]
BY DEF CheckScanTypeOK, Unsettled

LEMMA ApplyType ==
    ASSUME CheckScanTypeOK, NEW up, NEW lost, Apply(up, lost)
    PROVE  StoreTypeOK' /\ raced' \in SUBSET Repos
BY ScanType DEF CheckScanTypeOK, Apply, UnderWay

LEMMA TypeInductive == CheckScanTypeOK /\ [Next]_vars => CheckScanTypeOK'
<1> SUFFICES ASSUME CheckScanTypeOK, [Next]_vars PROVE CheckScanTypeOK'
  OBVIOUS
<1> USE DEF CheckScanTypeOK
<1>1. ASSUME NEW p \in Repos, DiskChange(p) PROVE CheckScanTypeOK'
  <2>1. Unsettled({p}) \in [Procs -> SUBSET Repos]
    BY UnsettledType
  <2>2. disk' \in [Repos -> Content \cup {Gone}]
    <3>1. PICK d \in Content \cup {Gone} : disk' = [disk EXCEPT ![p] = d]
      BY <1>1 DEF DiskChange
    <3>2. disk \in [Repos -> Content \cup {Gone}]
      OBVIOUS
    <3> QED BY <3>1, <3>2
  <2>3. UNCHANGED <<rows, cache, pc, unseen, found, job, raced, rival>>
    BY <1>1 DEF DiskChange
  <2>4. moved' \in [Procs -> SUBSET Repos]
    BY <1>1, <2>1 DEF DiskChange
  <2> QED BY <2>2, <2>3, <2>4 DEF StoreTypeOK
<1>2. CASE Restart
  BY <1>2, NoJobsType DEF Restart, OpenDb, StoreTypeOK, Phase
<1>3. ASSUME NEW k \in Procs, StartCheck(k) \/ StartCheckBlind(k) PROVE CheckScanTypeOK'
  BY <1>3, BeginType DEF StartCheck, StartCheckBlind, StoreTypeOK
<1>4. ASSUME NEW k \in Procs, FinishCheck(k) PROVE CheckScanTypeOK'
  BY <1>4 DEF FinishCheck, StoreTypeOK, Phase
<1>5. ASSUME NEW k \in Procs, NEW p \in Repos, Spawn(k, p) PROVE CheckScanTypeOK'
  BY <1>5 DEF Spawn, StoreTypeOK, JobState
<1>6. ASSUME NEW k \in Procs, NEW p \in Repos, Inspect(k, p) PROVE CheckScanTypeOK'
  BY <1>6, JsonFacts DEF Inspect, StoreTypeOK, JobState
<1>7. ASSUME NEW k \in Procs, NEW p \in Repos, Save(k, p) PROVE CheckScanTypeOK'
  <2>1. job[k][p].json \in Json
    BY <1>7 DEF Save, JobState
  <2>2. StoreTypeOK'
    BY <1>7, <2>1, SaveType DEF Save
  <2>3. job' \in [Procs -> [Repos -> JobState]]
    BY <1>7 DEF Save, NoJob, JobState
  <2> QED
    BY <1>7, <2>2, <2>3 DEF Save, NoJob
<1>8. ASSUME NEW k \in Procs, NEW p \in Repos, LoseStatus(k, p) PROVE CheckScanTypeOK'
  BY <1>8 DEF LoseStatus, StoreTypeOK, JobState, NoJob
<1>9. ASSUME NEW k \in Procs, StartScan(k) PROVE CheckScanTypeOK'
  BY <1>9 DEF StartScan, StoreTypeOK, Phase
<1>10. ASSUME NEW k \in Procs, NEW p \in Repos, Visit(k, p) PROVE CheckScanTypeOK'
  <2>1. found' \in [Procs -> SUBSET Repos]
    <3>1. CASE found' = [found EXCEPT ![k] = @ \cup {p}]
      BY <3>1
    <3>2. CASE found' = found
      BY <3>2
    <3> QED BY <1>10, <3>1, <3>2 DEF Visit
  <2>2. unseen' \in [Procs -> SUBSET Repos]
    BY <1>10 DEF Visit
  <2> QED
    BY <1>10, <2>1, <2>2 DEF Visit, StoreTypeOK
<1>11. ASSUME NEW k \in Procs, CommitScan(k) PROVE CheckScanTypeOK'
  <2>1. Vanished(found[k]) \in SUBSET Repos
    BY DEF Vanished, ListPaths
  <2>2. StoreTypeOK' /\ raced' \in SUBSET Repos
    BY <1>11, ApplyType DEF CommitScan
  <2>3. Unsettled(Vanished(found[k])) \in [Procs -> SUBSET Repos]
    BY <2>1, UnsettledType
  <2>4. CASE k \in Requests
    <3>1. PICK S : BeginCheck(k, S, rows', Unsettled(Vanished(found[k])))
      BY <1>11, <2>4 DEF CommitScan
    <3>2. /\ pc' \in [Procs -> Phase]
          /\ job' \in [Procs -> [Repos -> JobState]]
          /\ \A j \in Procs, p \in Repos :
                job'[j][p].st = "done" <=> job'[j][p].json # Null
          /\ moved' \in [Procs -> SUBSET Repos]
          /\ rival' \in [Procs -> SUBSET Repos]
      BY <2>3, <3>1, BeginType
    <3> QED BY <1>11, <2>2, <3>2 DEF CommitScan
  <2>5. CASE k \notin Requests
    <3>1. /\ pc' = [pc EXCEPT ![k] = "idle"]
          /\ moved' = Unsettled(Vanished(found[k]))
          /\ found' = [found EXCEPT ![k] = {}]
          /\ UNCHANGED <<job, rival, disk, unseen>>
      BY <1>11, <2>5 DEF CommitScan
    <3> QED BY <2>2, <2>3, <3>1 DEF Phase
  <2> QED BY <2>4, <2>5
<1>12. ASSUME NEW k \in Procs, FailScan(k) PROVE CheckScanTypeOK'
  <2>1. Vanished(found[k]) \in SUBSET Repos
    BY DEF Vanished, ListPaths
  <2>2. StoreTypeOK' /\ raced' \in SUBSET Repos
    BY <1>12, ApplyType DEF FailScan
  <2>3. moved' \in [Procs -> SUBSET Repos]
    BY <1>12, <2>1, UnsettledType DEF FailScan
  <2> QED
    BY <1>12, <2>2, <2>3 DEF FailScan, Phase
<1>13. ASSUME NEW k \in Procs, StartRetry(k) PROVE CheckScanTypeOK'
  BY <1>13 DEF StartRetry, StoreTypeOK, Phase, JobState, NoJob
<1>14. ASSUME NEW k \in Procs, CheckRetried(k) PROVE CheckScanTypeOK'
  BY <1>14, BeginType DEF CheckRetried, StoreTypeOK
<1>15. ASSUME NEW k \in Procs, Disconnect(k) PROVE CheckScanTypeOK'
  BY <1>15, NoJobsType DEF Disconnect, StoreTypeOK, Phase
<1>16. CASE UNCHANGED vars
  BY <1>16 DEF vars, StoreTypeOK
<1> QED
  BY <1>1, <1>2, <1>3, <1>4, <1>5, <1>6, <1>7, <1>8, <1>9, <1>10, <1>11, <1>12,
     <1>13, <1>14, <1>15, <1>16
  DEF Next, Task, Checkers, Scanners, Procs

LEMMA InitType == Init => CheckScanTypeOK
BY NoJobsType DEF Init, CheckScanTypeOK, StoreTypeOK, Phase

\* Type correctness: the store, the jobs and the history keep their types, and a
\* task holds a status exactly from its inspection until it is saved or lost.
THEOREM TypeCorrect == Spec => []CheckScanTypeOK
BY InitType, TypeInductive, PTL DEF Spec

-----------------------------------------------------------------------------
(* The cache: CacheInv is inductive.                                       *)

\* What a check_paths call starts with: k's own list, the others' untouched.
LEMMA BeginJobs ==
    ASSUME CheckScanTypeOK, NEW k \in Procs, NEW S \in SUBSET Repos, NEW r, NEW m,
           BeginCheck(k, S, r, m)
    PROVE  /\ \A j \in Procs \ {k} : job'[j] = job[j] /\ pc'[j] = pc[j]
           /\ pc'[k] = "checking"
           /\ \A p \in Repos : job'[k][p].json = Null
           /\ \A p \in S : job'[k][p].st = "todo"
           /\ \A p \in Repos \ S : job'[k][p] = NoJob /\ job'[k][p].st = "none"
BY DEF CheckScanTypeOK, BeginCheck, NoJob

LEMMA PhaseInductive ==
    CheckScanTypeOK /\ PhaseInv /\ [Next]_vars => PhaseInv'
<1> SUFFICES ASSUME CheckScanTypeOK, PhaseInv, [Next]_vars PROVE PhaseInv'
  OBVIOUS
<1> USE DEF PhaseInv
<1>1. ASSUME NEW p \in Repos, DiskChange(p) PROVE PhaseInv'
  BY <1>1 DEF DiskChange
<1>2. CASE Restart
  BY <1>2 DEF Restart, NoJobs
<1>3. ASSUME NEW k \in Procs, StartCheck(k) \/ StartCheckBlind(k) PROVE PhaseInv'
  BY <1>3, BeginJobs DEF StartCheck, StartCheckBlind, ListPaths
<1>4. ASSUME NEW k \in Procs, FinishCheck(k) PROVE PhaseInv'
  <2>1. \A p \in Repos : job[k][p] = NoJob
    BY <1>4 DEF FinishCheck, Listed, CheckScanTypeOK, JobState, NoJob
  <2> QED BY <1>4, <2>1 DEF FinishCheck, CheckScanTypeOK
<1>5. ASSUME NEW k \in Procs, NEW p \in Repos, Task(k, p) PROVE PhaseInv'
  <2>1. pc[k] = "checking"
    <3>1. Spawn(k, p) \/ job[k][p].st \in {"running", "done"}
      BY <1>5 DEF Task, Inspect, Save, LoseStatus
    <3>2. CASE Spawn(k, p)
      BY <3>2 DEF Spawn
    <3>3. CASE job[k][p].st \in {"running", "done"}
      <4>1. NoJob.st = "none"
        BY DEF NoJob
      <4>2. pc[k] \in {"idle", "walking", "fetching", "checking"}
        BY DEF CheckScanTypeOK, Phase
      <4> QED BY <3>3, <4>1, <4>2
    <3> QED BY <3>1, <3>2, <3>3
  <2>2. pc' = pc /\ \A j \in Procs \ {k} : job'[j] = job[j]
    BY <1>5 DEF Task, Spawn, Inspect, Save, LoseStatus, CheckScanTypeOK
  <2> QED BY <2>1, <2>2
<1>6. ASSUME NEW k \in Procs, StartScan(k) PROVE PhaseInv'
  BY <1>6 DEF StartScan, CheckScanTypeOK
<1>7. ASSUME NEW k \in Procs, NEW p \in Repos, Visit(k, p) PROVE PhaseInv'
  BY <1>7 DEF Visit
<1>8. ASSUME NEW k \in Procs, CommitScan(k) PROVE PhaseInv'
  <2>1. CASE k \in Requests
    BY <1>8, <2>1, BeginJobs DEF CommitScan
  <2>2. CASE k \notin Requests
    BY <1>8, <2>2 DEF CommitScan, CheckScanTypeOK
  <2> QED BY <2>1, <2>2
<1>9. ASSUME NEW k \in Procs, FailScan(k) PROVE PhaseInv'
  BY <1>9 DEF FailScan, CheckScanTypeOK
<1>10. ASSUME NEW k \in Procs, StartRetry(k) PROVE PhaseInv'
  BY <1>10 DEF StartRetry, CheckScanTypeOK, NoJob
<1>11. ASSUME NEW k \in Procs, CheckRetried(k) PROVE PhaseInv'
  BY <1>11, BeginJobs DEF CheckRetried, Listed
<1>12. ASSUME NEW k \in Procs, Disconnect(k) PROVE PhaseInv'
  BY <1>12 DEF Disconnect, CheckScanTypeOK, NoJobs
<1>13. CASE UNCHANGED vars
  BY <1>13 DEF vars
<1> QED
  BY <1>1, <1>2, <1>3, <1>4, <1>5, <1>6, <1>7, <1>8, <1>9, <1>10, <1>11, <1>12, <1>13
  DEF Next, Checkers, Scanners, Procs

LEMMA StoreFrame ==
    ASSUME UNCHANGED <<rows, cache, raced>>, RaceFreeInv, BlankAtWorst,
           \A p \in Repos : rows[p] = Untracked /\ Quiet(p) => Quiet(p)'
    PROVE  RaceFreeInv' /\ BlankAtWorst'
BY DEF RaceFreeInv, BlankAtWorst, ListPaths

\* save_status keeps the cache right for a tracked repository on which no pruning
\* raced with a check, and leaves a row no worse than blank for all others.
LEMMA SaveStore ==
    ASSUME CacheInv, NEW k \in Procs, NEW p \in Repos, Save(k, p)
    PROVE  RaceFreeInv' /\ BlankAtWorst'
<1> DEFINE s == job[k][p].json
<1>1. s \in Json
  BY DEF Save, CacheInv, CheckScanTypeOK, JobState
<1>2. cache' = [cache EXCEPT ![p] = [json |-> s, last_checked |-> LastChecked(s)]]
  BY DEF Save, SaveStatus
<1>3. cache'[p].json = s /\ \A q \in Repos \ {p} : cache'[q] = cache[q]
  BY <1>2 DEF CacheInv, CheckScanTypeOK, StoreTypeOK
<1>4. \A q \in Repos \ {p} : rows'[q] = rows[q]
  BY DEF Save, SaveStatus, CacheInv, CheckScanTypeOK, StoreTypeOK
<1>5. rows[p] = Untracked => rows'[p] = Untracked
  BY DEF Save, SaveStatus, ListPaths
<1>6. rows[p] # Untracked /\ (p \notin raced \/ rows'[p] # Null) => rows'[p] = s
  <2> SUFFICES ASSUME rows[p] # Untracked, p \notin raced \/ rows'[p] # Null
               PROVE  rows'[p] = s
    OBVIOUS
  <2>1. CASE OnDisk(p) # s
    BY <2>1 DEF Save, SaveStatus, ListPaths, CacheInv, CheckScanTypeOK, StoreTypeOK
  <2>2. CASE OnDisk(p) = s
    <3>1. rows' = rows
      BY <2>2 DEF Save, SaveStatus
    <3>2. CASE cache[p] = Null
      BY <2>2, <3>1, <3>2 DEF OnDisk, StoredJson
    <3>3. CASE cache[p] # Null
      BY <2>2, <3>1, <3>3 DEF OnDisk, CacheInv, RaceFreeInv, BlankAtWorst, ListPaths
    <3> QED BY <3>2, <3>3
  <2> QED BY <2>1, <2>2
<1>7. rows[p] # Untracked => rows'[p] # Untracked
  BY JsonFacts, <1>1 DEF Save, SaveStatus, CacheInv, CheckScanTypeOK, StoreTypeOK
<1>8. p \in raced \/ rows[p] # Untracked
  BY DEF CacheInv, RaceFreeInv, Quiet, Save
<1>9. raced' = raced
  BY DEF Save
<1>10. \A q \in Repos \ {p}, j \in Procs : job'[j][q] = job[j][q]
  BY DEF Save, CacheInv, CheckScanTypeOK
<1>11. RaceFreeInv'
  <2> SUFFICES ASSUME NEW q \in Repos \ raced
               PROVE  /\ rows'[q] = Untracked => cache'[q] = Null /\ Quiet(q)'
                      /\ rows'[q] # Untracked /\ cache'[q] # Null
                            => rows'[q] = cache'[q].json
    BY <1>9 DEF RaceFreeInv
  <2>1. CASE q = p
    BY <2>1, <1>3, <1>6, <1>7, <1>8
  <2>2. CASE q # p
    BY <2>2, <1>3, <1>4, <1>10 DEF CacheInv, RaceFreeInv, Quiet
  <2> QED BY <2>1, <2>2
<1>12. BlankAtWorst'
  BY <1>3, <1>4, <1>5, <1>6 DEF BlankAtWorst, CacheInv, ListPaths
<1> QED BY <1>11, <1>12

\* run_scan drops cache entry and row together.  A path that is checked while it
\* is dropped is the race; any other is quiet from then on.
LEMMA ScanStore ==
    ASSUME CacheInv, NEW up, NEW lost \in SUBSET Repos, Apply(up, lost),
           \A p \in Repos : rows'[p] = Untracked /\ Quiet(p) => Quiet(p)'
    PROVE  RaceFreeInv' /\ BlankAtWorst'
<1>1. ASSUME NEW p \in lost PROVE rows'[p] = Untracked /\ cache'[p] = Null
  BY <1>1 DEF Apply, UpsertThenDelete
<1>2. ASSUME NEW p \in Repos \ lost
      PROVE  /\ rows'[p] = rows[p] \/ (rows[p] = Untracked /\ rows'[p] = Null)
             /\ cache'[p] = cache[p]
  BY <1>2 DEF Apply, UpsertThenDelete
<1>3. RaceFreeInv'
  <2> SUFFICES ASSUME NEW p \in Repos, p \notin raced'
               PROVE  /\ rows'[p] = Untracked => cache'[p] = Null /\ Quiet(p)'
                      /\ rows'[p] # Untracked /\ cache'[p] # Null
                            => rows'[p] = cache'[p].json
    BY DEF RaceFreeInv
  <2>1. CASE p \in lost
    <3>1. Quiet(p)
      BY <2>1 DEF Apply, UnderWay, Quiet
    <3> QED BY <2>1, <3>1, <1>1
  <2>2. CASE p \notin lost
    <3>1. p \notin raced
      BY <2>2 DEF Apply
    <3> QED BY <2>2, <3>1, <1>2, JsonFacts DEF CacheInv, RaceFreeInv
  <2> QED BY <2>1, <2>2
<1>4. BlankAtWorst'
  BY <1>1, <1>2, JsonFacts DEF BlankAtWorst, CacheInv, ListPaths
<1> QED BY <1>3, <1>4

LEMMA CacheInductive == CacheInv /\ [Next]_vars => CacheInv'
<1> SUFFICES ASSUME CacheInv, [Next]_vars PROVE CacheInv'
  OBVIOUS
<1>1. CheckScanTypeOK' /\ PhaseInv'
  BY TypeInductive, PhaseInductive DEF CacheInv
<1> SUFFICES RaceFreeInv' /\ BlankAtWorst'
  BY <1>1 DEF CacheInv
<1> USE DEF CacheInv
<1>2. ASSUME NEW p \in Repos, DiskChange(p) PROVE RaceFreeInv' /\ BlankAtWorst'
  BY <1>2, StoreFrame DEF DiskChange, Quiet
<1>3. CASE Restart
  <2>1. \A p \in Repos : Quiet(p)'
    BY <1>3, NoJobsType DEF Restart, Quiet
  <2> QED
    BY <1>3, <2>1 DEF Restart, OpenDb, RaceFreeInv, BlankAtWorst, ListPaths
<1>4. ASSUME NEW k \in Procs, NEW S \in SUBSET Repos, NEW r, NEW m,
             BeginCheck(k, S, r, m), \A p \in S : job[k][p].st # "none" \/ rows[p] # Untracked,
             UNCHANGED <<rows, cache, raced>>
      PROVE  RaceFreeInv' /\ BlankAtWorst'
  <2>1. \A p \in Repos : rows[p] = Untracked /\ Quiet(p) => Quiet(p)'
    BY <1>4, BeginJobs DEF Quiet
  <2> QED BY <1>4, <2>1, StoreFrame
<1>5. ASSUME NEW k \in Procs, StartCheck(k) \/ StartCheckBlind(k)
      PROVE  RaceFreeInv' /\ BlankAtWorst'
  BY <1>5, <1>4 DEF StartCheck, StartCheckBlind, ListPaths
<1>6. ASSUME NEW k \in Procs, CheckRetried(k) PROVE RaceFreeInv' /\ BlankAtWorst'
  BY <1>6, <1>4 DEF CheckRetried, Listed
<1>7. ASSUME NEW k \in Procs, NEW p \in Repos, Spawn(k, p) \/ Inspect(k, p) \/ LoseStatus(k, p)
      PROVE  RaceFreeInv' /\ BlankAtWorst'
  <2>1. UNCHANGED <<rows, cache, raced>>
    BY <1>7 DEF Spawn, Inspect, LoseStatus
  <2>2. job[k][p].st # "none"
    BY <1>7 DEF Spawn, Inspect, LoseStatus
  <2>3. \A j \in Procs, q \in Repos : <<j, q>> # <<k, p>> => job'[j][q] = job[j][q]
    BY <1>7 DEF Spawn, Inspect, LoseStatus, CheckScanTypeOK
  <2>4. \A q \in Repos : Quiet(q) => Quiet(q)'
    BY <2>2, <2>3 DEF Quiet
  <2> QED BY <2>1, <2>4, StoreFrame
<1>8. ASSUME NEW k \in Procs, NEW p \in Repos, Save(k, p) PROVE RaceFreeInv' /\ BlankAtWorst'
  BY <1>8, SaveStore
<1>9. ASSUME NEW k \in Procs,
             FinishCheck(k) \/ StartScan(k) \/ \E p \in Repos : Visit(k, p)
      PROVE  RaceFreeInv' /\ BlankAtWorst'
  BY <1>9, StoreFrame DEF FinishCheck, StartScan, Visit, Quiet
<1>10. ASSUME NEW k \in Procs, CommitScan(k) PROVE RaceFreeInv' /\ BlankAtWorst'
  <2> DEFINE lost == Vanished(found[k])
  <2>1. lost \in SUBSET Repos /\ Apply(found[k], lost)
    <3>1. found[k] \in SUBSET Repos
      BY DEF CheckScanTypeOK
    <3>2. lost \in SUBSET Repos
      BY <3>1 DEF Vanished, ListPaths
    <3>3. Apply(found[k], lost)
      BY <1>10 DEF CommitScan
    <3> QED BY <3>2, <3>3
  <2>2. \A p \in Repos : rows'[p] = Untracked /\ Quiet(p) => Quiet(p)'
    <3>1. CASE k \in Requests
      <4>1. PICK S \in {{p \in Repos : rows'[p] # Untracked}, {}} :
                    BeginCheck(k, S, rows', Unsettled(lost))
        BY <1>10, <3>1 DEF CommitScan
      <4>2. S \in SUBSET Repos /\ \A p \in S : rows'[p] # Untracked
        BY <4>1
      <4> QED BY <4>1, <4>2, BeginJobs DEF Quiet
    <3>2. CASE k \notin Requests
      BY <1>10, <3>2 DEF CommitScan, Quiet
    <3> QED BY <3>1, <3>2
  <2> QED BY <2>1, <2>2, ScanStore
<1>11. ASSUME NEW k \in Procs, FailScan(k) PROVE RaceFreeInv' /\ BlankAtWorst'
  <2>1. found[k] \in SUBSET Repos /\ Vanished(found[k]) \in SUBSET Repos
    BY DEF CheckScanTypeOK, Vanished, ListPaths
  <2>2. \E up, lost \in SUBSET Repos : Apply(up, lost)
    <3>1. CASE \E up \in SUBSET found[k] : Apply(up, {})
      BY <3>1, <2>1
    <3>2. CASE \E lost \in SUBSET Vanished(found[k]) : Apply(found[k], lost)
      BY <3>2, <2>1
    <3> QED BY <1>11, <3>1, <3>2 DEF FailScan
  <2>3. PICK up, lost \in SUBSET Repos : Apply(up, lost)
    BY <2>2
  <2>4. \A p \in Repos : Quiet(p) => Quiet(p)'
    BY <1>11 DEF FailScan, Quiet
  <2> QED BY <2>3, <2>4, ScanStore
<1>12. ASSUME NEW k \in Procs, StartRetry(k) PROVE RaceFreeInv' /\ BlankAtWorst'
  <2>1. UNCHANGED <<rows, cache, raced>>
    BY <1>12 DEF StartRetry
  <2>2. \A p \in Repos : rows[p] = Untracked /\ Quiet(p) => Quiet(p)'
    BY <1>12 DEF StartRetry, ListPaths, Quiet, NoJob, CheckScanTypeOK
  <2> QED BY <2>1, <2>2, StoreFrame
<1>13. ASSUME NEW k \in Procs, Disconnect(k) PROVE RaceFreeInv' /\ BlankAtWorst'
  BY <1>13, StoreFrame, NoJobsType DEF Disconnect, Quiet, CheckScanTypeOK
<1>14. CASE UNCHANGED vars
  BY <1>14, StoreFrame DEF vars, Quiet
<1> QED
  BY <1>2, <1>3, <1>5, <1>6, <1>7, <1>8, <1>9, <1>10, <1>11, <1>12, <1>13, <1>14
  DEF Next, Task, Checkers, Scanners, Procs

LEMMA InitCache == Init => CacheInv
BY InitType, NoJobsType
DEF Init, CacheInv, PhaseInv, RaceFreeInv, Quiet, BlankAtWorst, ListPaths, NoJobs

LEMMA CacheInvariant == Spec => []CacheInv
BY InitCache, CacheInductive, PTL DEF Spec

\* The cache agrees with the table for every repository on which no pruning raced
\* with a check.
THEOREM CacheIsCoherent == Spec => []CacheCoherent
<1>1. CacheInv => CacheCoherent
  BY DEF CacheInv, RaceFreeInv, CacheCoherent, ListPaths
<1> QED BY <1>1, CacheInvariant, PTL

\* No check ever rewrites a status that the table already holds, race or not.
THEOREM NoWriteIsRedundant == Spec => []NoRedundantWrite
<1>1. CacheInv => NoRedundantWrite
  <2> SUFFICES ASSUME CacheInv, NEW k \in Procs, NEW p \in ListPaths,
                      job[k][p].st = "done", OnDisk(p) # job[k][p].json
               PROVE  rows[p] # job[k][p].json
    BY DEF NoRedundantWrite
  <2>1. p \in Repos /\ rows[p] # Untracked
    BY DEF ListPaths
  <2>2. job[k][p].json # Null
    BY <2>1 DEF CacheInv, CheckScanTypeOK
  <2>3. CASE cache[p] = Null
    BY <2>1, <2>3 DEF OnDisk, StoredJson
  <2>4. CASE cache[p] # Null
    BY <2>1, <2>2, <2>4 DEF OnDisk, CacheInv, BlankAtWorst
  <2> QED BY <2>3, <2>4
<1> QED BY <1>1, CacheInvariant, PTL

-----------------------------------------------------------------------------
(* The answer: FreshInv is inductive, given CacheInv.                      *)

\* k can be held to its answer on p, and what FreshInv says of it then.
Held(k, p) == pc[k] = "checking" /\ p \notin moved[k] \cup rival[k] \cup raced
FreshFor(k, p) ==
    /\ rows[p] # Untracked
    /\ \A j \in Procs :
          job[j][p].st = "done" => job[j][p].json = ComputeStatus(disk[p])
    /\ job[k][p].st = "none" =>
          /\ rows[p] = ComputeStatus(disk[p])
          /\ cache[p] = [json |-> ComputeStatus(disk[p]),
                         last_checked |-> LastChecked(ComputeStatus(disk[p]))]

LEMMA FreshInvIs == FreshInv <=> \A k \in Procs, p \in Repos : Held(k, p) => FreshFor(k, p)
BY DEF FreshInv, Held, FreshFor

\* While the table, the disk and k's own jobs stay, no inspection appears.
LEMMA FreshFrame ==
    ASSUME NEW k \in Procs, NEW p \in Repos, Held(k, p)' => Held(k, p),
           FreshFor(k, p) \/ ~Held(k, p), UNCHANGED <<rows, cache, disk>>,
           \A j \in Procs : job'[j][p].st = "done" => job'[j][p] = job[j][p],
           Held(k, p)' => (job'[k][p].st = "none" => job[k][p].st = "none")
    PROVE  Held(k, p)' => FreshFor(k, p)'
BY DEF FreshFor

\* A process that enters check_paths starts with a clean slate.
LEMMA FreshBegin ==
    ASSUME CheckScanTypeOK, NEW k \in Procs, NEW S \in SUBSET Repos, NEW r,
           NEW m \in [Procs -> SUBSET Repos], BeginCheck(k, S, r, m), rows' = r, NEW p \in Repos
    PROVE  Held(k, p)' => FreshFor(k, p)'
<1> SUFFICES ASSUME Held(k, p)' PROVE FreshFor(k, p)'
  OBVIOUS
<1>1. moved'[k] = {q \in Repos : q \notin S \/ r[q] = Untracked}
      /\ rival'[k] = {q \in Repos : \E j \in Procs \ {k} : job[j][q].st = "done"}
  BY DEF BeginCheck, CheckScanTypeOK
<1>2. p \in S /\ rows'[p] # Untracked /\ \A j \in Procs \ {k} : job[j][p].st # "done"
  BY <1>1 DEF Held
<1>3. job'[k][p].st = "todo" /\ \A j \in Procs \ {k} : job'[j] = job[j]
  BY <1>2, BeginJobs
<1> QED BY <1>2, <1>3 DEF FreshFor

\* ... and leaves what the others can be held to.
LEMMA FreshOthers ==
    ASSUME CheckScanTypeOK, NEW k \in Procs, NEW S \in SUBSET Repos, NEW r,
           NEW m \in [Procs -> SUBSET Repos], BeginCheck(k, S, r, m), NEW i \in Procs, i # k
    PROVE  /\ pc'[i] = pc[i] /\ moved'[i] = m[i] /\ rival'[i] = rival[i]
           /\ \A p \in Repos : job'[k][p].st # "done"
           /\ \A j \in Procs \ {k} : job'[j] = job[j]
<1>1. pc'[i] = pc[i] /\ moved'[i] = m[i] /\ rival'[i] = rival[i]
  BY DEF BeginCheck, CheckScanTypeOK
<1>2. \A j \in Procs \ {k} : job'[j] = job[j]
  BY BeginJobs
<1>3. \A p \in Repos : job'[k][p].st # "done"
  <2> SUFFICES ASSUME NEW p \in Repos PROVE job'[k][p].st # "done"
    OBVIOUS
  <2> QED BY BeginJobs
<1> QED BY <1>1, <1>2, <1>3

\* Scanning: what is pruned is unsettled, what is not keeps its row if it has one.
LEMMA FreshScan ==
    ASSUME CacheInv, NEW up, NEW lost \in SUBSET Repos, Apply(up, lost), disk' = disk,
           NEW i \in Procs, NEW p \in Repos, Held(i, p) => FreshFor(i, p),
           pc[i] = "checking" => moved'[i] = moved[i] \cup lost,
           pc'[i] = "checking" => pc[i] = "checking" /\ rival'[i] = rival[i] /\ job'[i] = job[i],
           \A j \in Procs : job'[j][p].st = "done" => job'[j][p] = job[j][p]
    PROVE  Held(i, p)' => FreshFor(i, p)'
<1> SUFFICES ASSUME Held(i, p)' PROVE FreshFor(i, p)'
  OBVIOUS
<1>1. pc[i] = "checking" /\ p \notin lost /\ p \notin moved[i] \cup rival[i] \cup raced
  BY DEF Held, Apply
<1>2. FreshFor(i, p)
  BY <1>1 DEF Held
<1>3. rows'[p] = rows[p] /\ cache'[p] = cache[p]
  BY <1>1, <1>2 DEF FreshFor, Apply, UpsertThenDelete
<1>4. job'[i] = job[i]
  BY DEF Held
<1> QED BY <1>2, <1>3, <1>4 DEF FreshFor

LEMMA FreshInductive == CacheInv /\ FreshInv /\ [Next]_vars => FreshInv'
<1> SUFFICES ASSUME CacheInv, [Next]_vars, NEW i \in Procs, NEW q \in Repos,
                    Held(i, q) => FreshFor(i, q)
             PROVE  Held(i, q)' => FreshFor(i, q)'
  <2>1. FreshInv' <=> \A k \in Procs, p \in Repos : Held(k, p)' => FreshFor(k, p)'
    BY DEF FreshInv, Held, FreshFor
  <2> QED BY <2>1, FreshInvIs
<1> DEFINE Goal == Held(i, q)' => FreshFor(i, q)'
<1> USE DEF CacheInv, CheckScanTypeOK
<1>1. ASSUME NEW p \in Repos, DiskChange(p) PROVE Goal
  <2>1. pc[i] = "checking" => moved'[i] = moved[i] \cup {p}
    BY <1>1 DEF DiskChange, Unsettled
  <2>2. q # p => disk'[q] = disk[q]
    BY <1>1 DEF DiskChange
  <2>3. UNCHANGED <<rows, cache, pc, job, raced, rival>>
    BY <1>1 DEF DiskChange
  <2> QED BY <2>1, <2>2, <2>3 DEF Held, FreshFor
<1>2. CASE Restart
  BY <1>2 DEF Restart, Held
<1>3. ASSUME NEW k \in Procs, NEW S \in SUBSET Repos,
             BeginCheck(k, S, rows, moved), UNCHANGED <<disk, rows, cache, raced>>
      PROVE  Goal
  <2>1. CASE i = k
    BY <2>1, <1>3, FreshBegin
  <2>2. CASE i # k
    <3>0. CheckScanTypeOK /\ moved \in [Procs -> SUBSET Repos]
      OBVIOUS
    <3> HIDE DEF CacheInv, CheckScanTypeOK
    <3>1. /\ pc'[i] = pc[i] /\ moved'[i] = moved[i] /\ rival'[i] = rival[i]
          /\ \A p \in Repos : job'[k][p].st # "done"
          /\ \A j \in Procs \ {k} : job'[j] = job[j]
      BY <3>0, <2>2, <1>3, FreshOthers
    <3>2. \A j \in Procs : job'[j][q].st = "done" => job'[j][q] = job[j][q]
      BY <3>1
    <3>3. job'[i] = job[i]
      BY <2>2, <3>1
    <3>4. Held(i, q)' => Held(i, q)
      BY <1>3, <3>1 DEF Held
    <3>5. UNCHANGED <<rows, cache, disk>>
      BY <1>3
    <3> QED BY <3>2, <3>3, <3>4, <3>5, FreshFrame
  <2> QED BY <2>1, <2>2
<1>4. ASSUME NEW k \in Procs, StartCheck(k) \/ StartCheckBlind(k) PROVE Goal
  BY <1>4, <1>3 DEF StartCheck, StartCheckBlind, ListPaths
<1>5. ASSUME NEW k \in Procs, CheckRetried(k) PROVE Goal
  BY <1>5, <1>3 DEF CheckRetried, Listed
<1>6. ASSUME NEW k \in Procs, NEW p \in Repos, Spawn(k, p) PROVE Goal
  <2>1. \A j \in Procs : job'[j][q].st = "done" => job'[j][q] = job[j][q]
    BY <1>6 DEF Spawn
  <2>2. job'[i][q].st = "none" => job[i][q].st = "none"
    BY <1>6 DEF Spawn
  <2> QED BY <1>6, <2>1, <2>2, FreshFrame DEF Spawn, Held
<1>7. ASSUME NEW k \in Procs, NEW p \in Repos, Inspect(k, p) PROVE Goal
  <2>1. CASE p = q
    <3>1. \A j \in Procs \ {k} : job'[j][q] = job[j][q]
      BY <1>7 DEF Inspect
    <3>2. job'[k][q].st = "done" /\ job'[k][q].json = ComputeStatus(disk[q])
      BY <1>7, <2>1 DEF Inspect
    <3> QED BY <1>7, <3>1, <3>2 DEF Inspect, Held, FreshFor
  <2>2. CASE p # q
    <3>1. \A j \in Procs : job'[j][q] = job[j][q]
      BY <1>7, <2>2 DEF Inspect
    <3> QED BY <1>7, <3>1, FreshFrame DEF Inspect, Held
  <2> QED BY <2>1, <2>2
<1>8. ASSUME NEW k \in Procs, NEW p \in Repos, Save(k, p) PROVE Goal
  <2> SUFFICES ASSUME Held(i, q)' PROVE FreshFor(i, q)'
    OBVIOUS
  <2>1. Held(i, q) /\ FreshFor(i, q)
    BY <1>8 DEF Save, Held
  <2>2. disk' = disk /\ raced' = raced
    BY <1>8 DEF Save
  <2>3. \A j \in Procs : <<j, q>> # <<k, p>> => job'[j][q] = job[j][q]
    BY <1>8 DEF Save
  <2>4. job'[k][p].st = "none"
    BY <1>8 DEF Save, NoJob
  <2>5. CASE p = q
    <3>1. job[k][q].json = ComputeStatus(disk[q])
      BY <2>1, <2>5, <1>8 DEF FreshFor, Save
    <3>2. rows'[q] = ComputeStatus(disk[q])
      <4>1. rows[q] # Untracked /\ q \notin raced
        BY <2>1 DEF FreshFor, Held
      <4>2. OnDisk(q) = job[k][q].json => rows[q] = job[k][q].json
        <5>1. CASE cache[q] = Null
          BY <4>1, <5>1 DEF OnDisk, StoredJson
        <5>2. CASE cache[q] # Null
          BY <4>1, <5>2 DEF OnDisk, RaceFreeInv
        <5> QED BY <5>1, <5>2
      <4>3. rows'[q] = job[k][q].json
        BY <1>8, <2>5, <4>1, <4>2 DEF Save, SaveStatus, ListPaths, StoreTypeOK
      <4> QED BY <4>3, <3>1
    <3>3. rows'[q] # Untracked
      BY <3>2, JsonFacts
    <3>4. cache'[q] = [json |-> ComputeStatus(disk[q]),
                       last_checked |-> LastChecked(ComputeStatus(disk[q]))]
      BY <1>8, <2>5, <3>1 DEF Save, SaveStatus, StoreTypeOK
    <3> QED BY <2>1, <2>2, <2>3, <2>4, <2>5, <3>2, <3>3, <3>4 DEF FreshFor
  <2>6. CASE p # q
    <3>1. rows'[q] = rows[q] /\ cache'[q] = cache[q]
      BY <1>8, <2>6 DEF Save, SaveStatus, StoreTypeOK
    <3> QED BY <2>1, <2>2, <2>3, <2>6, <3>1 DEF FreshFor
  <2> QED BY <2>5, <2>6
<1>9. ASSUME NEW k \in Procs, NEW p \in Repos, LoseStatus(k, p) PROVE Goal
  <2>1. \A j \in Procs : job'[j][q].st = "done" => job'[j][q] = job[j][q]
    BY <1>9 DEF LoseStatus, NoJob
  <2>2. UNCHANGED <<rows, cache, disk, pc, raced, rival>> /\ moved[i] \subseteq moved'[i]
    BY <1>9 DEF LoseStatus
  <2>3. Held(i, q)' => job'[i][q] = job[i][q]
    BY <1>9, <2>2 DEF LoseStatus, Held
  <2> QED BY <2>1, <2>2, <2>3, FreshFrame DEF Held
<1>10. ASSUME NEW k \in Procs, FinishCheck(k) PROVE Goal
  BY <1>10 DEF FinishCheck, Held, FreshFor
<1>11. ASSUME NEW k \in Procs, StartScan(k) PROVE Goal
  BY <1>11 DEF StartScan, Held, FreshFor
<1>12. ASSUME NEW k \in Procs, NEW p \in Repos, Visit(k, p) PROVE Goal
  BY <1>12 DEF Visit, Held, FreshFor
<1>13. ASSUME NEW k \in Procs, CommitScan(k) PROVE Goal
  <2> DEFINE lost == Vanished(found[k])
  <2>1. lost \in SUBSET Repos
    BY DEF Vanished, ListPaths
  <2>2. Apply(found[k], lost) /\ disk' = disk
    BY <1>13 DEF CommitScan
  <2>3. pc[i] = "checking" => Unsettled(lost)[i] = moved[i] \cup lost
    BY DEF Unsettled
  <2>4. CASE k \in Requests
    <3>1. PICK S \in SUBSET Repos : BeginCheck(k, S, rows', Unsettled(lost))
      BY <1>13, <2>4 DEF CommitScan
    <3>2. CASE i = k
      <4>1. Unsettled(lost) \in [Procs -> SUBSET Repos]
        BY <2>1, UnsettledType
      <4> HIDE DEF lost
      <4> QED BY <3>1, <3>2, <4>1, FreshBegin
    <3>3. CASE i # k
      <4>1. Unsettled(lost) \in [Procs -> SUBSET Repos]
        BY <2>1, UnsettledType
      <4> DEFINE m == Unsettled(lost)
      <4>a. CheckScanTypeOK
        OBVIOUS
      <4> HIDE DEF lost, m, CacheInv, CheckScanTypeOK
      <4>2. /\ pc'[i] = pc[i] /\ moved'[i] = m[i] /\ rival'[i] = rival[i]
            /\ \A p \in Repos : job'[k][p].st # "done"
            /\ \A j \in Procs \ {k} : job'[j] = job[j]
        <5>1. m \in [Procs -> SUBSET Repos] /\ BeginCheck(k, S, rows', m)
          BY <3>1, <4>1 DEF m
        <5> QED BY <3>3, <4>a, <5>1, FreshOthers
      <4> USE DEF lost, m, CacheInv, CheckScanTypeOK
      <4>3. \A j \in Procs : job'[j][q].st = "done" => job'[j][q] = job[j][q]
        BY <4>2
      <4> QED BY <4>2, <4>3, <3>3, <2>1, <2>2, <2>3, FreshScan
    <3> QED BY <3>2, <3>3
  <2>5. CASE k \notin Requests
    <3>1. pc' = [pc EXCEPT ![k] = "idle"] /\ moved' = Unsettled(lost) /\ UNCHANGED <<job, rival>>
      BY <1>13, <2>5 DEF CommitScan
    <3> QED BY <3>1, <2>1, <2>2, <2>3, FreshScan
  <2> QED BY <2>4, <2>5
<1>14. ASSUME NEW k \in Procs, FailScan(k) PROVE Goal
  <2>1. Vanished(found[k]) \in SUBSET Repos
    BY DEF Vanished, ListPaths
  <2>2. PICK up, lost \in SUBSET Repos :
             Apply(up, lost) /\ (pc[i] = "checking" => moved'[i] = moved[i] \cup lost)
    <3>1. CASE /\ \E up \in SUBSET found[k] : Apply(up, {})
               /\ UNCHANGED moved
      <4>1. PICK up \in SUBSET found[k] : Apply(up, {}) /\ UNCHANGED moved
        BY <3>1
      <4>2. up \in SUBSET Repos /\ {} \in SUBSET Repos /\ moved'[i] = moved[i] \cup {}
        BY <4>1
      <4> QED BY <4>1, <4>2
    <3>2. CASE \E lost \in SUBSET Vanished(found[k]) :
                  Apply(found[k], lost) /\ moved' = Unsettled(lost)
      BY <3>2, <2>1 DEF Unsettled
    <3> QED BY <1>14, <3>1, <3>2 DEF FailScan
  <2>3. pc' = [pc EXCEPT ![k] = "idle"] /\ UNCHANGED <<disk, job, rival>>
    BY <1>14 DEF FailScan
  <2> QED BY <2>2, <2>3, FreshScan
<1>15. ASSUME NEW k \in Procs, StartRetry(k) PROVE Goal
  <2>1. \A j \in Procs : job'[j][q].st = "done" => job'[j][q] = job[j][q]
    BY <1>15 DEF StartRetry, NoJob
  <2>2. Held(i, q)' => Held(i, q) /\ job'[i] = job[i]
    BY <1>15 DEF StartRetry, Held
  <2> QED BY <1>15, <2>1, <2>2, FreshFrame DEF StartRetry
<1>16. ASSUME NEW k \in Procs, Disconnect(k) PROVE Goal
  <2>1. \A j \in Procs : job'[j][q].st = "done" => job'[j][q] = job[j][q]
    BY <1>16, NoJobsType DEF Disconnect
  <2>2. Held(i, q)' => Held(i, q) /\ job'[i] = job[i]
    BY <1>16 DEF Disconnect, Held
  <2> QED BY <1>16, <2>1, <2>2, FreshFrame DEF Disconnect
<1>17. CASE UNCHANGED vars
  BY <1>17 DEF vars, Held, FreshFor
<1> QED
  BY <1>1, <1>2, <1>4, <1>5, <1>6, <1>7, <1>8, <1>9, <1>10, <1>11, <1>12, <1>13,
     <1>14, <1>15, <1>16, <1>17
  DEF Next, Task, Checkers, Scanners, Procs

LEMMA InitFresh == Init => FreshInv
BY DEF Init, FreshInv

LEMMA FreshInvariant == Spec => [](CacheInv /\ FreshInv)
<1>1. CacheInv /\ FreshInv /\ [Next]_vars => (CacheInv /\ FreshInv)'
  BY CacheInductive, FreshInductive
<1>2. Init => CacheInv /\ FreshInv
  BY InitCache, InitFresh
<1> QED BY <1>1, <1>2, PTL DEF Spec

\* A completed check leaves the true status of every repository on which its
\* process can be held to an answer.
THEOREM AnswerIsFresh == Spec => []AnswerFresh
<1>1. FreshInv => AnswerFresh
  <2> SUFFICES ASSUME FreshInv, NEW k \in Procs, pc[k] = "checking", Listed(k) = {},
                      NEW p \in ListPaths \ (moved[k] \cup rival[k] \cup raced)
               PROVE  Served(p) = [status |-> ComputeStatus(disk[p]),
                                   last_checked |-> LastChecked(ComputeStatus(disk[p]))]
    BY DEF AnswerFresh
  <2>1. p \in Repos /\ rows[p] # Untracked
    BY DEF ListPaths
  <2>2. job[k][p].st = "none"
    BY <2>1 DEF Listed
  <2>3. /\ rows[p] = ComputeStatus(disk[p])
        /\ cache[p] = [json |-> ComputeStatus(disk[p]),
                       last_checked |-> LastChecked(ComputeStatus(disk[p]))]
    BY <2>1, <2>2 DEF FreshInv
  <2>4. cache[p] # Null /\ StoredJson(p) = ComputeStatus(disk[p])
    BY <2>1, <2>3, EntryNotNull, JsonFacts DEF StoredJson
  <2> QED BY <2>3, <2>4 DEF Served
<1> QED BY <1>1, FreshInvariant, PTL

-----------------------------------------------------------------------------
(* Settling and refinement: properties of steps.                           *)

\* The processes that are about to save a status of p that p does not have any more.
Stale(p) ==
    {k \in Procs : job[k][p].st = "done" /\ job[k][p].json # ComputeStatus(disk[p])}

\* While p stays as it is, (1) no new stale status of p arises, (2) a right row of a
\* repository that can be seen is neither made wrong nor dropped once no stale status is
\* left, and (3) each status that is not stale
\* and is saved makes the row right, unless a pruning raced with the check.
SettleStep ==
    \A p \in Repos : disk'[p] = disk[p] =>
        /\ Stale(p)' \subseteq Stale(p)
        /\ p \in StillExists /\ rows[p] = ComputeStatus(disk[p]) /\ Stale(p) = {}
              => rows'[p] = rows[p]
        /\ \A k \in Procs \ Stale(p) :
              Save(k, p) /\ p \in ListPaths
                 => rows'[p] = ComputeStatus(disk[p]) \/ (p \in raced /\ rows'[p] = Null)

\* Only an inspection makes a status that is about to be saved.
LEMMA DoneByInspect ==
    ASSUME CacheInv, [Next]_vars, NEW j \in Procs, NEW p \in Repos,
           job'[j][p].st = "done", job'[j][p] # job[j][p]
    PROVE  Inspect(j, p)
<1> USE DEF CacheInv, CheckScanTypeOK
<1> DEFINE Same == job'[j][p] = job[j][p] \/ job'[j][p].st # "done"
<1>1. ASSUME NEW k \in Procs, NEW S \in SUBSET Repos, NEW r, NEW m,
             BeginCheck(k, S, r, m)
      PROVE  Same
  BY <1>1, BeginJobs
<1>2. ASSUME NEW k \in Procs, StartCheck(k) \/ StartCheckBlind(k) \/ CheckRetried(k)
      PROVE  Same
  BY <1>1, <1>2 DEF StartCheck, StartCheckBlind, CheckRetried, ListPaths, Listed
<1>3. ASSUME NEW k \in Procs, NEW q \in Repos,
             Spawn(k, q) \/ Save(k, q) \/ LoseStatus(k, q)
      PROVE  Same
  <2>1. NoJob.st # "done"
    BY DEF NoJob
  <2>2. CASE Spawn(k, q)
    BY <2>2 DEF Spawn
  <2>3. CASE Save(k, q) \/ LoseStatus(k, q)
    <3>1. job' = [job EXCEPT ![k][q] = NoJob]
      BY <2>3 DEF Save, LoseStatus
    <3>2. CASE j = k /\ p = q
      BY <2>1, <3>1, <3>2
    <3>3. CASE ~(j = k /\ p = q)
      BY <3>1, <3>3
    <3> QED BY <3>2, <3>3
  <2> QED BY <1>3, <2>2, <2>3
<1>4. ASSUME NEW k \in Procs, NEW q \in Repos, Inspect(k, q) PROVE Same \/ Inspect(j, p)
  BY <1>4 DEF Inspect
<1>5. ASSUME NEW k \in Procs, CommitScan(k) PROVE Same
  <2>1. CASE k \in Requests
    <3>1. PICK S \in SUBSET Repos : BeginCheck(k, S, rows', Unsettled(Vanished(found[k])))
      BY <1>5, <2>1 DEF CommitScan
    <3> QED BY <3>1, <1>1
  <2>2. CASE k \notin Requests
    BY <1>5, <2>2 DEF CommitScan
  <2> QED BY <2>1, <2>2
<1>6. ASSUME NEW k \in Procs, StartRetry(k) \/ Disconnect(k) PROVE Same
  <2>1. CASE StartRetry(k)
    BY <2>1 DEF StartRetry, NoJob
  <2>2. CASE Disconnect(k)
    BY <2>2, NoJobsType DEF Disconnect
  <2> QED BY <1>6, <2>1, <2>2
<1>7. CASE Restart
  BY <1>7, NoJobsType DEF Restart
<1>8. ASSUME UNCHANGED job PROVE Same
  BY <1>8
<1> QED
  BY <1>2, <1>3, <1>4, <1>5, <1>6, <1>7, <1>8
  DEF Next, Task, DiskChange, FinishCheck, StartScan, Visit, FailScan, vars,
      Checkers, Scanners, Procs

\* A row changes when a status is saved, or when a scan adds or prunes it.
LEMMA RowsBySaveOrScan ==
    ASSUME CacheInv, [Next]_vars, NEW p \in Repos, rows'[p] # rows[p]
    PROVE  \/ \E k \in Procs : Save(k, p)
           \/ rows[p] = Untracked
           \/ p \notin StillExists
<1> USE DEF CacheInv, CheckScanTypeOK, StoreTypeOK
<1>1. ASSUME NEW k \in Procs, NEW q \in Repos, Save(k, q) PROVE q = p
  BY <1>1 DEF Save, SaveStatus
<1>2. ASSUME NEW up, NEW lost, Apply(up, lost), lost \subseteq Repos \ StillExists
      PROVE  rows[p] = Untracked \/ p \notin StillExists
  BY <1>2 DEF Apply, UpsertThenDelete
<1>3. ASSUME NEW k \in Procs, CommitScan(k) \/ FailScan(k)
      PROVE  rows[p] = Untracked \/ p \notin StillExists
  <2>1. Vanished(found[k]) \subseteq Repos \ StillExists
    BY DEF Vanished, ListPaths
  <2>2. CASE CommitScan(k)
    BY <1>2, <2>1, <2>2 DEF CommitScan
  <2>3. CASE \E up \in SUBSET found[k] : Apply(up, {})
    BY <1>2, <2>3
  <2>4. CASE \E lost \in SUBSET Vanished(found[k]) : Apply(found[k], lost)
    BY <1>2, <2>1, <2>4
  <2> QED BY <1>3, <2>2, <2>3, <2>4 DEF FailScan
<1> QED
  BY <1>1, <1>3
  DEF Next, Task, DiskChange, Restart, OpenDb, StartCheck, StartCheckBlind,
      FinishCheck, Spawn, Inspect, LoseStatus, Visit, StartScan, StartRetry,
      CheckRetried, Disconnect, vars, Checkers, Scanners, Procs

\* What save_status leaves in the row of a tracked repository: what was delivered, or
\* the blank of a race that it took for what the cache holds.
LEMMA SavedRow ==
    ASSUME CacheInv, NEW k \in Procs, NEW p \in Repos, Save(k, p), p \in ListPaths
    PROVE  /\ rows'[p] = job[k][p].json \/ (p \in raced /\ rows'[p] = Null)
           /\ rows[p] = job[k][p].json => rows'[p] = rows[p]
<1> DEFINE s == job[k][p].json
<1> USE DEF CacheInv, CheckScanTypeOK, StoreTypeOK
<1>1. CASE OnDisk(p) # s
  BY <1>1 DEF Save, SaveStatus, ListPaths
<1>2. CASE OnDisk(p) = s
  <2>1. rows' = rows /\ rows[p] # Untracked
    BY <1>2 DEF Save, SaveStatus, ListPaths
  <2>2. rows[p] = s \/ (p \in raced /\ rows[p] = Null)
    BY <1>2, <2>1 DEF OnDisk, StoredJson, RaceFreeInv, BlankAtWorst, ListPaths
  <2> QED BY <2>1, <2>2
<1> QED BY <1>1, <1>2

\* The steps by which the table settles on what is on disk (what Converges needs besides
\* fairness): stale results only die out, a right row stays right from then on, and every
\* fresh result that is saved makes it right or leaves the blank of the pruning race.
THEOREM RowsSettle == Spec => [][SettleStep]_vars
<1>1. CacheInv /\ [Next]_vars => [SettleStep]_vars
  <2> SUFFICES ASSUME CacheInv, [Next]_vars, NEW p \in Repos, disk'[p] = disk[p]
               PROVE  /\ Stale(p)' \subseteq Stale(p)
                      /\ p \in StillExists /\ rows[p] = ComputeStatus(disk[p])
                            /\ Stale(p) = {} => rows'[p] = rows[p]
                      /\ \A k \in Procs \ Stale(p) :
                            Save(k, p) /\ p \in ListPaths
                               => \/ rows'[p] = ComputeStatus(disk[p])
                                  \/ p \in raced /\ rows'[p] = Null
    BY DEF SettleStep
  <2>1. Stale(p)' \subseteq Stale(p)
    <3> SUFFICES ASSUME NEW j \in Procs, job'[j][p].st = "done",
                        job'[j][p].json # ComputeStatus(disk[p])
                 PROVE  job'[j][p] = job[j][p]
      BY DEF Stale, ComputeStatus
    <3>1. ~Inspect(j, p)
      BY DEF Inspect, CacheInv, CheckScanTypeOK
    <3> QED BY <3>1, DoneByInspect
  <2>2. \A k \in Procs \ Stale(p) : Save(k, p) => job[k][p].json = ComputeStatus(disk[p])
    BY DEF Stale, Save
  <2>3. ASSUME p \in StillExists, rows[p] = ComputeStatus(disk[p]), Stale(p) = {},
               rows'[p] # rows[p]
        PROVE  FALSE
    <3>1. rows[p] # Untracked
      BY <2>3, JsonFacts
    <3>2. PICK k \in Procs : Save(k, p)
      BY <2>3, <3>1, RowsBySaveOrScan
    <3>3. job[k][p].json = rows[p]
      BY <2>2, <2>3, <3>2
    <3> QED BY <2>3, <3>1, <3>2, <3>3, SavedRow DEF ListPaths
  <2> QED BY <2>1, <2>2, <2>3, SavedRow
<1> QED BY <1>1, CacheInvariant, PTL DEF Spec

\* What is left of a check, by the state of its job.
JobLeft == [none |-> 0, done |-> 1, running |-> 2, todo |-> 3]

\* A call that is not over only advances: a walk has fewer paths to pass, a check comes
\* closer to its end, and the one change of phase is to the final check.
CallStep ==
    \A k \in Procs : pc[k] # "idle" /\ pc'[k] # "idle" =>
        \/ /\ pc'[k] = pc[k]
           /\ unseen'[k] \subseteq unseen[k]
           /\ \A p \in Repos : JobLeft[job'[k][p].st] <= JobLeft[job[k][p].st]
        \/ pc[k] \in {"walking", "fetching"} /\ pc'[k] = "checking"

\* A check that is over is not on the list any more, and none begins anew.
LEMMA TaskAdvances ==
    ASSUME CheckScanTypeOK, NEW k \in Procs, NEW p \in Repos, Task(k, p),
           NEW j \in Procs, NEW q \in Repos
    PROVE  JobLeft[job'[j][q].st] <= JobLeft[job[j][q].st]
<1> USE DEF CheckScanTypeOK
<1>1. job[j][q].st \in {"none", "todo", "running", "done"}
  BY DEF JobState
<1>2. CASE job'[j][q].st = job[j][q].st
  BY <1>1, <1>2 DEF JobLeft
<1>3. CASE job'[j][q].st # job[j][q].st
  <2>1. j = k /\ q = p
    BY <1>3 DEF Task, Spawn, Inspect, Save, LoseStatus
  <2>2. CASE Spawn(k, p)
    <3>1. job[j][q].st = "todo" /\ job'[j][q].st = "running"
      BY <2>1, <2>2 DEF Spawn
    <3> QED BY <3>1 DEF JobLeft
  <2>3. CASE Inspect(k, p)
    <3>1. job[j][q].st = "running" /\ job'[j][q].st = "done"
      BY <2>1, <2>3 DEF Inspect
    <3> QED BY <3>1 DEF JobLeft
  <2>4. CASE Save(k, p) \/ LoseStatus(k, p)
    <3>1. job'[j][q].st = "none"
      BY <2>1, <2>4 DEF Save, LoseStatus, NoJob
    <3> QED BY <1>1, <3>1 DEF JobLeft
  <2> QED BY <2>2, <2>3, <2>4 DEF Task
<1> QED BY <1>2, <1>3

\* What the end of every call rests on: one that has begun is never set back, by
\* whatever the other processes do meanwhile.
THEOREM CallsOnlyAdvance == Spec => [][CallStep]_vars
<1>1. CheckScanTypeOK /\ [Next]_vars => [CallStep]_vars
  <2> SUFFICES ASSUME CheckScanTypeOK, [Next]_vars, NEW j \in Procs,
                      pc[j] # "idle", pc'[j] # "idle"
               PROVE  \/ /\ pc'[j] = pc[j]
                         /\ unseen'[j] \subseteq unseen[j]
                         /\ \A q \in Repos : JobLeft[job'[j][q].st] <= JobLeft[job[j][q].st]
                      \/ pc[j] \in {"walking", "fetching"} /\ pc'[j] = "checking"
    BY DEF CallStep
  <2> DEFINE Onwards == /\ pc'[j] = pc[j]
                        /\ unseen'[j] \subseteq unseen[j]
                        /\ \A q \in Repos : JobLeft[job'[j][q].st] <= JobLeft[job[j][q].st]
             Turns == pc[j] \in {"walking", "fetching"} /\ pc'[j] = "checking"
  <2>a. /\ pc \in [Procs -> Phase] /\ unseen \in [Procs -> SUBSET Repos]
        /\ \A q \in Repos : job[j][q].st \in {"none", "todo", "running", "done"}
    BY DEF CheckScanTypeOK, JobState
  <2>1. ASSUME pc'[j] = pc[j], unseen'[j] \subseteq unseen[j], job'[j] = job[j]
        PROVE  Onwards
    <3>1. ASSUME NEW q \in Repos PROVE JobLeft[job'[j][q].st] <= JobLeft[job[j][q].st]
      BY <2>1, <2>a DEF JobLeft
    <3> QED BY <2>1, <3>1
  <2>2. ASSUME NEW k \in Procs, NEW S \in SUBSET Repos, NEW r, NEW m,
               BeginCheck(k, S, r, m), k # j, unseen' = unseen
        PROVE  Onwards
    <3>1. pc'[j] = pc[j] /\ job'[j] = job[j]
      BY <2>2, BeginJobs
    <3> QED BY <2>1, <2>2, <3>1
  <2>3. ASSUME NEW k \in Procs, StartCheck(k) \/ StartCheckBlind(k) PROVE Onwards
    <3>1. PICK S \in SUBSET Repos : BeginCheck(k, S, rows, moved)
      BY <2>3 DEF StartCheck, StartCheckBlind, ListPaths
    <3> QED BY <2>2, <2>3, <3>1 DEF StartCheck, StartCheckBlind
  <2>4. ASSUME NEW k \in Procs, FinishCheck(k) PROVE Onwards
    BY <2>1, <2>4, <2>a DEF FinishCheck
  <2>5. ASSUME NEW k \in Procs, NEW p \in Repos, Task(k, p) PROVE Onwards
    <3>1. pc' = pc /\ unseen' = unseen
      BY <2>5 DEF Task, Spawn, Inspect, Save, LoseStatus
    <3> QED BY <2>5, <3>1, TaskAdvances
  <2>6. ASSUME NEW k \in Procs, StartScan(k) PROVE Onwards
    BY <2>1, <2>6, <2>a DEF StartScan
  <2>7. ASSUME NEW k \in Procs, NEW p \in Repos, Visit(k, p) PROVE Onwards
    BY <2>1, <2>7, <2>a DEF Visit
  <2>8. ASSUME NEW k \in Procs, CommitScan(k) PROVE Onwards \/ Turns
    <3>1. pc[k] = "walking" /\ unseen' = unseen
      BY <2>8 DEF CommitScan
    <3>2. CASE k \notin Requests
      BY <2>1, <2>8, <3>1, <3>2, <2>a DEF CommitScan
    <3>3. CASE k \in Requests
      <4>1. PICK S \in SUBSET Repos : BeginCheck(k, S, rows', Unsettled(Vanished(found[k])))
        BY <2>8, <3>3 DEF CommitScan
      <4>2. CASE k = j
        BY <3>1, <4>1, <4>2, BeginJobs
      <4> QED BY <2>2, <3>1, <4>1, <4>2
    <3> QED BY <3>2, <3>3
  <2>9. ASSUME NEW k \in Procs, FailScan(k) PROVE Onwards
    BY <2>1, <2>9, <2>a DEF FailScan
  <2>10. ASSUME NEW k \in Procs, StartRetry(k) PROVE Onwards
    <3>1. k # j /\ pc'[j] = pc[j] /\ unseen' = unseen
      BY <2>10, <2>a DEF StartRetry
    <3>2. job'[j] = job[j]
      BY <2>10, <3>1 DEF StartRetry, CheckScanTypeOK
    <3> QED BY <2>1, <3>1, <3>2
  <2>11. ASSUME NEW k \in Procs, CheckRetried(k) PROVE Onwards \/ Turns
    <3>1. pc[k] = "fetching" /\ unseen' = unseen /\ BeginCheck(k, Listed(k), rows, moved)
      BY <2>11 DEF CheckRetried
    <3>2. Listed(k) \in SUBSET Repos
      BY DEF Listed
    <3>3. CASE k = j
      BY <3>1, <3>2, <3>3, BeginJobs
    <3> QED BY <2>2, <3>1, <3>2, <3>3
  <2>12. ASSUME NEW k \in Procs, Disconnect(k) PROVE Onwards
    <3>1. k # j /\ pc'[j] = pc[j] /\ unseen'[j] = unseen[j]
      BY <2>12, <2>a DEF Disconnect
    <3>2. job'[j] = job[j]
      BY <2>12, <3>1 DEF Disconnect, CheckScanTypeOK
    <3> QED BY <2>1, <3>1, <3>2
  <2>13. ~Restart
    BY DEF Restart
  <2>14. ASSUME UNCHANGED <<pc, unseen, job>> PROVE Onwards
    BY <2>1, <2>14
  <2> QED
    BY <2>3, <2>4, <2>5, <2>6, <2>7, <2>8, <2>9, <2>10, <2>11, <2>12, <2>13, <2>14
    DEF Next, DiskChange, vars, Checkers, Scanners, Procs
<1> QED BY <1>1, InitType, TypeInductive, PTL DEF Spec

-----------------------------------------------------------------------------
(* The semaphore of a call.                                                *)

\* The checks of one call that have a permit, their results still to be saved included,
\* are at most as many as its semaphore has.
CallBounded ==
    \A k \in Procs : IsFiniteSet(Permits(k)) /\ Cardinality(Permits(k)) <= Concurrency

\* A call that is not over can end, or has a check that has its permit, or one that can
\* be given one.
CallGoesOn ==
    \A k \in Procs : pc[k] = "checking" =>
        \/ Listed(k) = {}
        \/ \E p \in Repos : job[k][p].st \in {"running", "done"}
        \/ \E p \in Repos : job[k][p].st = "todo" /\ Cardinality(Permits(k)) < Concurrency

\* Whoever gets no new permit keeps within the bound.
LEMMA FewerPermits ==
    ASSUME CallBounded, NEW k \in Procs, Permits(k)' \subseteq Permits(k)
    PROVE  IsFiniteSet(Permits(k)') /\ Cardinality(Permits(k)') <= Concurrency
<1>1. IsFiniteSet(Permits(k)) /\ Cardinality(Permits(k)) <= Concurrency
  BY DEF CallBounded
<1>2. IsFiniteSet(Permits(k)') /\ Cardinality(Permits(k)') <= Cardinality(Permits(k))
  BY <1>1, FS_Subset
<1>3. Cardinality(Permits(k)) \in Nat /\ Cardinality(Permits(k)') \in Nat
  BY <1>1, <1>2, FS_CardinalityType
<1> QED BY <1>1, <1>2, <1>3, CheckScanAssumption DEF CheckScanAssumption

LEMMA CallBoundedInductive ==
    CheckScanTypeOK /\ CallBounded /\ [Next]_vars => CallBounded'
<1> SUFFICES ASSUME CheckScanTypeOK, CallBounded, [Next]_vars, NEW j \in Procs
             PROVE  IsFiniteSet(Permits(j)') /\ Cardinality(Permits(j)') <= Concurrency
  BY DEF CallBounded
<1> USE DEF CheckScanTypeOK
<1> DEFINE Fewer == Permits(j)' \subseteq Permits(j)
<1>1. ASSUME job'[j] = job[j] PROVE Fewer
  BY <1>1 DEF Permits
<1>2. ASSUME \A p \in Repos : job'[j][p].st \in {"none", "todo"} PROVE Fewer
  BY <1>2 DEF Permits
<1>3. ASSUME NEW k \in Procs, NEW S \in SUBSET Repos, NEW r, NEW m, BeginCheck(k, S, r, m)
      PROVE  Fewer
  <2>a. /\ \A i \in Procs \ {k} : job'[i] = job[i]
        /\ \A p \in S : job'[k][p].st = "todo"
        /\ \A p \in Repos \ S : job'[k][p].st = "none"
    BY <1>3, BeginJobs
  <2>1. CASE k = j
    BY <1>2, <2>a, <2>1
  <2>2. CASE k # j
    BY <1>1, <2>a, <2>2
  <2> QED BY <2>1, <2>2
<1>4. ASSUME NEW k \in Procs, StartCheck(k) \/ StartCheckBlind(k) \/ CheckRetried(k)
      PROVE  Fewer
  <2>1. PICK S \in SUBSET Repos : BeginCheck(k, S, rows, moved)
    BY <1>4 DEF StartCheck, StartCheckBlind, CheckRetried, ListPaths, Listed
  <2> QED BY <1>3, <2>1
<1>5. ASSUME NEW k \in Procs, NEW p \in Repos, Inspect(k, p) \/ Save(k, p) \/ LoseStatus(k, p)
      PROVE  Fewer
  <2>1. CASE k # j
    BY <1>1, <1>5, <2>1 DEF Inspect, Save, LoseStatus
  <2>2. CASE k = j
    <3>1. job[j][p].st \in {"running", "done"}
      BY <1>5, <2>2 DEF Inspect, Save, LoseStatus
    <3>2. \A q \in Repos \ {p} : job'[j][q] = job[j][q]
      BY <1>5, <2>2 DEF Inspect, Save, LoseStatus
    <3> QED BY <3>1, <3>2 DEF Permits
  <2> QED BY <2>1, <2>2
<1>6. ASSUME NEW k \in Procs, CommitScan(k) PROVE Fewer
  <2>1. CASE k \in Requests
    <3>1. PICK S \in SUBSET Repos : BeginCheck(k, S, rows', Unsettled(Vanished(found[k])))
      BY <1>6, <2>1 DEF CommitScan
    <3> QED BY <1>3, <3>1
  <2>2. CASE k \notin Requests
    BY <1>1, <1>6, <2>2 DEF CommitScan
  <2> QED BY <2>1, <2>2
<1>7. ASSUME NEW k \in Procs, StartRetry(k) \/ Disconnect(k) PROVE Fewer
  <2>1. CASE k # j
    BY <1>1, <1>7, <2>1 DEF StartRetry, Disconnect
  <2>2. CASE k = j /\ StartRetry(k)
    <3>1. PICK S \in SUBSET Repos :
             job' = [job EXCEPT ![k] = [p \in Repos |->
                        IF p \in S THEN [st |-> "todo", json |-> Null] ELSE NoJob]]
      BY <2>2 DEF StartRetry, ListPaths
    <3>2. \A p \in Repos : job'[j][p].st \in {"none", "todo"}
      BY <2>2, <3>1 DEF NoJob
    <3> QED BY <1>2, <3>2
  <2>3. CASE k = j /\ Disconnect(k)
    BY <1>2, <2>3, NoJobsType DEF Disconnect
  <2> QED BY <1>7, <2>1, <2>2, <2>3
<1>8. ASSUME Restart PROVE Fewer
  <2>1. job'[j] = NoJobs
    BY <1>8 DEF Restart
  <2>2. \A p \in Repos : job'[j][p].st = "none"
    BY <2>1, NoJobsType
  <2> QED BY <1>2, <2>2
<1>9. ASSUME NEW k \in Procs, NEW p \in Repos, Spawn(k, p)
      PROVE  IsFiniteSet(Permits(j)') /\ Cardinality(Permits(j)') <= Concurrency
  <2>1. CASE k # j
    <3>1. job'[j] = job[j]
      BY <1>9, <2>1 DEF Spawn
    <3> QED BY <1>1, <3>1, FewerPermits
  <2>2. CASE k = j
    <3>1. Cardinality(Permits(j)) < Concurrency
      BY <1>9, <2>2 DEF Spawn
    <3>2. Permits(j)' = Permits(j) \cup {p}
      <4>1. job'[j][p].st = "running" /\ \A q \in Repos \ {p} : job'[j][q] = job[j][q]
        BY <1>9, <2>2 DEF Spawn
      <4> QED BY <4>1 DEF Permits
    <3> DEFINE before == Permits(j)
               more == before \cup {p}
    <3>3. IsFiniteSet(before) /\ Permits(j)' = more
      BY <3>2 DEF CallBounded
    <3>4. Cardinality(before) < Concurrency
      BY <3>1
    <3> HIDE DEF before
    <3>5. /\ IsFiniteSet(more)
          /\ Cardinality(more) \in {Cardinality(before), Cardinality(before) + 1}
      BY <3>3, FS_AddElement
    <3>6. Cardinality(before) \in Nat
      BY <3>3, FS_CardinalityType
    <3> QED BY <3>3, <3>4, <3>5, <3>6, CheckScanAssumption DEF CheckScanAssumption
  <2> QED BY <2>1, <2>2
<1>10. ASSUME UNCHANGED job PROVE Fewer
  BY <1>1, <1>10
<1> QED
  BY <1>4, <1>5, <1>6, <1>7, <1>8, <1>9, <1>10, FewerPermits
  DEF Next, Task, DiskChange, FinishCheck, StartScan, Visit, FailScan, vars,
      Checkers, Scanners, Procs

\* What is true of ConcurrencyBounded, which TLC refutes: the bound of src/main.rs:24 holds
\* for each call, and the permits of a call are never used up by checks that are over, so
\* that it does not wait for ever for one of them.
THEOREM CallsKeepTheirPermits == Spec => [](CallBounded /\ CallGoesOn)
<1>1. Init => CallBounded
  <2> SUFFICES ASSUME Init, NEW k \in Procs
               PROVE  IsFiniteSet(Permits(k)) /\ Cardinality(Permits(k)) <= Concurrency
    BY DEF CallBounded
  <2>1. Permits(k) = {}
    BY NoJobsType DEF Init, Permits
  <2> QED BY <2>1, FS_EmptySet, CheckScanAssumption DEF CheckScanAssumption
<1>2. CheckScanTypeOK => CallGoesOn
  <2> SUFFICES ASSUME CheckScanTypeOK, NEW k \in Procs, Listed(k) # {},
                      \A p \in Repos : job[k][p].st \notin {"running", "done"}
               PROVE  \E p \in Repos : /\ job[k][p].st = "todo"
                                       /\ Cardinality(Permits(k)) < Concurrency
    BY DEF CallGoesOn
  <2>1. PICK p \in Repos : job[k][p].st # "none"
    BY DEF Listed
  <2>2. job[k][p].st = "todo"
    BY <2>1 DEF CheckScanTypeOK, JobState
  <2>3. Permits(k) = {}
    BY DEF Permits
  <2> QED BY <2>2, <2>3, FS_EmptySet, CheckScanAssumption DEF CheckScanAssumption
<1> QED
  BY <1>1, <1>2, CallBoundedInductive, InitType, TypeInductive, PTL DEF Spec

\* Steps that neither produce nor consume an inspection leave Pending alone.
LEMMA PendingFrame ==
    ASSUME \A k \in Procs, p \in Repos : job'[k][p].json = job[k][p].json
    PROVE  Pending' = Pending
BY DEF Pending

LEMMA BeginPending ==
    ASSUME CacheInv, NEW k \in Procs, pc[k] # "checking", NEW S \in SUBSET Repos,
           NEW r, NEW m, BeginCheck(k, S, r, m)
    PROVE  Pending' = Pending
<1>1. ASSUME NEW p \in Repos PROVE job[k][p].json = Null
  <2>1. job[k][p].st # "done"
    <3>1. pc[k] \in {"idle", "walking", "fetching"}
      BY DEF CacheInv, CheckScanTypeOK, Phase
    <3> QED BY <3>1 DEF CacheInv, PhaseInv, NoJob
  <2> QED BY <2>1 DEF CacheInv, CheckScanTypeOK
<1>2. /\ \A j \in Procs \ {k} : job'[j] = job[j]
      /\ \A p \in Repos : job'[k][p].json = Null
  BY BeginJobs DEF CacheInv
<1>3. \A j \in Procs, p \in Repos : job'[j][p].json = job[j][p].json
  BY <1>1, <1>2
<1> QED BY <1>3, PendingFrame

LEMMA BoardInit == Init => Board!Init
BY NoJobsType DEF Init, Board!Init, Pending

LEMMA BoardStep == CacheInv /\ [Next]_vars => [Board!Next]_(Board!boardVars)
<1> SUFFICES ASSUME CacheInv, [Next]_vars
             PROVE  Board!Next \/ UNCHANGED <<rows, Pending, raced>>
  BY DEF Board!boardVars
<1> DEFINE Stutter == UNCHANGED <<rows, Pending, raced>>
<1> USE DEF CacheInv, CheckScanTypeOK
<1>1. ASSUME NEW p \in Repos, DiskChange(p) PROVE Stutter
  BY <1>1, PendingFrame DEF DiskChange
<1>2. CASE Restart
  <2>1. Board!Reset
    BY <1>2, NoJobsType DEF Restart, OpenDb, Board!Reset, Pending
  <2> QED BY <2>1 DEF Board!Next
<1>3. ASSUME NEW k \in Procs, StartCheck(k) \/ StartCheckBlind(k) PROVE Stutter
  <2>1. Pending' = Pending
    BY <1>3, BeginPending DEF StartCheck, StartCheckBlind, ListPaths
  <2> QED BY <1>3, <2>1 DEF StartCheck, StartCheckBlind
<1>4. ASSUME NEW k \in Procs, CheckRetried(k) PROVE Stutter
  <2>1. Pending' = Pending
    BY <1>4, BeginPending DEF CheckRetried, Listed
  <2> QED BY <1>4, <2>1 DEF CheckRetried
<1>5. ASSUME NEW k \in Procs, NEW p \in Repos, Spawn(k, p) PROVE Stutter
  <2>1. job[k][p].json = Null
    BY <1>5 DEF Spawn
  <2>2. \A j \in Procs, q \in Repos : job'[j][q].json = job[j][q].json
    BY <1>5, <2>1 DEF Spawn
  <2> QED BY <1>5, <2>2, PendingFrame DEF Spawn
<1>6. ASSUME NEW k \in Procs, NEW p \in Repos, Inspect(k, p) PROVE Board!Next
  <2>1. Pending' = [Pending EXCEPT ![k][p] = ComputeStatus(disk[p])]
    BY <1>6 DEF Inspect, Pending
  <2>2. Board!Observe(k, p)
    BY <1>6, <2>1, JsonFacts DEF Inspect, Board!Observe
  <2> QED BY <2>2 DEF Board!Next
<1>7. ASSUME NEW k \in Procs, NEW p \in Repos, Save(k, p) PROVE Board!Next
  <2>1. Pending' = [Pending EXCEPT ![k][p] = Null]
    BY <1>7 DEF Save, Pending, NoJob
  <2>2. Pending[k][p] = job[k][p].json /\ Pending[k][p] # Null
    BY <1>7 DEF Save, Pending
  <2>3. \/ rows' = IF rows[p] = Untracked THEN rows ELSE [rows EXCEPT ![p] = Pending[k][p]]
        \/ p \in raced /\ rows' = rows
    <3>1. CASE p \notin ListPaths
      BY <1>7, <3>1 DEF Save, SaveStatus, ListPaths
    <3>2. CASE p \in ListPaths /\ OnDisk(p) # job[k][p].json
      BY <1>7, <3>2, <2>2 DEF Save, SaveStatus, ListPaths
    <3>3. CASE p \in ListPaths /\ OnDisk(p) = job[k][p].json
      <4>1. rows' = rows /\ rows[p] # Untracked
        BY <1>7, <3>3 DEF Save, SaveStatus, ListPaths
      <4>2. cache[p] = Null \/ p \notin raced => rows[p] = job[k][p].json
        BY <3>3, <4>1 DEF OnDisk, StoredJson, RaceFreeInv
      <4>3. rows[p] = job[k][p].json => rows = [rows EXCEPT ![p] = job[k][p].json]
        BY DEF StoreTypeOK
      <4> QED BY <4>1, <4>2, <4>3, <2>2
    <3> QED BY <3>1, <3>2, <3>3
  <2>4. Board!Deliver(k, p)
    BY <1>7, <2>1, <2>2, <2>3 DEF Save, Board!Deliver
  <2> QED BY <2>4 DEF Board!Next
<1>8. ASSUME NEW k \in Procs, NEW p \in Repos, LoseStatus(k, p) PROVE Board!Next
  <2>1. Pending' = [Pending EXCEPT ![k] = [q \in Repos |->
                       IF q \in Repos \ {p} THEN Pending[k][q] ELSE Null]]
    BY <1>8 DEF LoseStatus, Pending, NoJob
  <2>2. Board!Forget(k)
    BY <1>8, <2>1 DEF LoseStatus, Board!Forget
  <2> QED BY <2>2 DEF Board!Next
<1>9. ASSUME NEW k \in Procs,
             FinishCheck(k) \/ StartScan(k) \/ \E p \in Repos : Visit(k, p)
      PROVE  Stutter
  BY <1>9, PendingFrame DEF FinishCheck, StartScan, Visit
<1>10. ASSUME NEW up \in SUBSET Repos, NEW lost \in SUBSET Repos, Apply(up, lost),
              Pending' = Pending
       PROVE  Board!Next
  <2>1. lost \cap UnderWay \in SUBSET lost
    OBVIOUS
  <2>2. Board!Revise(up, lost)
    BY <1>10, <2>1 DEF Apply, UpsertThenDelete, Board!Revise
  <2> QED BY <2>2 DEF Board!Next
<1>11. ASSUME NEW k \in Procs, CommitScan(k) PROVE Board!Next
  <2>1. found[k] \in SUBSET Repos /\ Vanished(found[k]) \in SUBSET Repos
    BY DEF Vanished, ListPaths
  <2>2. Pending' = Pending
    <3>1. CASE k \in Requests
      <4>1. PICK S \in SUBSET Repos : BeginCheck(k, S, rows', Unsettled(Vanished(found[k])))
        BY <1>11, <3>1 DEF CommitScan
      <4>2. pc[k] # "checking"
        BY <1>11 DEF CommitScan
      <4> QED BY <4>1, <4>2, BeginPending
    <3>2. CASE k \notin Requests
      BY <1>11, <3>2, PendingFrame DEF CommitScan
    <3> QED BY <3>1, <3>2
  <2>3. Apply(found[k], Vanished(found[k]))
    BY <1>11 DEF CommitScan
  <2> QED BY <2>1, <2>2, <2>3, <1>10
<1>12. ASSUME NEW k \in Procs, FailScan(k) PROVE Board!Next
  <2>1. found[k] \in SUBSET Repos /\ Vanished(found[k]) \in SUBSET Repos
    BY DEF Vanished, ListPaths
  <2>2. Pending' = Pending
    BY <1>12, PendingFrame DEF FailScan
  <2>3. CASE \E up \in SUBSET found[k] : Apply(up, {})
    BY <2>1, <2>2, <2>3, <1>10
  <2>4. CASE \E lost \in SUBSET Vanished(found[k]) : Apply(found[k], lost)
    BY <2>1, <2>2, <2>4, <1>10
  <2> QED BY <1>12, <2>3, <2>4 DEF FailScan
<1>13. ASSUME NEW k \in Procs, StartRetry(k) PROVE Stutter
  <2>1. \A p \in Repos : job[k][p].json = Null
    BY <1>13 DEF StartRetry, PhaseInv, NoJob
  <2>2. \A j \in Procs, p \in Repos : job'[j][p].json = job[j][p].json
    BY <1>13, <2>1 DEF StartRetry, NoJob
  <2> QED BY <1>13, <2>2, PendingFrame DEF StartRetry
<1>14. ASSUME NEW k \in Procs, Disconnect(k) PROVE Board!Next
  <2>1. Pending' = [Pending EXCEPT ![k] = [q \in Repos |->
                       IF q \in {} THEN Pending[k][q] ELSE Null]]
    BY <1>14, NoJobsType DEF Disconnect, Pending
  <2>2. \E kept \in SUBSET Repos :
           Pending' = [Pending EXCEPT ![k] = [q \in Repos |->
                          IF q \in kept THEN Pending[k][q] ELSE Null]]
    <3> WITNESS {} \in SUBSET Repos
    <3> QED BY <2>1
  <2>3. Board!Forget(k)
    BY <1>14, <2>2 DEF Disconnect, Board!Forget
  <2> QED BY <2>3 DEF Board!Next
<1>15. CASE UNCHANGED vars
  BY <1>15, PendingFrame DEF vars
<1> QED
  BY <1>1, <1>2, <1>3, <1>4, <1>5, <1>6, <1>7, <1>8, <1>9, <1>11, <1>12, <1>13,
     <1>14, <1>15
  DEF Next, Task, Checkers, Scanners, Procs

\* The server with its cache implements the board without one.
THEOREM ImplementsBoard == Spec => WriteThrough
BY BoardInit, BoardStep, CacheInvariant, PTL DEF Spec, WriteThrough, Board!Spec
=============================================================================
