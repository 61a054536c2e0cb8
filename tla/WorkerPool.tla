------------------------------ MODULE WorkerPool ------------------------------
(***************************************************************************)
(* tokio's pool of blocking threads and the passes that send work to it:   *)
(* check_paths and fetch_paths of src/main.rs, called by their loops, and  *)
(* GET /repos/{id}/details of src/api.rs.  The other modules give each job *)
(* a thread at once; here threads are scarce, jobs wait for one in a       *)
(* queue, and a job that was sent runs sooner or later even if nobody      *)
(* waits for it any more.  Of a job only its kind matters: does it inspect *)
(* the disk, or does it wait for git, which may hang for ever?             *)
(*                                                                         *)
(* All state is in memory, so that a restart leads to PoolInit again.      *)
(***************************************************************************)
EXTENDS Naturals, Sequences, FiniteSets, SequencesExt, FiniteSetsExt

CONSTANTS
    Repos,        \* the tracked paths
    CheckLoop,    \* the task check_loop
    FetchLoop,    \* the task fetch_loop
    Cards,        \* slots for requests of hover cards
    Nobody,       \* nobody waits for the job any more
    Threads,      \* threads of the blocking pool (512 in tokio)
    Concurrency,  \* permits of the semaphore of one pass
    MaxJobs       \* bound: no pass begins with so many jobs in the pool

ASSUME WorkerPoolAssumption ==
    /\ CheckLoop # FetchLoop
    /\ Cards \cap {CheckLoop, FetchLoop} = {}
    /\ Nobody \notin Cards \cup {CheckLoop, FetchLoop}
    /\ IsFiniteSet(Cards)
    /\ Threads \in Nat \ {0}
    /\ Concurrency \in Nat \ {0}
    /\ MaxJobs \in Nat \ {0}

Procs == Cards \cup {CheckLoop, FetchLoop}

VARIABLES
    pool,  \* the jobs in the order they were sent; the first Threads of them run
    busy,  \* the loops in a pass, and the requests not answered yet
    task   \* task[k][p]: how far k is with p

poolVars == <<pool, busy, task>>

\* "listed": waiting for a permit; "sent": the job is in the pool; "done": it has ended,
\* or panicked, and the runtime has not resumed the task yet.
WorkerPoolTypeOK ==
    /\ pool \in Seq([git : BOOLEAN, path : Repos, by : Procs \cup {Nobody}])
    /\ busy \in SUBSET Procs
    /\ task \in [Procs -> [Repos -> {"none", "listed", "sent", "done"}]]

None == [p \in Repos |-> "none"]

PoolInit ==
    /\ pool = << >>
    /\ busy = {}
    /\ task = [k \in Procs |-> None]

-----------------------------------------------------------------------------
(* The pool.                                                               *)

\* spawn_blocking: the job has a thread, or gets one when its turn comes.
SpawnBlocking(k, p) == Append(pool, [git |-> k = FetchLoop, path |-> p, by |-> k])

Running == 1 .. Min({Threads, Len(pool)})

\* The handles of k's jobs for S are dropped.  The jobs stay, also those not yet begun.
Abandon(k, S) ==
    pool' = [n \in DOMAIN pool |->
                IF pool[n].by = k /\ pool[n].path \in S
                THEN [pool[n] EXCEPT !.by = Nobody] ELSE pool[n]]

\* Variant: who waits for a job that panics is not told.
EndSilent(n) ==
    /\ pool' = RemoveAt(pool, n)
    /\ \/ /\ pool[n].by # Nobody
          /\ task' = [task EXCEPT ![pool[n].by][pool[n].path] = "done"]
       \/ UNCHANGED task
    /\ UNCHANGED busy

\* A job that has a thread returns or panics, or git exits; the next one gets the thread.
End(n) ==
    /\ pool' = RemoveAt(pool, n)
    /\ task' = IF pool[n].by = Nobody THEN task
               ELSE [task EXCEPT ![pool[n].by][pool[n].path] = "done"]
    /\ UNCHANGED busy

-----------------------------------------------------------------------------
(* The passes.                                                             *)

\* Variant: the permit is dropped when the task begins, not when it ends.
PermitsDropped(k) == {p \in Repos : task[k][p] = "done"}

Permits(k) == {p \in Repos : task[k][p] \in {"sent", "done"}}

Begin(k, S) ==
    /\ k \notin busy
    /\ Len(pool) < MaxJobs
    /\ busy' = busy \cup {k}
    /\ task' = [task EXCEPT ![k] = [p \in Repos |-> IF p \in S THEN "listed" ELSE "none"]]
    /\ UNCHANGED pool

\* check_all lists every path, fetch_loop those that are not in backoff.
BeginCheck == Begin(CheckLoop, Repos)
BeginFetch == \E S \in SUBSET Repos : Begin(FetchLoop, S)

\* GET /repos/{id}/details takes no permit.
RequestCard(k, p) ==
    /\ k \notin busy
    /\ Len(pool) < MaxJobs
    /\ busy' = busy \cup {k}
    /\ task' = [task EXCEPT ![k][p] = "sent"]
    /\ pool' = SpawnBlocking(k, p)

\* The pass goes on when it gets a permit.
Spawn(k, p) ==
    /\ task[k][p] = "listed"
    /\ Cardinality(Permits(k)) < Concurrency
    /\ task' = [task EXCEPT ![k][p] = "sent"]
    /\ pool' = SpawnBlocking(k, p)
    /\ UNCHANGED busy

\* The task saves or records the result, or logs the panic, and gives its permit back.
Resume(k, p) ==
    /\ task[k][p] = "done"
    /\ task' = [task EXCEPT ![k][p] = "none"]
    /\ UNCHANGED <<pool, busy>>

\* Variant: the time limit counts from when git begins.
TimeoutRunning(p) ==
    /\ task[FetchLoop][p] = "sent"
    /\ \E n \in Running : pool[n].by = FetchLoop /\ pool[n].path = p
    /\ task' = [task EXCEPT ![FetchLoop][p] = "none"]
    /\ Abandon(FetchLoop, {p})
    /\ UNCHANGED busy

\* FETCH_TIMEOUT counts from spawn_blocking on, also while the job waits for a thread.
Timeout(p) ==
    /\ task[FetchLoop][p] = "sent"
    /\ task' = [task EXCEPT ![FetchLoop][p] = "none"]
    /\ Abandon(FetchLoop, {p})
    /\ UNCHANGED busy

\* All tasks are joined, or the card is answered.
Finish(k) ==
    /\ k \in busy
    /\ task[k] = None
    /\ busy' = busy \ {k}
    /\ UNCHANGED <<pool, task>>

\* The client of a card is gone.
Disconnect(k) ==
    /\ k \in busy
    /\ busy' = busy \ {k}
    /\ task' = [task EXCEPT ![k] = None]
    /\ Abandon(k, Repos)

-----------------------------------------------------------------------------
PoolNext ==
    \/ \E n \in Running : End(n)
    \/ BeginCheck
    \/ BeginFetch
    \/ \E k \in Cards : Disconnect(k) \/ \E p \in Repos : RequestCard(k, p)
    \/ \E k \in Procs : Finish(k)
    \/ \E k \in Procs, p \in Repos : Spawn(k, p) \/ Resume(k, p)
    \/ \E p \in Repos : Timeout(p)

PoolSpec == PoolInit /\ [][PoolNext]_poolVars

\* The runtime polls what can go on and fires its timers.  That a job ends is not
\* assumed: neither git nor a repository on a dead network mount need ever return.
PoolFairness ==
    /\ \A k \in Procs : WF_poolVars(Finish(k))
    /\ \A k \in Procs, p \in Repos : WF_poolVars(Spawn(k, p)) /\ WF_poolVars(Resume(k, p))
    /\ \A p \in Repos : WF_poolVars(Timeout(p))

FairPoolSpec == PoolSpec /\ PoolFairness

-----------------------------------------------------------------------------
Abandoned == {n \in DOMAIN pool : pool[n].by = Nobody}

\* The jobs that both passes and all cards together can wait for at a time.
Share == 2 * Concurrency + Cardinality(Cards)

\* A job that somebody waits for has a thread at once, unless so many fetches or cards
\* were given up that the jobs they left behind do not leave a share for everybody:
\* passes that overlap, each with a semaphore of its own, do not starve one another.
OnlyGivenUpStarves ==
    Cardinality(Abandoned) + Share <= Threads
        => \A n \in DOMAIN pool : pool[n].by # Nobody => n \in Running

\* "a short hard timeout so an unreachable or password-prompting remote can't wedge the
\* loop" (src/fetch.rs:13): the fetch loop gets through its cycle even if nothing that
\* runs on the pool ever ends, all threads are taken and two repositories share a permit.
NeverWedged == []<>(FetchLoop \notin busy)

\* Every disk job that has a thread ends.
DiskJobsEnd ==
    \A k \in Procs \cup {Nobody}, p \in Repos :
        WF_poolVars(\E n \in Running :
                    /\ pool[n] = [git |-> FALSE, path |-> p, by |-> k]
                    /\ \A i \in 1 .. n - 1 : pool[i] # pool[n]
                    /\ End(n))

\* git does not hold all threads for ever.
GitLeavesAThread == []<>(Len(pool) < Threads \/ \E n \in Running : ~pool[n].git)

\* Passes of the check loop end and hover cards are answered, as long as git leaves a
\* thread now and then and inspections end: no thread, permit or place in the queue is lost
\* to abandoned fetches that run or still wait to run.
PassesEnd ==
    DiskJobsEnd /\ GitLeavesAThread => \A k \in Procs : []<>(k \notin busy)

-----------------------------------------------------------------------------
(* What comments of the repository say, and the code does not do.          *)

\* "CPU-bound git work is still offloaded to the blocking pool via spawn_blocking,
\* keeping the API responsive" (src/main.rs:29): as PassesEnd, whatever git does.
ApiResponsive == DiskJobsEnd => \A k \in Cards : []<>(k \notin busy)

\* FETCH_TIMEOUT is an "upper bound on how long a single fetch may run before we consider
\* it stuck" (src/fetch.rs:45): a fetch that is given up has run.
GivenUpHasRun ==
    [][\A p \in Repos :
          task[FetchLoop][p] = "sent" /\ task'[FetchLoop][p] = "none"
              => \E n \in Running : pool[n].by = FetchLoop /\ pool[n].path = p]_poolVars

\* One fetch of a repository runs at a time.
OneGitPerRepo ==
    \A i, j \in Running :
        pool[i].git /\ pool[j].git /\ pool[i].path = pool[j].path => i = j
=============================================================================
