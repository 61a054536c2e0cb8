--------------------------------- MODULE Loops ---------------------------------
(***************************************************************************)
(* The three background tasks of src/main.rs and the two Notify objects by *)
(* which they wake each other: scan_loop wakes check_loop and fetch_loop,  *)
(* fetch_loop wakes check_loop.                                            *)
(*                                                                         *)
(* The question is whether work is ever forgotten.  A path that a scan     *)
(* inserts is owed a fetch and a check, one whose remote refs a fetch has  *)
(* advanced is owed a check; the intervals of the loops are minutes to a   *)
(* day, so "promptly" has to come from the notifications.  What a scan     *)
(* finds, how statuses reach the table and how a fetch is delayed are the  *)
(* subjects of CheckScan and FetchBackoff: here a scan may insert and      *)
(* delete any paths, and a fetch may or may not advance the refs.  API     *)
(* requests neither notify nor are notified and are left out.              *)
(***************************************************************************)
EXTENDS Naturals

CONSTANTS
    Repos,         \* the paths a scan may find
    FetchEnabled,  \* fetch_enabled of the configuration
    MaxDue         \* bound on the ticks an interval may fall behind

ASSUME LoopsAssumption == FetchEnabled \in BOOLEAN /\ MaxDue \in Nat \ {0}

Loop == {"scan", "check", "fetch"}
Notified == {"check", "fetch"}   \* the loops that have a Notify
Started == IF FetchEnabled THEN Loop ELSE Loop \ {"fetch"}

VARIABLES
    tracked,   \* paths with a row
    ghosts,    \* paths with a cache entry but without a row it belongs to
    busy,      \* the loops that are not waiting for a tick or a notification
    due,       \* due[l]: ticks of l's interval that have elapsed unconsumed
    permit,    \* permit[l]: the Notify of l holds a permit
    job,       \* job[p]: check_paths' task for p
    fetching,  \* paths of the current fetch_paths call that are not done
    (* History: no guard reads it. *)
    owed,      \* owed[l]: paths for which l has something to do that is not done
    slipped    \* slipped[l]: those of them l has failed to do because of an error

vars == <<tracked, ghosts, busy, due, permit, job, fetching, owed, slipped>>

\* "todo": listed; "fresh": inspected, not saved; "old": so, and overtaken since.
JobState == {"none", "todo", "fresh", "old"}

LoopsTypeOK ==
    /\ tracked \in SUBSET Repos
    /\ ghosts \in SUBSET Repos
    /\ busy \in SUBSET Started
    /\ due \in [Loop -> 0 .. MaxDue]
    /\ permit \in [Notified -> BOOLEAN]
    /\ job \in [Repos -> JobState]
    /\ fetching \in SUBSET Repos
    /\ owed \in [Notified -> SUBSET Repos]
    /\ slipped \in [Notified -> SUBSET Repos]

-----------------------------------------------------------------------------
NoJobs == [p \in Repos |-> "none"]

\* An inspection that is not saved yet is overtaken by a change of its path.
Overtake(S) == [p \in Repos |-> IF p \in S /\ job[p] = "fresh" THEN "old" ELSE job[p]]

\* Loops fresh from main: the first tick of an interval completes at once.
Init ==
    /\ tracked \in SUBSET Repos
    /\ ghosts = {}
    /\ busy = {}
    /\ due = [l \in Loop |-> 1]
    /\ permit = [l \in Notified |-> FALSE]
    /\ job = NoJobs
    /\ fetching = {}
    /\ owed \in [Notified -> SUBSET tracked]
    /\ slipped = [l \in Notified |-> {}]

\* The process dies and is started again.
Restart ==
    /\ ghosts' = {}
    /\ busy' = {}
    /\ due' = [l \in Loop |-> 1]
    /\ permit' = [l \in Notified |-> FALSE]
    /\ job' = NoJobs
    /\ fetching' = {}
    /\ UNCHANGED <<tracked, owed, slipped>>

\* An interval elapses.  Ticks that are missed come later, all at once (Burst).
Tick(l) ==
    /\ due[l] < MaxDue
    /\ due' = [due EXCEPT ![l] = @ + 1]
    /\ UNCHANGED <<tracked, ghosts, busy, permit, job, fetching, owed, slipped>>

\* select! takes one of the branches that are ready; the other stays ready.
Wake(l) ==
    /\ l \in Started \ busy
    /\ \/ /\ due[l] > 0
          /\ due' = [due EXCEPT ![l] = @ - 1]
          /\ permit' = permit
       \/ /\ l \in Notified
          /\ permit[l]
          /\ permit' = [permit EXCEPT ![l] = FALSE]
          /\ due' = due

-----------------------------------------------------------------------------
(* scan_loop.                                                              *)

StartScan ==
    /\ Wake("scan")
    /\ busy' = busy \cup {"scan"}
    /\ UNCHANGED <<tracked, ghosts, job, fetching, owed, slipped>>

\* The table after a scan that inserts `new` and deletes `lost` of what is then
\* there.  A new row is blank and its fetch columns are NULL; a status inspected
\* before is no answer for it.  Deleting a row drops its cache entry.
ScanTable(new, lost) ==
    /\ tracked' = (tracked \cup new) \ lost
    /\ ghosts' = ghosts \ lost
    /\ owed' = [l \in Notified |-> (owed[l] \cup new) \ lost]
    /\ slipped' = [l \in Notified |-> slipped[l] \ (new \cup lost)]
    /\ job' = Overtake(new)

\* Variant: the fetch loop is not notified.
EndScanCheckOnly ==
    /\ "scan" \in busy
    /\ busy' = busy \ {"scan"}
    /\ \E new \in SUBSET (Repos \ tracked) :
          \E lost \in SUBSET (tracked \cup new) : ScanTable(new, lost)
    /\ permit' = [permit EXCEPT !["check"] = TRUE]
    /\ UNCHANGED <<due, fetching>>

\* Variant: a scan that failed half-way does not notify.
EndScanIfOk ==
    /\ "scan" \in busy
    /\ busy' = busy \ {"scan"}
    /\ \E new \in SUBSET (Repos \ tracked) :
          \E lost \in SUBSET (tracked \cup new) : ScanTable(new, lost)
    /\ permit' \in {permit, [l \in Notified |-> TRUE]}
    /\ UNCHANGED <<due, fetching>>

\* run_scan returns, with or without an error; both loops are notified before the
\* next .await.
EndScan ==
    /\ "scan" \in busy
    /\ busy' = busy \ {"scan"}
    /\ \E new \in SUBSET (Repos \ tracked) :
          \E lost \in SUBSET (tracked \cup new) : ScanTable(new, lost)
    /\ permit' = [l \in Notified |-> TRUE]
    /\ UNCHANGED <<due, fetching>>

-----------------------------------------------------------------------------
(* check_loop.                                                             *)

StartCheck ==
    /\ Wake("check")
    /\ busy' = busy \cup {"check"}
    /\ job' = [p \in Repos |-> IF p \in tracked THEN "todo" ELSE "none"]
    /\ UNCHANGED <<tracked, ghosts, fetching, owed, slipped>>

\* list_paths fails: check_all gives up, the wake-up is spent.
FailCheck ==
    /\ Wake("check")
    /\ slipped' = [slipped EXCEPT !["check"] = @ \cup owed["check"]]
    /\ UNCHANGED <<tracked, ghosts, busy, job, fetching, owed>>

Inspect(p) ==
    /\ job[p] = "todo"
    /\ job' = [job EXCEPT ![p] = "fresh"]
    /\ UNCHANGED <<tracked, ghosts, busy, due, permit, fetching, owed, slipped>>

\* A saved status settles what was owed unless it was overtaken.
Settle(p) ==
    IF job[p] = "fresh"
    THEN /\ owed' = [owed EXCEPT !["check"] = @ \ {p}]
         /\ slipped' = [slipped EXCEPT !["check"] = @ \ {p}]
    ELSE UNCHANGED <<owed, slipped>>

\* save_status.  Without a row it leaves only a cache entry behind; when the path
\* then gets a row, a status equal to that entry is not written.
Save(p) ==
    /\ job[p] \in {"fresh", "old"}
    /\ job' = [job EXCEPT ![p] = "none"]
    /\ \/ /\ p \notin tracked
          /\ ghosts' = ghosts \cup {p}
          /\ UNCHANGED <<owed, slipped>>
       \/ /\ p \in tracked
          /\ ghosts' = ghosts \ {p}
          /\ Settle(p)
       \/ /\ p \in tracked \cap ghosts
          /\ slipped' = [slipped EXCEPT !["check"] = @ \cup {p}]
          /\ UNCHANGED <<ghosts, owed>>
    /\ UNCHANGED <<tracked, busy, due, permit, fetching>>

\* The inspection panics, or the database refuses the update.
LoseStatus(p) ==
    /\ job[p] # "none"
    /\ job' = [job EXCEPT ![p] = "none"]
    /\ slipped' = [slipped EXCEPT !["check"] = @ \cup {p}]
    /\ UNCHANGED <<tracked, ghosts, busy, due, permit, fetching, owed>>

EndCheck ==
    /\ "check" \in busy
    /\ job = NoJobs
    /\ busy' = busy \ {"check"}
    /\ UNCHANGED <<tracked, ghosts, due, permit, job, fetching, owed, slipped>>

-----------------------------------------------------------------------------
(* fetch_loop.                                                             *)

\* The candidates: every path that is not backing off, so every new one.
StartFetch ==
    /\ Wake("fetch")
    /\ busy' = busy \cup {"fetch"}
    /\ \E S \in SUBSET tracked :
          /\ owed["fetch"] \subseteq S
          /\ fetching' = S
    /\ owed' = [owed EXCEPT !["fetch"] = {}]
    /\ slipped' = [slipped EXCEPT !["fetch"] = {}]
    /\ UNCHANGED <<tracked, ghosts, job>>

\* list_fetch_candidates fails: `continue`.
FailFetch ==
    /\ Wake("fetch")
    /\ slipped' = [slipped EXCEPT !["fetch"] = @ \cup owed["fetch"]]
    /\ UNCHANGED <<tracked, ghosts, busy, job, fetching, owed>>

\* The task of p ends within FETCH_TIMEOUT; the refs have advanced or not.
FetchDone(p) ==
    /\ p \in fetching
    /\ fetching' = fetching \ {p}
    /\ \/ /\ p \in tracked
          /\ owed' = [owed EXCEPT !["check"] = @ \cup {p}]
          /\ slipped' = [slipped EXCEPT !["check"] = @ \ {p}]
          /\ job' = Overtake({p})
       \/ UNCHANGED <<owed, slipped, job>>
    /\ UNCHANGED <<tracked, ghosts, busy, due, permit>>

\* Variant: the check loop is notified only when it is waiting (notify_waiters).
EndFetchIfWaiting ==
    /\ "fetch" \in busy
    /\ fetching = {}
    /\ busy' = busy \ {"fetch"}
    /\ permit' = [permit EXCEPT !["check"] = @ \/ "check" \notin busy]
    /\ UNCHANGED <<tracked, ghosts, due, job, fetching, owed, slipped>>

\* Variant: the fetch loop wakes itself as well.
EndFetchBoth ==
    /\ "fetch" \in busy
    /\ fetching = {}
    /\ busy' = busy \ {"fetch"}
    /\ permit' = [l \in Notified |-> TRUE]
    /\ UNCHANGED <<tracked, ghosts, due, job, fetching, owed, slipped>>

EndFetch ==
    /\ "fetch" \in busy
    /\ fetching = {}
    /\ busy' = busy \ {"fetch"}
    /\ permit' = [permit EXCEPT !["check"] = TRUE]
    /\ UNCHANGED <<tracked, ghosts, due, job, fetching, owed, slipped>>

-----------------------------------------------------------------------------
CheckTask(p) == Inspect(p) \/ Save(p) \/ LoseStatus(p)

Next ==
    \/ Restart
    \/ \E l \in Loop : Tick(l)
    \/ StartScan \/ EndScan
    \/ StartCheck \/ FailCheck \/ EndCheck
    \/ StartFetch \/ FailFetch \/ EndFetch
    \/ \E p \in Repos : CheckTask(p) \/ FetchDone(p)

Spec == Init /\ [][Next]_vars

\* The tasks go on: tokio polls a task that can run, a walk of the disk and an
\* inspection come to an end, a fetch ends or times out.  Nothing is assumed about
\* the intervals: what must happen has to happen without another tick.
FairSpec ==
    /\ Spec
    /\ WF_vars(StartScan) /\ WF_vars(EndScan)
    /\ WF_vars(StartCheck \/ FailCheck) /\ WF_vars(EndCheck)
    /\ WF_vars(StartFetch \/ FailFetch) /\ WF_vars(EndFetch)
    /\ \A p \in Repos : WF_vars(CheckTask(p)) /\ WF_vars(FetchDone(p))

-----------------------------------------------------------------------------
(* Safety.                                                                 *)

Coming(l) == permit[l] \/ due[l] > 0

\* No check is forgotten: a path that is new, or whose refs the loop has fetched, is
\* in the pass under way, or another pass is certain to come: the wake-up is stored,
\* or the fetch cycle that is still running will send one (src/main.rs:90, :190).
\* Only an error, or a cache entry left by the prune race, can undo that.
NoCheckForgotten ==
    \A p \in owed["check"] \ slipped["check"] :
        \/ Coming("check")
        \/ job[p] \in {"todo", "fresh"}
        \/ "fetch" \in busy

\* Nor is the first fetch of a new path ("kick off a fetch so 'behind' is
\* populated", src/main.rs:91).
NoFetchForgotten ==
    FetchEnabled =>
        \A p \in owed["fetch"] \ slipped["fetch"] : Coming("fetch")

-----------------------------------------------------------------------------
(* Liveness.                                                               *)

\* When scans and fetches (and crashes) stop, and no error is left behind, every status in
\* the table is made up to date; and every path that was found is fetched once, already
\* when scans stop.  Both without the help of any interval.
LoopsCatchUp ==
    /\ <>[][~Restart /\ ~StartScan /\ ~StartFetch]_vars /\ <>[](slipped["check"] = {})
           => <>[](owed["check"] = {})
    /\ <>[][~Restart /\ ~StartScan]_vars /\ <>[](slipped["fetch"] = {})
           => <>[](owed["fetch"] = {})

\* "this service is idle the vast majority of the time" (src/main.rs:27): the loops
\* cannot keep each other awake; when no interval elapses, all go to sleep.
Quiesces ==
    <>[][~Restart /\ \A l \in Loop : ~Tick(l)]_vars => <>[](busy = {})
=============================================================================
