----------------------------- MODULE ClientReload -----------------------------
(***************************************************************************)
(* What the two clients have in common (AppModel.swift, AppModel.cs):      *)
(* reloads.  A reload POSTs its trigger, if it has one, then GETs          *)
(* /summary, then, if the list is wanted, /repos; each reply is applied    *)
(* when it arrives.  The service is seen from outside.  Each write of a    *)
(* status that changes what it serves makes a new revision of it: `board`  *)
(* counts them, and what is shown is a revision.  A later revision need    *)
(* not be newer: a status that was saved late is one, with an older state  *)
(* of its repository (CheckScan).                                          *)
(***************************************************************************)
EXTENDS Integers

CONSTANTS
    Tasks,        \* the reloads that can be under way at the same time
    ReadsConfig,  \* whether /config is read after /repos (the menu bar does)
    MaxRevisions, \* bound on what the service writes
    MaxFaults     \* bound on the requests that fail

ASSUME ClientReloadAssumption ==
    ReadsConfig \in BOOLEAN /\ MaxRevisions \in Nat /\ MaxFaults \in Nat

VARIABLES
    board,            \* the revision the service serves
    task,             \* the reloads
    summary, repos,   \* what the client shows
    connectionError,  \* whether it shows an error
    faults            \* the requests that have failed

reloadVars == <<board, task, summary, repos, connectionError, faults>>

Revisions == 0 .. MaxRevisions
None == -1   \* no reply yet, nothing shown yet

\* History: `answered` is the revision that was served when the trigger was answered, and
\* `alone` says that no other reload was under way at any time of this one.
Reload ==
    [at : {"idle", "ping", "post", "summary", "repos", "config"},
     trigger : {"none", "check", "scan", "restart"}, list : BOOLEAN,
     reply : Revisions \cup {None}, answered : Revisions \cup {None}, alone : BOOLEAN]

Idle == [at |-> "idle", trigger |-> "none", list |-> FALSE, reply |-> None,
         answered |-> None, alone |-> FALSE]

ReloadTypeOK ==
    /\ board \in Revisions
    /\ task \in [Tasks -> Reload]
    /\ summary \in Revisions \cup {None} /\ repos \in Revisions \cup {None}
    /\ connectionError \in BOOLEAN
    /\ faults \in 0 .. MaxFaults

ReloadInit ==
    /\ board \in Revisions
    /\ task = [t \in Tasks |-> Idle]
    /\ summary = None /\ repos = None
    /\ connectionError = FALSE
    /\ faults = 0

Running(t) == task[t].at # "idle"

\* One repository has work at risk in every other revision.
Risk(v) == IF v = None THEN 0 ELSE v % 2

-----------------------------------------------------------------------------
(* The service.                                                            *)

\* The service stores something, for a request or in a check of its own.
Save ==
    /\ board < MaxRevisions
    /\ board' = board + 1
    /\ UNCHANGED <<task, summary, repos, connectionError, faults>>

\* A GET is answered from the table; a POST when its pass is over, whatever that has stored:
\* the status is 200 also if its listing or a save failed, or an inspection panicked.
Answer(t) ==
    /\ task[t].at \in {"post", "summary", "repos"}
    /\ task[t].reply = None
    /\ task' = [task EXCEPT ![t].reply = board,
                            ![t].answered = IF task[t].at = "post" THEN board ELSE @]
    /\ UNCHANGED <<board, summary, repos, connectionError, faults>>

-----------------------------------------------------------------------------
(* A reload.                                                               *)

BeginAt(t, at, trigger, list) ==
    /\ ~Running(t)
    /\ task' = [u \in Tasks |->
                   IF u = t
                   THEN [at |-> at, trigger |-> trigger, list |-> list, reply |-> None,
                         answered |-> None, alone |-> \A v \in Tasks : ~Running(v)]
                   ELSE [task[u] EXCEPT !.alone = FALSE]]
    /\ UNCHANGED <<board, summary, repos, faults>>

\* Variant: the trigger is not awaited.
BeginUnchecked(t, trigger, list) == BeginAt(t, "summary", trigger, list)

Begin(t, trigger, list) ==
    BeginAt(t, IF trigger = "none" THEN "summary" ELSE "post", trigger, list)

End(t) == task' = [task EXCEPT ![t] = Idle] /\ connectionError' = FALSE

GoOn(t, at) ==
    /\ task' = [task EXCEPT ![t].at = at, ![t].reply = None]
    /\ UNCHANGED connectionError

\* The reply of the request at hand is applied; a reload that got all its replies
\* clears the error.
Receive(t) ==
    /\ task[t].reply # None
    /\ \/ task[t].at = "post" /\ GoOn(t, "summary") /\ UNCHANGED <<summary, repos>>
       \/ /\ task[t].at = "summary"
          /\ summary' = task[t].reply /\ UNCHANGED repos
          /\ IF task[t].list THEN GoOn(t, "repos") ELSE End(t)
       \/ /\ task[t].at = "repos"
          /\ repos' = task[t].reply /\ UNCHANGED summary
          /\ IF ReadsConfig THEN GoOn(t, "config") ELSE End(t)
    /\ UNCHANGED <<board, faults>>

\* /config was answered, or not: its error is ignored.
ReceiveConfig(t) ==
    /\ task[t].at = "config"
    /\ End(t)
    /\ UNCHANGED <<board, summary, repos, faults>>

\* No connection, a timeout or a status that is no success ends the reload; what it has
\* applied stays.
Fail(t) ==
    /\ task[t].at \in {"post", "summary", "repos"}
    /\ faults < MaxFaults
    /\ faults' = faults + 1
    /\ task' = [task EXCEPT ![t] = Idle]
    /\ connectionError' = TRUE
    /\ UNCHANGED <<board, summary, repos>>

\* t ends in this step.
Ends(t) == Running(t) /\ task'[t].at = "idle"

-----------------------------------------------------------------------------
\* A reload that had the client to itself and got all its replies shows nothing older than
\* what the service had stored when it answered the trigger ("POST /check is synchronous, so
\* the data read afterwards reflects current on-disk state", AppModel.swift:171), with a
\* list no older than the badge.
AloneIsFresh ==
    [][\A t \in Tasks :
          Ends(t) /\ task[t].alone /\ task[t].list /\ ~connectionError' =>
              /\ task[t].trigger \in {"check", "scan"} =>
                    task[t].answered # None /\ summary' >= task[t].answered
              /\ repos' >= summary']_reloadVars
=============================================================================
