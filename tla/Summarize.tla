------------------------------- MODULE Summarize -------------------------------
(***************************************************************************)
(* The aggregate view (Summary::from_statuses, src/model.rs) and what the  *)
(* clients make of the list it is an aggregate of (Models.swift,           *)
(* AppModel.swift, Models.cs): the server counts the repositories that     *)
(* need attention for the badge, the clients decide with their own copy of *)
(* the rule which ones to list.  One run of the loop of from_statuses, on  *)
(* any list.                                                               *)
(***************************************************************************)
EXTENDS Integers, Sequences, FiniteSets

CONSTANTS
    MaxCount,  \* bound on the counters of a status
    MaxRepos,  \* bound on the length of the list
    Statuses   \* the statuses considered

\* What from_statuses and the clients look at; a repository without an upstream has
\* no counters, which the clients read as 0.
Upstream ==
    [kind : {"none"}]
        \cup [kind : {"tracking"}, ahead : 0 .. MaxCount, behind : 0 .. MaxCount]

RepoStatus ==
    [has_staged : BOOLEAN, has_unstaged : BOOLEAN, has_untracked : BOOLEAN,
     stash_count : 0 .. MaxCount, clean : BOOLEAN, upstream : Upstream,
     error : BOOLEAN, last_fetch_error : BOOLEAN]

ASSUME SummarizeAssumption ==
    MaxCount \in Nat /\ MaxRepos \in Nat /\ Statuses \subseteq RepoStatus

Counters == {"attention", "uncommitted", "ahead", "behind", "stashed", "in_progress",
             "fetch_errors", "read_errors"}

VARIABLES
    repos,   \* the statuses, in the order of list_statuses
    i,       \* how many of them the loop has gone through
    summary  \* the Summary

vars == <<repos, i, summary>>

SummarizeTypeOK ==
    /\ repos \in Seq(Statuses)
    /\ i \in 0 .. Len(repos)
    /\ summary \in [Counters -> 0 .. i]

-----------------------------------------------------------------------------
Ahead(r) == IF r.upstream.kind = "tracking" THEN r.upstream.ahead ELSE 0
Behind(r) == IF r.upstream.kind = "tracking" THEN r.upstream.behind ELSE 0

\* RepoStatus::is_dirty.
IsDirty(r) ==
    \/ r.has_staged \/ r.has_unstaged \/ r.has_untracked
    \/ r.stash_count > 0
    \/ ~r.clean
    \/ Ahead(r) > 0

\* Variant: a read error is counted on its own only.
CountsDirtyOnly(r) ==
    {c \in Counters :
        \/ c = "attention" /\ IsDirty(r)
        \/ c = "uncommitted" /\ (r.has_staged \/ r.has_unstaged \/ r.has_untracked)
        \/ c = "ahead" /\ Ahead(r) > 0
        \/ c = "behind" /\ Behind(r) > 0
        \/ c = "stashed" /\ r.stash_count > 0
        \/ c = "in_progress" /\ ~r.clean
        \/ c = "fetch_errors" /\ r.last_fetch_error
        \/ c = "read_errors" /\ r.error}

\* The counters that one repository is counted in.
Counts(r) ==
    {c \in Counters :
        \/ c = "attention" /\ (IsDirty(r) \/ r.error)
        \/ c = "uncommitted" /\ (r.has_staged \/ r.has_unstaged \/ r.has_untracked)
        \/ c = "ahead" /\ Ahead(r) > 0
        \/ c = "behind" /\ Behind(r) > 0
        \/ c = "stashed" /\ r.stash_count > 0
        \/ c = "in_progress" /\ ~r.clean
        \/ c = "fetch_errors" /\ r.last_fetch_error
        \/ c = "read_errors" /\ r.error}

Init ==
    /\ repos \in UNION {[1 .. n -> Statuses] : n \in 0 .. MaxRepos}
    /\ i = 0
    /\ summary = [c \in Counters |-> 0]

\* The body of the loop.
Step ==
    /\ i < Len(repos)
    /\ summary' = [c \in Counters |->
                      IF c \in Counts(repos[i + 1]) THEN summary[c] + 1 ELSE summary[c]]
    /\ i' = i + 1
    /\ repos' = repos

Next == Step \/ (i = Len(repos) /\ UNCHANGED vars)

Spec == Init /\ [][Next]_vars

-----------------------------------------------------------------------------
(* The clients, on the same list.                                          *)

HasWorkingTreeChanges(r) == r.has_staged \/ r.has_unstaged \/ r.has_untracked

\* needsAttention of both clients.
NeedsAttention(r) ==
    HasWorkingTreeChanges(r) \/ r.stash_count > 0 \/ ~r.clean \/ Ahead(r) > 0

\* Variant: a repository that could not be read is only listed below.
AtRiskDirty == {j \in 1 .. i : NeedsAttention(repos[j])}

\* atRiskRepos and behindOrUnreachableRepos of the menu bar, AttentionRepos of the
\* tray.
AtRisk == {j \in 1 .. i : NeedsAttention(repos[j]) \/ repos[j].error}
BehindOrUnreachable ==
    {j \in 1 .. i : /\ ~(NeedsAttention(repos[j]) \/ repos[j].error)
                    /\ Behind(repos[j]) > 0 \/ repos[j].last_fetch_error}
ShouldList ==
    {j \in 1 .. i : \/ NeedsAttention(repos[j])
                    \/ Behind(repos[j]) > 0
                    \/ repos[j].last_fetch_error
                    \/ repos[j].error}

-----------------------------------------------------------------------------
\* On one list the badge is the length of the Issues tab ("Same rule as the server's
\* `Summary.attention`", AppModel.swift:44).
BadgeCountsIssues == summary["attention"] = Cardinality(AtRisk)

\* Whatever any counter counts is in the lists of both clients: there is no repository
\* that the summary reports and the panel hides.
CountedIsListed ==
    /\ AtRisk \cup BehindOrUnreachable = ShouldList
    /\ (\E c \in Counters : summary[c] > 0) => ShouldList # {}
    /\ \A c \in Counters : summary[c] <= Cardinality(ShouldList)

\* The badge covers every kind of local work, and nothing else: it is at least each of
\* the counters of that work, and no more than all together.
BadgeIsBounded ==
    LET parts == <<"uncommitted", "ahead", "stashed", "in_progress", "read_errors">>
    IN  /\ \A k \in DOMAIN parts : summary[parts[k]] <= summary["attention"]
        /\ summary["attention"] <= summary[parts[1]] + summary[parts[2]]
               + summary[parts[3]] + summary[parts[4]] + summary[parts[5]]
=============================================================================
