------------------------------ MODULE Inspection ------------------------------
(***************************************************************************)
(* compute_status (src/status.rs) reads a repository piece by piece, on a  *)
(* thread of the blocking pool, while its user works in it: the status of  *)
(* each file, the state, the stashes, HEAD, the branch and its upstream    *)
(* are all read at different times.  One run of compute_status is          *)
(* modelled, from a repository in any state, with up to MaxChanges steps   *)
(* of the user.  A file that was renamed counts as one that was changed.   *)
(***************************************************************************)
EXTENDS Naturals

CONSTANTS
    Files,       \* the files of the repository
    States,      \* the values of git2's RepositoryState considered
    MaxWork,     \* bound on stashes and on commits ahead
    MaxChanges   \* bound on the user's steps

GitStates ==
    {"Clean", "Merge", "Revert", "RevertSequence", "CherryPick", "CherryPickSequence",
     "Bisect", "Rebase", "RebaseInteractive", "RebaseMerge", "ApplyMailbox",
     "ApplyMailboxOrRebase"}
Operations ==
    {"clean", "merge", "revert", "cherry_pick", "bisect", "rebase", "apply_mailbox"}

ASSUME InspectionAssumption ==
    /\ {"Clean", "Merge"} \subseteq States /\ States \subseteq GitStates
    /\ MaxWork \in Nat \ {0}
    /\ MaxChanges \in Nat

VARIABLES
    repo,     \* the repository on disk
    pc,       \* what compute_status reads next
    unread,   \* the files that repo.statuses has still to come to
    listed,   \* what it has found of the others
    status,   \* the RepoStatus it fills
    target,   \* the HEAD it has read: its commits that no remote has, and how many
              \* of these HEAD still has
    changes,  \* the user's steps so far
    (* History: no guard reads it. *)
    seen      \* the states the repository has been in since the start

inspectVars == <<repo, pc, unread, listed, status, target, changes, seen>>

FileKinds == {"clean", "staged", "unstaged", "untracked", "conflicted"}

\* `ahead` counts the commits at HEAD that no remote has.
Repo ==
    [readable : BOOLEAN,
     files : [Files -> FileKinds],
     state : States,
     stashes : 0 .. MaxWork,
     head : {"branch", "detached", "unborn"},
     upstream : {"none", "tracking"},
     ahead : 0 .. MaxWork,
     behind : 0 .. 1]

Unknown == [ahead |-> 0, behind |-> 0, kind |-> "none"]

Status ==
    [has_staged : BOOLEAN, has_unstaged : BOOLEAN, has_untracked : BOOLEAN,
     stash_count : 0 .. MaxWork,
     operation : Operations,
     branch : BOOLEAN,
     detached_head : BOOLEAN,
     upstream : [kind : {"none", "tracking"}, ahead : 0 .. MaxWork, behind : 0 .. 1],
     error : BOOLEAN]

InspectionTypeOK ==
    /\ repo \in Repo
    /\ pc \in {"open", "tree", "state", "stash", "detached", "head", "upstream", "done"}
    /\ unread \subseteq Files /\ listed \subseteq FileKinds
    /\ status \in Status
    /\ target \in [ahead : 0 .. MaxWork, shared : 0 .. MaxWork]
    /\ changes \in 0 .. MaxChanges
    /\ repo \in seen /\ seen \subseteq Repo

-----------------------------------------------------------------------------
\* RepoStatus::new.
Blank ==
    [has_staged |-> FALSE, has_unstaged |-> FALSE, has_untracked |-> FALSE,
     stash_count |-> 0, operation |-> "clean", branch |-> FALSE,
     detached_head |-> FALSE, upstream |-> Unknown, error |-> FALSE]

\* Variant: the sequencer's states are taken for no operation.
MapStatePlain(s) ==
    CASE s = "Merge" -> "merge"
      [] s = "Revert" -> "revert"
      [] s = "CherryPick" -> "cherry_pick"
      [] s = "Bisect" -> "bisect"
      [] s \in {"Rebase", "RebaseInteractive", "RebaseMerge"} -> "rebase"
      [] s = "ApplyMailbox" -> "apply_mailbox"
      [] OTHER -> "clean"

\* map_state.
MapState(s) ==
    CASE s = "Clean" -> "clean"
      [] s = "Merge" -> "merge"
      [] s \in {"Revert", "RevertSequence"} -> "revert"
      [] s \in {"CherryPick", "CherryPickSequence"} -> "cherry_pick"
      [] s = "Bisect" -> "bisect"
      [] s \in {"Rebase", "RebaseInteractive", "RebaseMerge"} -> "rebase"
      [] s \in {"ApplyMailbox", "ApplyMailboxOrRebase"} -> "apply_mailbox"

\* RepoStatus::is_dirty.
StatusDirty(s) ==
    \/ s.has_staged \/ s.has_unstaged \/ s.has_untracked
    \/ s.stash_count > 0
    \/ s.operation # "clean"
    \/ s.upstream.ahead > 0

Some(kind) == \E f \in Files : repo.files[f] = kind

-----------------------------------------------------------------------------
(* The user, with git.                                                     *)

Moves(r, t) ==
    /\ pc # "done"
    /\ changes < MaxChanges
    /\ changes' = changes + 1
    /\ repo' = r
    /\ target' = t
    /\ seen' = seen \cup {r}
    /\ UNCHANGED <<pc, unread, listed, status>>

Becomes(r) == Moves(r, target)

Edit(f) ==
    /\ repo.files[f] = "clean"
    /\ \E k \in {"unstaged", "untracked"} : Becomes([repo EXCEPT !.files[f] = k])

\* git restore, git clean
Discard(f) ==
    /\ repo.files[f] \in {"unstaged", "untracked"}
    /\ Becomes([repo EXCEPT !.files[f] = "clean"])

\* git add
Stage(f) ==
    /\ repo.files[f] \in {"unstaged", "untracked", "conflicted"}
    /\ Becomes([repo EXCEPT !.files[f] = "staged"])

Commit ==
    /\ Some("staged") /\ ~Some("conflicted")
    /\ repo.ahead < MaxWork
    /\ Becomes([repo EXCEPT
                  !.files = [f \in Files |-> IF @[f] = "staged" THEN "clean" ELSE @[f]],
                  !.ahead = @ + 1,
                  !.state = "Clean",
                  !.head = IF @ = "unborn" THEN "branch" ELSE @])

\* git reset --soft HEAD~1: HEAD loses a commit of its own, if it has one.
SoftReset(f) ==
    /\ repo.ahead > 0
    /\ repo.files[f] = "clean"
    /\ Moves([repo EXCEPT !.files[f] = "staged", !.ahead = @ - 1],
             [target EXCEPT !.shared = IF @ = repo.ahead THEN @ - 1 ELSE @])

\* git stash -u
StashPush ==
    /\ Some("staged") \/ Some("unstaged") \/ Some("untracked")
    /\ ~Some("conflicted")
    /\ repo.head # "unborn"
    /\ repo.stashes < MaxWork
    /\ Becomes([repo EXCEPT !.files = [f \in Files |-> "clean"], !.stashes = @ + 1])

\* git stash pop; with a conflict the stash stays.
StashPop(f) ==
    /\ repo.stashes > 0
    /\ repo.files[f] = "clean"
    /\ \/ Becomes([repo EXCEPT !.files[f] = "unstaged", !.stashes = @ - 1])
       \/ Becomes([repo EXCEPT !.files[f] = "conflicted"])

\* git merge, which leaves a conflict.
Merge(f) ==
    /\ repo.state = "Clean" /\ repo.head # "unborn"
    /\ repo.files[f] = "clean"
    /\ Becomes([repo EXCEPT !.files[f] = "conflicted", !.state = "Merge"])

\* git push, git switch to and from a detached HEAD; the directory becomes
\* unreadable, or readable again.
Push ==
    /\ repo.upstream = "tracking" /\ repo.head = "branch"
    /\ Moves([repo EXCEPT !.ahead = 0],
             [ahead |-> target.ahead - target.shared, shared |-> 0])

Switch ==
    /\ repo.head # "unborn"
    /\ Becomes([repo EXCEPT !.head = IF @ = "branch" THEN "detached" ELSE "branch"])

Access == Becomes([repo EXCEPT !.readable = ~@])

User ==
    \/ Commit \/ StashPush \/ Push \/ Switch \/ Access
    \/ \E f \in Files : \/ Edit(f) \/ Discard(f) \/ Stage(f)
                        \/ SoftReset(f) \/ StashPop(f) \/ Merge(f)

-----------------------------------------------------------------------------
(* compute_status.                                                         *)

\* A repository in a state that git can leave it in.
InspectInit ==
    /\ repo \in Repo
    /\ repo.head = "unborn" =>
          /\ repo.stashes = 0 /\ repo.ahead = 0
          /\ repo.upstream = "none" /\ repo.state = "Clean"
    /\ repo.upstream = "none" => repo.behind = 0
    /\ pc = "open"
    /\ unread = {}
    /\ listed = {}
    /\ status = Blank
    /\ target = [ahead |-> 0, shared |-> 0]
    /\ changes = 0
    /\ seen = {repo}

Read(from, to, s) ==
    /\ pc = from
    /\ pc' = to
    /\ unread' = IF to = "tree" THEN Files ELSE {}
    /\ listed' = {}
    /\ status' = s
    /\ target' = IF to = "upstream" THEN [ahead |-> repo.ahead, shared |-> repo.ahead]
                                    ELSE target
    /\ UNCHANGED <<repo, changes, seen>>

Failed == [status EXCEPT !.error = TRUE]

Open ==
    IF repo.readable THEN Read("open", "tree", status) ELSE Read("open", "done", Failed)

\* working_tree: repo.statuses comes to one file after the other, ...
ReadFile(f) ==
    /\ pc = "tree"
    /\ repo.readable
    /\ f \in unread
    /\ unread' = unread \ {f}
    /\ listed' = listed \cup {repo.files[f]}
    /\ UNCHANGED <<repo, pc, status, target, changes, seen>>

\* ... and the flags are set when it has come to all of them.  A hard error ends the
\* inspection, and the list with it.
ReadTree ==
    IF repo.readable
    THEN /\ unread = {}
         /\ Read("tree", "state", [status EXCEPT !.has_staged = "staged" \in listed,
                                                 !.has_unstaged = "unstaged" \in listed,
                                                 !.has_untracked = "untracked" \in listed])
    ELSE Read("tree", "done", Failed)

ReadState == Read("state", "stash", [status EXCEPT !.operation = MapState(repo.state)])

\* count_stash: an error counts as no stash.
ReadStash ==
    Read("stash", "detached",
         [status EXCEPT !.stash_count = IF repo.readable THEN repo.stashes ELSE 0])

\* branch_and_upstream: head_detached, whose error counts as FALSE, ...
ReadDetached ==
    Read("detached", "head",
         [status EXCEPT !.detached_head = repo.readable /\ repo.head = "detached"])

\* Variant: an error is reported on a new status.
ReadHeadAnew ==
    IF ~repo.readable THEN Read("head", "done", [Blank EXCEPT !.error = TRUE])
    ELSE IF repo.head = "unborn" \/ status.detached_head THEN Read("head", "done", status)
    ELSE IF repo.head = "detached"
    THEN Read("head", "done", [Blank EXCEPT !.error = TRUE])
    ELSE Read("head", "upstream", [status EXCEPT !.branch = TRUE])

\* ... then HEAD, which need not be detached any more or may be so only now; the
\* shorthand of a detached HEAD is "HEAD", of which there is no local branch.
ReadHead ==
    IF ~repo.readable THEN Read("head", "done", Failed)
    ELSE IF repo.head = "unborn" \/ status.detached_head THEN Read("head", "done", status)
    ELSE IF repo.head = "detached"
    THEN Read("head", "done", [Failed EXCEPT !.branch = TRUE])
    ELSE Read("head", "upstream", [status EXCEPT !.branch = TRUE])

\* ... then the upstream of that branch and how far apart it and the HEAD read
\* before are.  (The commits that a push adds to `behind` are left out.)
ReadUpstream ==
    IF ~repo.readable THEN Read("upstream", "done", Failed)
    ELSE IF repo.upstream = "none" THEN Read("upstream", "done", status)
    ELSE Read("upstream", "done",
              [status EXCEPT !.upstream =
                  [kind |-> "tracking", ahead |-> target.ahead, behind |-> repo.behind]])

ComputeStatus ==
    \/ Open \/ (\E f \in Files : ReadFile(f)) \/ ReadTree \/ ReadState \/ ReadStash
    \/ ReadDetached \/ ReadHead \/ ReadUpstream

InspectNext == User \/ ComputeStatus \/ (pc = "done" /\ UNCHANGED inspectVars)

InspectSpec == InspectInit /\ [][InspectNext]_inspectVars

-----------------------------------------------------------------------------
\* The status of r as `git status` would show it, had it not changed: each field is
\* what it stands for, unless the repository could not be read.
Shows(s, r) ==
    IF ~r.readable THEN s.error
    ELSE /\ ~s.error
         /\ s.has_staged <=> \E f \in Files : r.files[f] = "staged"
         /\ s.has_unstaged <=> \E f \in Files : r.files[f] = "unstaged"
         /\ s.has_untracked <=> \E f \in Files : r.files[f] = "untracked"
         /\ s.stash_count = r.stashes
         /\ s.operation = "clean" <=> r.state = "Clean"
         /\ s.detached_head <=> r.head = "detached"
         /\ s.branch <=> r.head = "branch"
         /\ IF r.head = "branch" /\ r.upstream = "tracking"
            THEN s.upstream = [kind |-> "tracking", ahead |-> r.ahead, behind |-> r.behind]
            ELSE s.upstream = Unknown

\* A repository nobody touches during the inspection is shown as it is.
ExactWhenQuiet == pc = "done" /\ seen = {repo} => Shows(status, repo)

\* The flag that stands for files of a kind.
Flag(kind) ==
    CASE kind = "staged" -> status.has_staged
      [] kind = "unstaged" -> status.has_unstaged
      [] kind = "untracked" -> status.has_untracked

Flagged == {"staged", "unstaged", "untracked"}

IsAhead(r) == r.ahead > 0 /\ r.head = "branch" /\ r.upstream = "tracking"

\* A file with local changes throughout is shown as one of the kinds it had.
FilesShown ==
    \A f \in Files :
        (\A r \in seen : r.files[f] \in Flagged) => \E r \in seen : Flag(r.files[f])

\* Work that stays is never missed, whatever else the user does meanwhile, also where the
\* inspection ends with an error: files with local changes throughout are shown, and so
\* are stashes, an operation and commits that no remote has, if there were some throughout.
SteadyWorkShown ==
    pc = "done" /\ (\A r \in seen : r.readable) =>
        /\ FilesShown
        /\ (\A r \in seen : r.stashes > 0) => status.stash_count > 0
        /\ (\A r \in seen : r.state # "Clean") => status.operation # "clean"
        /\ (\A r \in seen : IsAhead(r)) => status.upstream.ahead > 0

\* "Full computed status of one repository at a point in time." (src/model.rs:50): if
\* the status shows no work at risk, then at some time during the inspection there
\* was none (of those kinds).
CleanAtOnePoint ==
    pc = "done" /\ ~StatusDirty(status) /\ ~status.error =>
        \E r \in seen :
            /\ \A f \in Files : r.files[f] \notin Flagged
            /\ r.stashes = 0 /\ r.state = "Clean" /\ ~IsAhead(r)

\* "Whether there is any local work the user might lose: dirty tree, stashes,
\* unpushed commits, or an interrupted operation." (src/model.rs:105)
WorkAtRisk(r) ==
    \/ \E f \in Files : r.files[f] # "clean"
    \/ r.stashes > 0 \/ r.ahead > 0 \/ r.state # "Clean"

DirtyIfAtRisk ==
    pc = "done" /\ seen = {repo} /\ repo.readable /\ WorkAtRisk(repo) => StatusDirty(status)
=============================================================================
