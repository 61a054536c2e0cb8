-------------------------------- MODULE Details --------------------------------
(***************************************************************************)
(* The two readings of a repository's status list (src/status.rs):         *)
(* working_tree folds it into the three flags of a RepoStatus, and         *)
(* fill_details sorts it into the file groups of the hover card, of which  *)
(* only the first DETAIL_CAP files are listed (src/model.rs).  Both go     *)
(* through the entries in order; here they do so side by side, over the    *)
(* same list.                                                              *)
(*                                                                         *)
(* An entry is the set of its Status flags.  A file is represented by the  *)
(* kind it is listed with: paths and rename labels are wording.            *)
(***************************************************************************)
EXTENDS Naturals, Sequences

CONSTANTS
    Entries,    \* the entries a status list may hold
    DetailCap,  \* DETAIL_CAP
    MaxEntries  \* bound on the length of the list

IndexFlags == {"INDEX_NEW", "INDEX_MODIFIED", "INDEX_DELETED", "INDEX_RENAMED",
               "INDEX_TYPECHANGE"}
WorktreeFlags == {"WT_MODIFIED", "WT_DELETED", "WT_RENAMED", "WT_TYPECHANGE"}
Flags == IndexFlags \cup WorktreeFlags \cup {"WT_NEW", "CONFLICTED"}

\* libgit2 reports a conflict instead of the states of the file, not beside them.
ASSUME DetailsAssumption ==
    /\ Entries \subseteq SUBSET Flags
    /\ \A s \in Entries : "CONFLICTED" \in s => s = {"CONFLICTED"}
    /\ DetailCap \in Nat
    /\ MaxEntries \in Nat

Shown == {"staged", "unstaged", "untracked"}
Groups == Shown \cup {"conflicted"}
Kinds == {"added", "modified", "deleted", "renamed", "typechange", "untracked",
          "conflicted"}

VARIABLES
    list,   \* the status list of the repository
    read,      \* how many entries both loops have gone through
    has,    \* has_staged, has_unstaged and has_untracked of the RepoStatus
    total,  \* total[g]: FileGroup::total
    files   \* files[g]: FileGroup::files

detailsVars == <<list, read, has, total, files>>

DetailsTypeOK ==
    /\ list \in Seq(Entries)
    /\ read \in 0 .. Len(list)
    /\ has \in [Shown -> BOOLEAN]
    /\ total \in [Groups -> Nat]
    /\ files \in [Groups -> Seq(Kinds)]

-----------------------------------------------------------------------------
\* Variant: a flag was forgotten.
IndexKindPartial(s) ==
    IF "INDEX_NEW" \in s THEN "added"
    ELSE IF "INDEX_MODIFIED" \in s THEN "modified"
    ELSE IF "INDEX_DELETED" \in s THEN "deleted"
    ELSE IF "INDEX_RENAMED" \in s THEN "renamed"
    ELSE "none"

\* index_kind and worktree_kind: the first flag that is set names the kind.
IndexKind(s) ==
    IF "INDEX_NEW" \in s THEN "added"
    ELSE IF "INDEX_MODIFIED" \in s THEN "modified"
    ELSE IF "INDEX_DELETED" \in s THEN "deleted"
    ELSE IF "INDEX_RENAMED" \in s THEN "renamed"
    ELSE IF "INDEX_TYPECHANGE" \in s THEN "typechange"
    ELSE "none"

WorktreeKind(s) ==
    IF "WT_MODIFIED" \in s THEN "modified"
    ELSE IF "WT_DELETED" \in s THEN "deleted"
    ELSE IF "WT_RENAMED" \in s THEN "renamed"
    ELSE IF "WT_TYPECHANGE" \in s THEN "typechange"
    ELSE "none"

\* One entry of the loop of working_tree.
WorkingTree(s, h) ==
    [g \in Shown |-> \/ h[g]
                     \/ g = "staged" /\ s \cap IndexFlags # {}
                     \/ g = "unstaged" /\ s \cap WorktreeFlags # {}
                     \/ g = "untracked" /\ "WT_NEW" \in s]

\* The kind with which one entry of the loop of fill_details enters each group.
GroupKinds(s) ==
    IF "CONFLICTED" \in s
    THEN [g \in Groups |-> IF g = "conflicted" THEN "conflicted" ELSE "none"]
    ELSE [g \in Groups |-> CASE g = "conflicted" -> "none"
                             [] g = "staged" -> IndexKind(s)
                             [] g = "unstaged" -> WorktreeKind(s)
                             [] g = "untracked" ->
                                    IF "WT_NEW" \in s THEN "untracked" ELSE "none"]

\* Variant: the cap admits one more.
RoomInclusive(fs) == Len(fs) <= DetailCap

\* FileGroup::push counts every file but keeps only the first DETAIL_CAP.
Room(fs) == Len(fs) < DetailCap

-----------------------------------------------------------------------------
DetailsInit ==
    /\ list \in UNION {[1 .. n -> Entries] : n \in 0 .. MaxEntries}
    /\ read = 0
    /\ has = [g \in Shown |-> FALSE]
    /\ total = [g \in Groups |-> 0]
    /\ files = [g \in Groups |-> <<>>]

ReadEntry ==
    /\ read < Len(list)
    /\ LET kinds == GroupKinds(list[read + 1])
       IN  /\ total' = [g \in Groups |->
                            IF kinds[g] # "none" THEN total[g] + 1 ELSE total[g]]
           /\ files' = [g \in Groups |->
                            IF kinds[g] # "none" /\ Room(files[g])
                            THEN Append(files[g], kinds[g]) ELSE files[g]]
    /\ has' = WorkingTree(list[read + 1], has)
    /\ read' = read + 1
    /\ list' = list

DetailsNext == ReadEntry \/ (read = Len(list) /\ UNCHANGED detailsVars)

DetailsSpec == DetailsInit /\ [][DetailsNext]_detailsVars

-----------------------------------------------------------------------------
\* The card and the row agree: what the card lists as staged, not staged or
\* untracked is there exactly if the row's flag says so, whatever combination of
\* flags the entries have.
CardMatchesRow == \A g \in Shown : has[g] <=> total[g] > 0

\* "+n more" is right: a group lists all of its files up to the cap.
ListedUpToCap ==
    \A g \in Groups :
        Len(files[g]) = IF total[g] <= DetailCap THEN total[g] ELSE DetailCap

\* "No changed files." is right: the card counts no file exactly if none of the
\* entries seen has any flag, a conflict included.
NoFilesNoChanges ==
    (\A g \in Groups : total[g] = 0) <=> \A j \in 1 .. read : list[j] = {}
=============================================================================
