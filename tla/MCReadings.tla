------------------------------ MODULE MCReadings ------------------------------
(***************************************************************************)
(* The two loops that turn a list into what is displayed, for TLC:         *)
(* Summarize on lists of repositories, Details on status lists.  They have *)
(* nothing in common, so one of the two lists is empty.                    *)
(***************************************************************************)
EXTENDS Summarize, Details

\* The statuses with at most two of the things that from_statuses looks at, one repository
\* that has them all and one that has everything but an upstream.
Marks(r) ==
    (IF r.has_staged THEN 1 ELSE 0) + (IF r.has_unstaged THEN 1 ELSE 0)
        + (IF r.has_untracked THEN 1 ELSE 0) + r.stash_count + (IF r.clean THEN 0 ELSE 1)
        + (IF r.error THEN 1 ELSE 0) + (IF r.last_fetch_error THEN 1 ELSE 0)
        + Ahead(r) + Behind(r)

FewMarks ==
    {r \in RepoStatus :
        \/ Marks(r) \in {0, 1, 2, 9}
        \/ (Marks(r) = 7 /\ r.upstream.kind = "none")}

\* An entry has up to two flags of the index and two of the working tree, or is a conflict.
UpToTwo(S) == {s \in SUBSET S : Cardinality(s) <= 2}

MCEntries ==
    {x \cup y : x \in UpToTwo(IndexFlags), y \in UpToTwo(WorktreeFlags \cup {"WT_NEW"})}
        \cup {{"CONFLICTED"}}

ReadingsInit ==
    \/ repos = <<>> /\ Init /\ DetailsInit
    \/ list = <<>> /\ Init /\ DetailsInit

ReadingsNext ==
    \/ Next /\ UNCHANGED detailsVars
    \/ DetailsNext /\ UNCHANGED vars

ReadingsSpec == ReadingsInit /\ [][ReadingsNext]_<<vars, detailsVars>>
=============================================================================
