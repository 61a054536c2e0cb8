---------------------------- MODULE ReadingsProofs ----------------------------
(***************************************************************************)
(* Proofs about how a repository is read and displayed: Summarize, for     *)
(* lists of any length and counters of any size, Details, for status lists *)
(* of any length and any cap, and Inspection, for any number of files,     *)
(* stashes and commits and any steps of the user between the reads.        *)
(***************************************************************************)
EXTENDS Summarize, Details, Inspection, FiniteSetTheorems, TLAPS

(* Summarize.                                                              *)

\* The repositories that a counter has been incremented for.
Counted(c) == {j \in 1 .. i : c \in Counts(repos[j])}

CountersCount == \A c \in Counters : summary[c] = Cardinality(Counted(c))

SummarizeInv == SummarizeTypeOK /\ CountersCount /\ BadgeIsBounded

LEMMA CountedFinite ==
    ASSUME SummarizeTypeOK, NEW c \in Counters
    PROVE  IsFiniteSet(Counted(c)) /\ Counted(c) \subseteq 1 .. i
<1>1. i \in Int
  BY DEF SummarizeTypeOK
<1>2. IsFiniteSet(1 .. i)
  BY <1>1, FS_Interval
<1>3. Counted(c) \subseteq 1 .. i
  BY DEF Counted
<1> QED BY <1>2, <1>3, FS_Subset

LEMMA InitSummarize == Init => SummarizeInv
<1> SUFFICES ASSUME Init PROVE SummarizeInv
  OBVIOUS
<1>1. repos \in Seq(Statuses)
  <2>1. PICK n \in 0 .. MaxRepos : repos \in [1 .. n -> Statuses]
    BY DEF Init
  <2> QED BY <2>1, SummarizeAssumption DEF SummarizeAssumption
<1>2. SummarizeTypeOK
  BY <1>1 DEF Init, SummarizeTypeOK
<1>3. \A c \in Counters : Counted(c) = {}
  BY DEF Init, Counted
<1>4. CountersCount
  BY <1>3, FS_EmptySet DEF CountersCount, Init
<1>5. BadgeIsBounded
  BY DEF Init, BadgeIsBounded, Counters
<1> QED BY <1>2, <1>4, <1>5 DEF SummarizeInv

\* Each kind of local work makes a repository count for the badge, and nothing else does.
LEMMA AttentionIsLocalWork ==
    ASSUME NEW r
    PROVE  LET parts == {"uncommitted", "ahead", "stashed", "in_progress", "read_errors"}
           IN  "attention" \in Counts(r) <=> \E c \in parts : c \in Counts(r)
BY DEF Counts, IsDirty, Counters

LEMMA SummarizeInductive == SummarizeInv /\ [Next]_vars => SummarizeInv'
<1> SUFFICES ASSUME SummarizeInv, [Next]_vars PROVE SummarizeInv'
  OBVIOUS
<1>1. CASE Step
  <2> DEFINE r == repos[i + 1]
  <2>1. /\ i \in Nat /\ i < Len(repos) /\ i' = i + 1 /\ repos' = repos
        /\ i + 1 \in 0 .. Len(repos) /\ summary \in [Counters -> 0 .. i]
    BY <1>1 DEF Step, SummarizeInv, SummarizeTypeOK
  <2>2. summary' = [c \in Counters |-> IF c \in Counts(r) THEN summary[c] + 1 ELSE summary[c]]
    BY <1>1 DEF Step
  <2> HIDE DEF r
  <2>3. SummarizeTypeOK'
    BY <2>1, <2>2 DEF SummarizeInv, SummarizeTypeOK
  <2>4. ASSUME NEW c \in Counters PROVE summary'[c] = Cardinality(Counted(c)')
    <3>1. Counted(c)' = IF c \in Counts(r) THEN Counted(c) \cup {i + 1} ELSE Counted(c)
      BY <2>1 DEF Counted, r
    <3>2. IsFiniteSet(Counted(c)) /\ i + 1 \notin Counted(c)
      BY <2>1, CountedFinite DEF SummarizeInv, Counted
    <3>3. Cardinality(Counted(c) \cup {i + 1}) = Cardinality(Counted(c)) + 1
      BY <3>2, FS_AddElement
    <3> QED BY <2>2, <3>1, <3>3 DEF SummarizeInv, CountersCount
  <2>5. BadgeIsBounded'
    <3>1. \A c \in Counters : /\ summary[c] \in Nat
                              /\ c \in Counts(r) => summary'[c] = summary[c] + 1
                              /\ c \notin Counts(r) => summary'[c] = summary[c]
      BY <2>1, <2>2
    <3>2. {"attention", "uncommitted", "ahead", "stashed", "in_progress", "read_errors"}
              \subseteq Counters
      BY DEF Counters
    <3> DEFINE Bounded(f) ==
                   /\ \A c \in {"uncommitted", "ahead", "stashed", "in_progress", "read_errors"} :
                         f[c] <= f["attention"]
                   /\ f["attention"] <= f["uncommitted"] + f["ahead"] + f["stashed"]
                                          + f["in_progress"] + f["read_errors"]
    <3>3. Bounded(summary)
      BY DEF SummarizeInv, BadgeIsBounded
    <3>4. ASSUME "attention" \in Counts(r) PROVE Bounded(summary')
      <4>1. \E c \in {"uncommitted", "ahead", "stashed", "in_progress", "read_errors"} :
                c \in Counts(r)
        BY <3>4, AttentionIsLocalWork
      <4> QED BY <3>1, <3>2, <3>3, <3>4, <4>1
    <3>5. ASSUME "attention" \notin Counts(r) PROVE Bounded(summary')
      <4>1. \A c \in {"uncommitted", "ahead", "stashed", "in_progress", "read_errors"} :
                c \notin Counts(r)
        BY <3>5, AttentionIsLocalWork
      <4> QED BY <3>1, <3>2, <3>3, <3>5, <4>1
    <3> QED BY <3>4, <3>5 DEF BadgeIsBounded
  <2> QED BY <2>3, <2>4, <2>5 DEF SummarizeInv, CountersCount
<1>2. CASE UNCHANGED vars
  BY <1>2 DEF vars, SummarizeInv, SummarizeTypeOK, CountersCount, Counted, BadgeIsBounded
<1> QED BY <1>1, <1>2 DEF Next

LEMMA SummarizeInvariant == Spec => []SummarizeInv
BY InitSummarize, SummarizeInductive, PTL DEF Spec

\* The counters keep their types.
THEOREM SummarizeTypeCorrect == Spec => []SummarizeTypeOK
<1>1. SummarizeInv => SummarizeTypeOK
  BY DEF SummarizeInv
<1> QED BY <1>1, SummarizeInvariant, PTL

\* The badge is the length of the Issues tab, for every list of statuses: the server's
\* rule and the clients' rule agree.
THEOREM BadgeIsIssues == Spec => []BadgeCountsIssues
<1>1. SummarizeInv => BadgeCountsIssues
  <2> SUFFICES ASSUME SummarizeInv PROVE BadgeCountsIssues
    OBVIOUS
  <2>1. Counted("attention") = AtRisk
    BY DEF Counted, AtRisk, Counts, IsDirty, NeedsAttention, HasWorkingTreeChanges, Counters
  <2> QED BY <2>1 DEF SummarizeInv, CountersCount, BadgeCountsIssues, Counters
<1> QED BY <1>1, SummarizeInvariant, PTL

\* Nothing that the summary counts is missing in the lists of the clients.
THEOREM NothingCountedIsHidden == Spec => []CountedIsListed
<1>1. SummarizeInv => CountedIsListed
  <2> SUFFICES ASSUME SummarizeInv PROVE CountedIsListed
    OBVIOUS
  <2>1. AtRisk \cup BehindOrUnreachable = ShouldList
    BY DEF AtRisk, BehindOrUnreachable, ShouldList
  <2>2. ASSUME NEW c \in Counters PROVE Counted(c) \subseteq ShouldList
    BY DEF Counted, Counts, IsDirty, ShouldList, NeedsAttention, HasWorkingTreeChanges, Counters
  <2>3. i \in Int
    BY DEF SummarizeInv, SummarizeTypeOK
  <2>4. IsFiniteSet(ShouldList)
    <3>1. IsFiniteSet(1 .. i)
      BY <2>3, FS_Interval
    <3>2. ShouldList \subseteq 1 .. i
      BY DEF ShouldList
    <3> QED BY <3>1, <3>2, FS_Subset
  <2>5. ASSUME NEW c \in Counters
        PROVE  /\ summary[c] <= Cardinality(ShouldList)
               /\ summary[c] > 0 => ShouldList # {}
    <3>1. summary[c] = Cardinality(Counted(c))
      BY DEF SummarizeInv, CountersCount
    <3>2. Counted(c) = {} => Cardinality(Counted(c)) = 0
      BY FS_EmptySet
    <3> QED BY <2>2, <2>4, <3>1, <3>2, FS_Subset
  <2> QED BY <2>1, <2>5 DEF CountedIsListed
<1> QED BY <1>1, SummarizeInvariant, PTL

\* The badge is at least each counter of local work, and at most their sum.
THEOREM BadgeStaysBounded == Spec => []BadgeIsBounded
<1>1. SummarizeInv => BadgeIsBounded
  BY DEF SummarizeInv
<1> QED BY <1>1, SummarizeInvariant, PTL

-----------------------------------------------------------------------------
(* Details.                                                                *)

\* The chains of tests name a kind for every flag of their half, and no other.
LEMMA KindFacts ==
    ASSUME NEW s \in SUBSET Flags
    PROVE  /\ IndexKind(s) \in Kinds \cup {"none"}
           /\ WorktreeKind(s) \in Kinds \cup {"none"}
           /\ IndexKind(s) # "none" <=> s \cap IndexFlags # {}
           /\ WorktreeKind(s) # "none" <=> s \cap WorktreeFlags # {}
<1>1. IndexKind(s) \in Kinds \cup {"none"}
  BY DEF IndexKind, Kinds
<1>2. WorktreeKind(s) \in Kinds \cup {"none"}
  BY DEF WorktreeKind, Kinds
<1>3. IndexKind(s) # "none" <=> s \cap IndexFlags # {}
  BY DEF IndexKind, IndexFlags
<1>4. WorktreeKind(s) # "none" <=> s \cap WorktreeFlags # {}
  BY DEF WorktreeKind, WorktreeFlags
<1> QED BY <1>1, <1>2, <1>3, <1>4

\* An entry goes into the group of a flag exactly if it raises the flag, and into none
\* exactly if it has no flag at all.
LEMMA GroupFacts ==
    ASSUME NEW s \in Entries
    PROVE  /\ GroupKinds(s) \in [Groups -> Kinds \cup {"none"}]
           /\ (\A g \in Groups : GroupKinds(s)[g] = "none") <=> s = {}
           /\ \A h \in [Shown -> BOOLEAN] :
                 /\ WorkingTree(s, h) \in [Shown -> BOOLEAN]
                 /\ \A g \in Shown :
                       WorkingTree(s, h)[g] <=> h[g] \/ GroupKinds(s)[g] # "none"
<1>1. s \in SUBSET Flags
  BY DetailsAssumption DEF DetailsAssumption
<1>2. "CONFLICTED" \in s => s = {"CONFLICTED"}
  BY DetailsAssumption DEF DetailsAssumption
<1>3. GroupKinds(s) \in [Groups -> Kinds \cup {"none"}]
  BY <1>1, KindFacts DEF GroupKinds, Groups, Shown, Kinds
<1>4. ASSUME NEW h \in [Shown -> BOOLEAN]
      PROVE  WorkingTree(s, h) \in [Shown -> BOOLEAN]
  BY DEF WorkingTree, Shown
<1>5. ASSUME NEW h \in [Shown -> BOOLEAN], NEW g \in Shown
      PROVE  WorkingTree(s, h)[g] <=> h[g] \/ GroupKinds(s)[g] # "none"
  <2>1. g \in {"staged", "unstaged", "untracked"} /\ g \in Groups
    BY DEF Shown, Groups
  <2>2. CASE "CONFLICTED" \in s
    BY <1>2, <2>1, <2>2
       DEF WorkingTree, GroupKinds, Groups, Shown, IndexFlags, WorktreeFlags
  <2>3. CASE "CONFLICTED" \notin s
    BY <1>1, <2>1, <2>3, KindFacts DEF WorkingTree, GroupKinds, Groups, Shown
  <2> QED BY <2>2, <2>3
<1>6. (\A g \in Groups : GroupKinds(s)[g] = "none") <=> s = {}
  <2>1. CASE "CONFLICTED" \in s
    BY <2>1 DEF GroupKinds, Groups
  <2>2. CASE "CONFLICTED" \notin s
    <3> DEFINE k == GroupKinds(s)
    <3>1. /\ k["staged"] = IndexKind(s) /\ k["unstaged"] = WorktreeKind(s)
          /\ k["untracked"] = (IF "WT_NEW" \in s THEN "untracked" ELSE "none")
          /\ k["conflicted"] = "none"
      BY <2>2 DEF GroupKinds, Groups, Shown
    <3> HIDE DEF k
    <3>2. (\A g \in Groups : k[g] = "none") <=>
              s \cap IndexFlags = {} /\ s \cap WorktreeFlags = {} /\ "WT_NEW" \notin s
      BY <1>1, <3>1, KindFacts DEF Groups, Shown
    <3>3. s \subseteq IndexFlags \cup WorktreeFlags \cup {"WT_NEW"}
      BY <1>1, <2>2 DEF Flags
    <3> QED BY <3>2, <3>3 DEF k
  <2> QED BY <2>1, <2>2
<1> QED BY <1>3, <1>4, <1>5, <1>6

DetailsInv == DetailsTypeOK /\ CardMatchesRow /\ ListedUpToCap /\ NoFilesNoChanges

LEMMA InitDetails == DetailsInit => DetailsInv
<1> SUFFICES ASSUME DetailsInit PROVE DetailsInv
  OBVIOUS
<1>1. list \in Seq(Entries) /\ read \in 0 .. Len(list)
  <2>1. PICK n \in 0 .. MaxEntries : list \in [1 .. n -> Entries]
    BY DEF DetailsInit
  <2>2. n \in Nat
    BY <2>1
  <2>3. list \in Seq(Entries)
    BY <2>1, <2>2
  <2>4. Len(list) \in Nat
    BY <2>3
  <2> QED BY <2>3, <2>4 DEF DetailsInit
<1>2. DetailsTypeOK
  BY <1>1 DEF DetailsInit, DetailsTypeOK
<1>3. CardMatchesRow
  BY DEF DetailsInit, CardMatchesRow, Shown, Groups
<1>4. ListedUpToCap
  BY DetailsAssumption DEF DetailsInit, ListedUpToCap, DetailsAssumption
<1>5. NoFilesNoChanges
  BY DEF DetailsInit, NoFilesNoChanges
<1> QED BY <1>2, <1>3, <1>4, <1>5 DEF DetailsInv

LEMMA DetailsInductive == DetailsInv /\ [DetailsNext]_detailsVars => DetailsInv'
<1> SUFFICES ASSUME DetailsInv, [DetailsNext]_detailsVars PROVE DetailsInv'
  OBVIOUS
<1> USE DEF DetailsInv
<1>1. CASE ReadEntry
  <2> DEFINE s == list[read + 1]
             kinds == GroupKinds(s)
  <2>1. /\ s \in Entries
        /\ read + 1 \in 0 .. Len(list)
    BY <1>1 DEF ReadEntry, DetailsTypeOK
  <2>2. /\ kinds \in [Groups -> Kinds \cup {"none"}]
        /\ WorkingTree(s, has) \in [Shown -> BOOLEAN]
        /\ \A g \in Shown : WorkingTree(s, has)[g] <=> has[g] \/ kinds[g] # "none"
        /\ (\A g \in Groups : kinds[g] = "none") <=> s = {}
    BY <2>1, GroupFacts DEF DetailsTypeOK
  <2>3. /\ total' = [g \in Groups |->
                        IF kinds[g] # "none" THEN total[g] + 1 ELSE total[g]]
        /\ files' = [g \in Groups |->
                        IF kinds[g] # "none" /\ Len(files[g]) < DetailCap
                        THEN Append(files[g], kinds[g]) ELSE files[g]]
        /\ has' = WorkingTree(s, has)
        /\ read' = read + 1 /\ list' = list
    BY <1>1 DEF ReadEntry, Room
  <2>10. s = list'[read']
    BY <2>3
  <2> HIDE DEF s, kinds
  <2>4. total' \in [Groups -> Nat]
    BY <2>3 DEF DetailsTypeOK
  <2>5. /\ files' \in [Groups -> Seq(Kinds)]
        /\ \A g \in Groups :
              Len(files'[g]) = IF kinds[g] # "none" /\ Len(files[g]) < DetailCap
                               THEN Len(files[g]) + 1 ELSE Len(files[g])
    BY <2>2, <2>3 DEF DetailsTypeOK
  <2>6. DetailsTypeOK'
    BY <2>1, <2>2, <2>3, <2>4, <2>5 DEF DetailsTypeOK
  <2>7. CardMatchesRow'
    <3> SUFFICES ASSUME NEW g \in Shown PROVE has'[g] <=> total'[g] > 0
      BY DEF CardMatchesRow
    <3>1. g \in Groups /\ total[g] \in Nat
      BY DEF Groups, DetailsTypeOK
    <3>2. has'[g] <=> has[g] \/ kinds[g] # "none"
      BY <2>2, <2>3
    <3>3. total'[g] > 0 <=> total[g] > 0 \/ kinds[g] # "none"
      BY <2>3, <3>1
    <3> QED BY <3>2, <3>3 DEF CardMatchesRow
  <2>8. ListedUpToCap'
    <3> SUFFICES ASSUME NEW g \in Groups
                 PROVE  Len(files'[g]) =
                            IF total'[g] <= DetailCap THEN total'[g] ELSE DetailCap
      BY DEF ListedUpToCap
    <3>1. /\ total[g] \in Nat /\ Len(files[g]) \in Nat /\ DetailCap \in Nat
      BY DetailsAssumption DEF DetailsTypeOK, DetailsAssumption
    <3>2. Len(files[g]) = IF total[g] <= DetailCap THEN total[g] ELSE DetailCap
      BY DEF ListedUpToCap
    <3>3. total'[g] = IF kinds[g] # "none" THEN total[g] + 1 ELSE total[g]
      BY <2>3
    <3> QED BY <2>5, <3>1, <3>2, <3>3
  <2>9. NoFilesNoChanges'
    <3>1. \A g \in Groups : total[g] \in Nat
      BY DEF DetailsTypeOK
    <3>2. (\A g \in Groups : total'[g] = 0) <=>
              (\A g \in Groups : total[g] = 0) /\ (\A g \in Groups : kinds[g] = "none")
      BY <2>3, <3>1
    <3>3. (\A j \in 1 .. read' : list'[j] = {}) <=> (\A j \in 1 .. read : list[j] = {}) /\ s = {}
      <4>1. read \in Nat /\ 1 .. read' = (1 .. read) \cup {read'}
        BY <2>3 DEF DetailsTypeOK
      <4> QED BY <2>3, <2>10, <4>1
    <3> QED BY <2>2, <3>2, <3>3 DEF NoFilesNoChanges
  <2> QED BY <2>6, <2>7, <2>8, <2>9
<1>2. CASE UNCHANGED detailsVars
  BY <1>2 DEF detailsVars, DetailsTypeOK, CardMatchesRow, ListedUpToCap, NoFilesNoChanges
<1> QED BY <1>1, <1>2 DEF DetailsNext

LEMMA DetailsInvariant == DetailsSpec => []DetailsInv
BY InitDetails, DetailsInductive, PTL DEF DetailsSpec

\* The two readings of the status list are well typed.
THEOREM DetailsTypeCorrect == DetailsSpec => []DetailsTypeOK
<1>1. DetailsInv => DetailsTypeOK
  BY DEF DetailsInv
<1> QED BY <1>1, DetailsInvariant, PTL

\* The hover card's groups and the row's flags agree for every combination of
\* flags and any number of files (working_tree against fill_details).
THEOREM CardAlwaysMatchesRow == DetailsSpec => []CardMatchesRow
<1>1. DetailsInv => CardMatchesRow
  BY DEF DetailsInv
<1> QED BY <1>1, DetailsInvariant, PTL

\* A group lists its files up to the cap and counts all of them (FileGroup::push).
THEOREM GroupsListUpToCap == DetailsSpec => []ListedUpToCap
<1>1. DetailsInv => ListedUpToCap
  BY DEF DetailsInv
<1> QED BY <1>1, DetailsInvariant, PTL

\* A card without files means a status list without a flag, conflicts included
\* (fill_details).
THEOREM EmptyCardIsClean == DetailsSpec => []NoFilesNoChanges
<1>1. DetailsInv => NoFilesNoChanges
  BY DEF DetailsInv
<1> QED BY <1>1, DetailsInvariant, PTL
-----------------------------------------------------------------------------
(* Inspection.                                                             *)

\* What compute_status has read while it is not done.
TreeRead == pc \in {"state", "stash", "detached", "head", "upstream"}
StateRead == pc \in {"stash", "detached", "head", "upstream"}
StashRead == pc \in {"detached", "head", "upstream"}
DetachedRead == pc \in {"head", "upstream"}

\* As long as nothing changes, the status is what these reads find and blank otherwise.
QuietSoFar ==
    seen = {repo} /\ pc # "done" =>
        /\ pc # "open" => repo.readable
        /\ pc = "tree" => listed = {repo.files[f] : f \in Files \ unread}
        /\ status.has_staged <=> TreeRead /\ Some("staged")
        /\ status.has_unstaged <=> TreeRead /\ Some("unstaged")
        /\ status.has_untracked <=> TreeRead /\ Some("untracked")
        /\ status.operation = "clean" <=> (StateRead => repo.state = "Clean")
        /\ status.stash_count = IF StashRead THEN repo.stashes ELSE 0
        /\ status.detached_head <=> DetachedRead /\ repo.head = "detached"
        /\ status.branch <=> pc = "upstream"
        /\ status.upstream = Unknown
        /\ ~status.error
        /\ pc = "upstream" => repo.head = "branch" /\ target.ahead = repo.ahead

\* What has been there all along.
SteadyOperation == \A r \in seen : r.state # "Clean"
SteadyStash == \A r \in seen : r.readable /\ r.stashes > 0
SteadyAhead == \A r \in seen : IsAhead(r)

\* A file that has been changed all along is in the list once it has been visited.
FilesListed ==
    \A f \in Files \ unread :
        (\A r \in seen : r.files[f] \in Flagged) => \E r \in seen : r.files[f] \in listed

\* Work that has been there all along is in the status once it has been read; the
\* HEAD that ahead is read from is a branch's, with a commit that no remote has.
SteadySoFar ==
    /\ pc = "tree" => FilesListed
    /\ TreeRead => FilesShown
    /\ StateRead /\ SteadyOperation => status.operation # "clean"
    /\ StashRead /\ SteadyStash => status.stash_count > 0
    /\ DetachedRead /\ SteadyAhead => ~status.detached_head
    /\ pc = "upstream" /\ SteadyAhead => target.ahead > 0

\* What HEAD still has of the HEAD that was read.
TargetShared == target.shared <= target.ahead /\ target.shared <= repo.ahead

InspectionInv ==
    /\ InspectionTypeOK /\ TargetShared
    /\ QuietSoFar /\ ExactWhenQuiet
    /\ SteadySoFar /\ SteadyWorkShown

\* Every state has an operation, and only the state Clean is no operation.
LEMMA MapStateFacts ==
    \A s \in GitStates : MapState(s) \in Operations /\ (MapState(s) = "clean" <=> s = "Clean")
BY DEF GitStates, Operations, MapState

\* A file that was shown is shown as long as the flags stay, and a file that has not been
\* changed all along needs none.
LEMMA FilesStayShown ==
    ASSUME FilesShown, seen \subseteq seen',
           status'.has_staged = status.has_staged,
           status'.has_unstaged = status.has_unstaged,
           status'.has_untracked = status.has_untracked
    PROVE  FilesShown'
<1>1. \A k \in Flagged : Flag(k)' <=> Flag(k)
  BY DEF Flagged, Flag
<1>2. SUFFICES ASSUME NEW f \in Files, \A r \in seen' : r.files[f] \in Flagged
               PROVE  \E r \in seen' : Flag(r.files[f])'
  BY DEF FilesShown
<1>3. PICK r \in seen : Flag(r.files[f])
  BY <1>2 DEF FilesShown
<1> QED BY <1>1, <1>2, <1>3

LEMMA InitInspection == InspectInit => InspectionInv
<1> SUFFICES ASSUME InspectInit PROVE InspectionInv
  OBVIOUS
<1>1. InspectionTypeOK
  BY InspectionAssumption
  DEF InspectInit, InspectionTypeOK, InspectionAssumption, Status, Blank, Unknown, Operations
<1>2. TargetShared
  BY <1>1 DEF InspectInit, InspectionTypeOK, TargetShared, Repo
<1>3. QuietSoFar
  BY DEF InspectInit, QuietSoFar, TreeRead, StateRead, StashRead, DetachedRead, Blank
<1>4. SteadySoFar
  BY DEF InspectInit, SteadySoFar, TreeRead, StateRead, StashRead, DetachedRead
<1> QED BY <1>1, <1>2, <1>3, <1>4 DEF InspectInit, InspectionInv, ExactWhenQuiet, SteadyWorkShown

Targets == [ahead : 0 .. MaxWork, shared : 0 .. MaxWork]

\* What the user does to HEAD while it is being read: if commits that were read are
\* pushed, then HEAD has none left that no remote has.
LEMMA UserMoves ==
    ASSUME InspectionTypeOK, TargetShared, User
    PROVE  \E r \in Repo, t \in Targets :
              /\ Moves(r, t)
              /\ t.shared <= t.ahead /\ t.shared <= r.ahead /\ t.ahead <= target.ahead
              /\ t.ahead = target.ahead \/ r.ahead = 0
<1> DEFINE
      Good(r, t) ==
        /\ t.shared <= t.ahead /\ t.shared <= r.ahead /\ t.ahead <= target.ahead
        /\ t.ahead = target.ahead \/ r.ahead = 0
      Allowed == \E r \in Repo, t \in Targets : Moves(r, t) /\ Good(r, t)
<1>1. /\ repo \in Repo /\ target \in Targets
      /\ MaxWork \in Nat \ {0} /\ {"Clean", "Merge"} \subseteq States
  BY InspectionAssumption DEF InspectionTypeOK, InspectionAssumption, Targets
<1>2. repo.ahead \in 0 .. MaxWork /\ repo.stashes \in 0 .. MaxWork
  BY <1>1 DEF Repo
<1>3. target.ahead \in 0 .. MaxWork /\ target.shared \in 0 .. MaxWork
  BY <1>1 DEF Targets
<1>4. ASSUME NEW r \in Repo, NEW t \in Targets, Moves(r, t), Good(r, t) PROVE Allowed
  BY <1>4
<1>5. ASSUME NEW r \in Repo, r.ahead >= repo.ahead, Becomes(r) PROVE Allowed
  <2>1. r.ahead \in 0 .. MaxWork
    BY DEF Repo
  <2>2. Good(r, target)
    BY <1>2, <1>3, <1>5, <2>1 DEF TargetShared
  <2> QED BY <1>1, <1>4, <1>5, <2>2 DEF Becomes
<1>6. ASSUME NEW f \in Files,
             NEW k \in FileKinds
      PROVE  [repo EXCEPT !.files[f] = k] \in Repo
  BY <1>1 DEF Repo
<1>7. CASE Commit
  <2> DEFINE r == [repo EXCEPT
                  !.files = [f \in Files |-> IF @[f] = "staged" THEN "clean" ELSE @[f]],
                  !.ahead = @ + 1,
                  !.state = "Clean",
                  !.head = IF @ = "unborn" THEN "branch" ELSE @]
  <2>0. repo.ahead + 1 \in 0 .. MaxWork
    BY <1>1, <1>2, <1>7 DEF Commit
  <2>1. r \in Repo /\ r.ahead = repo.ahead + 1
    BY <1>1, <1>2, <2>0 DEF Repo, FileKinds
  <2>2. Becomes(r)
    BY <1>7 DEF Commit
  <2> HIDE DEF r
  <2> QED BY <1>2, <1>5, <2>1, <2>2
<1>8. CASE StashPush
  <2> DEFINE r == [repo EXCEPT !.files = [f \in Files |-> "clean"], !.stashes = @ + 1]
  <2>0. repo.stashes + 1 \in 0 .. MaxWork
    BY <1>1, <1>2, <1>8 DEF StashPush
  <2>1. r \in Repo /\ r.ahead = repo.ahead
    BY <1>1, <1>2, <2>0 DEF Repo, FileKinds
  <2>2. Becomes(r)
    BY <1>8 DEF StashPush
  <2> HIDE DEF r
  <2> QED BY <1>2, <1>5, <2>1, <2>2
<1>9. CASE Push
  <2> DEFINE r == [repo EXCEPT !.ahead = 0]
             t == [ahead |-> target.ahead - target.shared, shared |-> 0]
  <2>1. r \in Repo /\ r.ahead = 0
    BY <1>1 DEF Repo
  <2>2. t \in Targets /\ t.shared = 0 /\ t.ahead <= target.ahead /\ t.ahead \in Nat
    BY <1>1, <1>3 DEF Targets, TargetShared
  <2>3. Moves(r, t)
    BY <1>9 DEF Push
  <2>4. Good(r, t)
    BY <1>3, <2>1, <2>2
  <2> HIDE DEF r, t
  <2> QED BY <1>4, <2>1, <2>2, <2>3, <2>4
<1>10. CASE Switch
  <2> DEFINE r == [repo EXCEPT !.head = IF @ = "branch" THEN "detached" ELSE "branch"]
  <2>1. r \in Repo /\ r.ahead = repo.ahead
    BY <1>1, <1>2, <1>10 DEF Repo, Switch
  <2>2. Becomes(r)
    BY <1>10 DEF Switch
  <2> HIDE DEF r
  <2> QED BY <1>2, <1>5, <2>1, <2>2
<1>11. CASE Access
  <2> DEFINE r == [repo EXCEPT !.readable = ~@]
  <2>1. r \in Repo /\ r.ahead = repo.ahead
    BY <1>1, <1>2, <1>11 DEF Repo, Access
  <2>2. Becomes(r)
    BY <1>11 DEF Access
  <2> HIDE DEF r
  <2> QED BY <1>2, <1>5, <2>1, <2>2
<1>12. ASSUME NEW f \in Files, Edit(f) \/ Discard(f) \/ Stage(f)
       PROVE  Allowed
  <2>1. PICK k \in {"clean", "staged", "unstaged", "untracked"} :
            Becomes([repo EXCEPT !.files[f] = k])
    BY <1>12 DEF Edit, Discard, Stage
  <2> DEFINE r == [repo EXCEPT !.files[f] = k]
  <2>2. r \in Repo /\ r.ahead = repo.ahead
    BY <1>1, <1>6 DEF Repo, FileKinds
  <2>3. Becomes(r)
    BY <2>1
  <2> HIDE DEF r
  <2> QED BY <1>2, <1>5, <2>2, <2>3
<1>13. ASSUME NEW f \in Files, SoftReset(f)
       PROVE  Allowed
  <2> DEFINE r == [repo EXCEPT !.files[f] = "staged", !.ahead = @ - 1]
             t == [target EXCEPT !.shared = IF @ = repo.ahead THEN @ - 1 ELSE @]
  <2>0. repo.ahead - 1 \in 0 .. MaxWork
    BY <1>1, <1>2, <1>13 DEF SoftReset
  <2>1. r \in Repo /\ r.ahead = repo.ahead - 1
    BY <1>1, <1>2, <2>0 DEF Repo, FileKinds
  <2>2. /\ t \in Targets /\ t.ahead = target.ahead
        /\ t.shared = IF target.shared = repo.ahead THEN target.shared - 1 ELSE target.shared
    BY <1>1, <1>2, <1>3, <1>13 DEF Targets, SoftReset
  <2>3. Moves(r, t)
    BY <1>13 DEF SoftReset
  <2>4. Good(r, t)
    BY <1>2, <1>3, <1>13, <2>1, <2>2 DEF TargetShared, SoftReset
  <2> HIDE DEF r, t
  <2> QED BY <1>4, <2>1, <2>2, <2>3, <2>4
<1>14. ASSUME NEW f \in Files, StashPop(f)
       PROVE  Allowed
  <2> DEFINE r == [repo EXCEPT !.files[f] = "unstaged", !.stashes = @ - 1]
             q == [repo EXCEPT !.files[f] = "conflicted"]
  <2>0. repo.stashes - 1 \in 0 .. MaxWork
    BY <1>1, <1>2, <1>14 DEF StashPop
  <2>1. r \in Repo /\ r.ahead = repo.ahead /\ q \in Repo /\ q.ahead = repo.ahead
    BY <1>1, <1>2, <2>0 DEF Repo, FileKinds
  <2>2. Becomes(r) \/ Becomes(q)
    BY <1>14 DEF StashPop
  <2> HIDE DEF r, q
  <2> QED BY <1>2, <1>5, <2>1, <2>2
<1>15. ASSUME NEW f \in Files, Merge(f)
       PROVE  Allowed
  <2> DEFINE r == [repo EXCEPT !.files[f] = "conflicted", !.state = "Merge"]
  <2>1. r \in Repo /\ r.ahead = repo.ahead
    BY <1>1, <1>2, <1>15 DEF Repo, FileKinds, Merge
  <2>2. Becomes(r)
    BY <1>15 DEF Merge
  <2> HIDE DEF r
  <2> QED BY <1>2, <1>5, <2>1, <2>2
<1> QED
  <2>1. Allowed
    BY <1>7, <1>8, <1>9, <1>10, <1>11, <1>12, <1>13, <1>14, <1>15 DEF User
  <2> QED BY <2>1

\* A step of the user: what is steady after it was steady before, and if nothing else
\* has been seen, nothing has changed.
LEMMA UserPreserves == InspectionInv /\ User => InspectionInv'
<1> SUFFICES ASSUME InspectionInv, User PROVE InspectionInv'
  OBVIOUS
<1>1. PICK r \in Repo, t \in Targets :
          /\ Moves(r, t)
          /\ t.shared <= t.ahead /\ t.shared <= r.ahead /\ t.ahead <= target.ahead
          /\ t.ahead = target.ahead \/ r.ahead = 0
  BY UserMoves DEF InspectionInv
<1>2. /\ repo' = r /\ target' = t /\ pc' = pc /\ status' = status /\ pc # "done"
      /\ unread' = unread /\ listed' = listed
      /\ seen' = seen \cup {r} /\ changes' = changes + 1 /\ changes < MaxChanges
  BY <1>1 DEF Moves
<1>3. t.ahead \in Nat /\ target.ahead \in Nat /\ r.ahead \in Nat
  <2>1. r.ahead \in 0 .. MaxWork /\ t.ahead \in 0 .. MaxWork
    BY DEF Repo, Targets
  <2>2. target.ahead \in 0 .. MaxWork
    BY DEF InspectionInv, InspectionTypeOK
  <2> QED BY <2>1, <2>2, InspectionAssumption DEF InspectionAssumption
<1>4. InspectionTypeOK'
  BY <1>1, <1>2, InspectionAssumption
  DEF InspectionInv, InspectionTypeOK, InspectionAssumption, Targets
<1>5. TargetShared'
  BY <1>1, <1>2 DEF TargetShared
<1>6. QuietSoFar'
  <2> SUFFICES ASSUME seen' = {repo'}
               PROVE  QuietSoFar'
    BY DEF QuietSoFar
  <2>1. repo = r /\ seen = {repo} /\ repo' = repo
    BY <1>2 DEF InspectionInv, InspectionTypeOK
  <2>2. /\ TreeRead' = TreeRead /\ StateRead' = StateRead
        /\ StashRead' = StashRead /\ DetachedRead' = DetachedRead
        /\ \A k : Some(k)' <=> Some(k)
    BY <1>2, <2>1 DEF TreeRead, StateRead, StashRead, DetachedRead, Some
  <2>3. pc = "upstream" /\ target.ahead = repo.ahead => target'.ahead = repo'.ahead
    BY <1>1, <1>2, <1>3, <2>1
  <2>4. QuietSoFar
    BY DEF InspectionInv
  <2> QED BY <1>2, <2>1, <2>2, <2>3, <2>4 DEF QuietSoFar
<1>7. SteadySoFar'
  <2>1. /\ SteadyOperation' => SteadyOperation
        /\ SteadyStash' => SteadyStash
        /\ SteadyAhead' => SteadyAhead
    BY <1>2 DEF SteadyOperation, SteadyStash, SteadyAhead, IsAhead
  <2>2. /\ TreeRead' = TreeRead /\ StateRead' = StateRead
        /\ StashRead' = StashRead /\ DetachedRead' = DetachedRead
    BY <1>2 DEF TreeRead, StateRead, StashRead, DetachedRead
  <2>3. SteadyAhead' => t.ahead = target.ahead
    <3>1. SteadyAhead' => r.ahead > 0
      BY <1>2 DEF SteadyAhead, IsAhead
    <3> QED BY <1>1, <1>3, <3>1
  <2>4. FilesListed => FilesListed'
    BY <1>2 DEF FilesListed
  <2>5. FilesShown => FilesShown'
    BY <1>2, FilesStayShown
  <2> QED BY <1>2, <2>1, <2>2, <2>3, <2>4, <2>5 DEF InspectionInv, SteadySoFar
<1> QED BY <1>2, <1>4, <1>5, <1>6, <1>7 DEF InspectionInv, ExactWhenQuiet, SteadyWorkShown

\* What every read leaves alone, and which HEAD it leaves read.
LEMMA ReadFacts ==
    ASSUME InspectionInv, NEW from, NEW to, NEW s, Read(from, to, s)
    PROVE  /\ pc = from /\ pc' = to /\ status' = s
           /\ repo' = repo /\ seen' = seen /\ changes' = changes
           /\ unread' = IF to = "tree" THEN Files ELSE {}
           /\ listed' = {}
           /\ to # "upstream" => target' = target
           /\ to = "upstream" => target'.ahead = repo.ahead
           /\ target' \in Targets /\ TargetShared'
           /\ \A k : Some(k)' <=> Some(k)
           /\ SteadyOperation' <=> SteadyOperation
           /\ SteadyStash' <=> SteadyStash
           /\ SteadyAhead' <=> SteadyAhead
           /\ SteadyOperation => repo.state # "Clean"
           /\ SteadyStash => repo.readable /\ repo.stashes > 0
           /\ SteadyAhead => IsAhead(repo)
<1>1. /\ pc = from /\ pc' = to /\ status' = s
      /\ repo' = repo /\ seen' = seen /\ changes' = changes
      /\ unread' = IF to = "tree" THEN Files ELSE {}
      /\ listed' = {}
      /\ target' = IF to = "upstream" THEN [ahead |-> repo.ahead, shared |-> repo.ahead]
                                      ELSE target
  BY DEF Read
<1>2. repo \in Repo /\ repo \in seen /\ target \in Targets
  BY DEF InspectionInv, InspectionTypeOK, Targets
<1>3. repo.ahead \in 0 .. MaxWork
  BY <1>2 DEF Repo
<1>4. target' \in Targets /\ TargetShared'
  <2>1. CASE to = "upstream"
    BY <1>1, <1>3, <2>1, InspectionAssumption DEF Targets, TargetShared, InspectionAssumption
  <2>2. CASE to # "upstream"
    BY <1>1, <1>2, <2>2 DEF TargetShared, InspectionInv
  <2> QED BY <2>1, <2>2
<1>5. \A k : Some(k)' <=> Some(k)
  BY <1>1 DEF Some
<1>6. /\ SteadyOperation' <=> SteadyOperation
      /\ SteadyStash' <=> SteadyStash
      /\ SteadyAhead' <=> SteadyAhead
  BY <1>1 DEF SteadyOperation, SteadyStash, SteadyAhead, IsAhead
<1>7. /\ SteadyOperation => repo.state # "Clean"
      /\ SteadyStash => repo.readable /\ repo.stashes > 0
      /\ SteadyAhead => IsAhead(repo)
  BY <1>2 DEF SteadyOperation, SteadyStash, SteadyAhead
<1> QED BY <1>1, <1>4, <1>5, <1>6, <1>7

\* The last read: what it leaves has to be exact and complete.
LEMMA LastPreserves ==
    ASSUME InspectionInv, NEW from, NEW s, Read(from, "done", s), s \in Status,
           seen = {repo} => Shows(s, repo),
           repo.readable => TreeRead /\ StateRead /\ StashRead,
           /\ s.has_staged = status.has_staged /\ s.has_unstaged = status.has_unstaged
           /\ s.has_untracked = status.has_untracked /\ s.operation = status.operation
           /\ s.stash_count = status.stash_count,
           repo.readable /\ SteadyAhead => s.upstream.ahead > 0
    PROVE  InspectionInv'
<1>1. /\ pc' = "done" /\ status' = s /\ repo' = repo /\ seen' = seen /\ changes' = changes
      /\ target' \in Targets /\ TargetShared'
  BY ReadFacts
<1>2. InspectionTypeOK'
  <2>1. unread' = {} /\ listed' = {}
    BY ReadFacts
  <2> QED BY <1>1, <2>1 DEF InspectionInv, InspectionTypeOK, Targets
<1>3. ExactWhenQuiet'
  BY <1>1 DEF ExactWhenQuiet, Shows
<1>4. QuietSoFar' /\ SteadySoFar'
  BY <1>1 DEF QuietSoFar, SteadySoFar, TreeRead, StateRead, StashRead, DetachedRead
<1>5. SteadyWorkShown'
  <2>1. SUFFICES ASSUME \A r \in seen : r.readable
                 PROVE  /\ FilesShown'
                        /\ (\A r \in seen : r.stashes > 0) => s.stash_count > 0
                        /\ (\A r \in seen : r.state # "Clean") => s.operation # "clean"
                        /\ (\A r \in seen : IsAhead(r)) => s.upstream.ahead > 0
    BY <1>1 DEF SteadyWorkShown, IsAhead
  <2>2. repo.readable
    BY <2>1 DEF InspectionInv, InspectionTypeOK
  <2>3. SteadySoFar /\ TreeRead /\ StateRead /\ StashRead
    BY <2>2 DEF InspectionInv
  <2>4. FilesShown'
    BY <1>1, <2>3, FilesStayShown DEF SteadySoFar
  <2>5. (\A r \in seen : r.stashes > 0) => s.stash_count > 0
    BY <2>1, <2>3 DEF SteadySoFar, SteadyStash
  <2>6. (\A r \in seen : r.state # "Clean") => s.operation # "clean"
    BY <2>3 DEF SteadySoFar, SteadyOperation
  <2>7. (\A r \in seen : IsAhead(r)) => s.upstream.ahead > 0
    BY <2>2 DEF SteadyAhead
  <2> QED BY <2>4, <2>5, <2>6, <2>7
<1> QED BY <1>1, <1>2, <1>3, <1>4, <1>5 DEF InspectionInv

\* An error keeps what has been read.
LEMMA FailedStatus ==
    ASSUME InspectionTypeOK, NEW b \in BOOLEAN
    PROVE  LET s == [Failed EXCEPT !.branch = b]
           IN  /\ s \in Status /\ s.error
               /\ s.has_staged = status.has_staged /\ s.has_unstaged = status.has_unstaged
               /\ s.has_untracked = status.has_untracked /\ s.operation = status.operation
               /\ s.stash_count = status.stash_count
BY DEF InspectionTypeOK, Failed, Status

\* A read in the middle: what it adds to the status is enough for both invariants.
LEMMA ReadPreserves == InspectionInv /\ ComputeStatus => InspectionInv'
<1> SUFFICES ASSUME InspectionInv, ComputeStatus PROVE InspectionInv'
  OBVIOUS
<1>0. /\ InspectionTypeOK /\ QuietSoFar /\ SteadySoFar
      /\ repo \in Repo /\ status \in Status /\ repo.stashes \in 0 .. MaxWork
      /\ repo.behind \in 0 .. 1 /\ target.ahead \in 0 .. MaxWork
      /\ repo.state \in GitStates /\ MaxWork \in Nat \ {0}
      /\ repo.readable \in BOOLEAN
  BY InspectionAssumption
  DEF InspectionInv, InspectionTypeOK, InspectionAssumption, Repo
<1> DEFINE Between(from, to, s) ==
      /\ Read(from, to, s) /\ s \in Status
      /\ to \in {"tree", "state", "stash", "detached", "head", "upstream"}
<1>1. ASSUME NEW from, NEW to, NEW s, Between(from, to, s),
             SteadySoFar', QuietSoFar'
      PROVE  InspectionInv'
  <2>1. InspectionTypeOK'
    BY <1>0, <1>1, ReadFacts DEF InspectionTypeOK, Targets
  <2> QED BY <1>1, <2>1, ReadFacts DEF InspectionInv, ExactWhenQuiet, SteadyWorkShown
<1>2. CASE Open /\ repo.readable
  <2>1. Between("open", "tree", status)
    BY <1>0, <1>2 DEF Open
  <2>2. QuietSoFar'
    BY <1>0, <1>2, <2>1, ReadFacts
    DEF QuietSoFar, TreeRead, StateRead, StashRead, DetachedRead
  <2>3. SteadySoFar'
    BY <1>0, <1>2, <2>1, ReadFacts
    DEF SteadySoFar, FilesListed, TreeRead, StateRead, StashRead, DetachedRead
  <2> QED BY <1>1, <2>1, <2>2, <2>3
<1>3. CASE ReadTree /\ repo.readable
  <2> DEFINE s == [status EXCEPT !.has_staged = "staged" \in listed,
                                 !.has_unstaged = "unstaged" \in listed,
                                 !.has_untracked = "untracked" \in listed]
  <2>1. /\ s \in Status
        /\ s.has_staged = ("staged" \in listed) /\ s.has_unstaged = ("unstaged" \in listed)
        /\ s.has_untracked = ("untracked" \in listed)
        /\ s.stash_count = status.stash_count /\ s.operation = status.operation
        /\ s.branch = status.branch /\ s.detached_head = status.detached_head
        /\ s.upstream = status.upstream /\ s.error = status.error
    <3>1. status \in Status
      BY <1>0
    <3>2. \A c : (c \in listed) \in BOOLEAN
      OBVIOUS
    <3> QED BY <3>1, <3>2 DEF Status
  <2>2. Between("tree", "state", s) /\ unread = {} /\ pc = "tree"
    BY <1>3, <2>1 DEF ReadTree, Read
  <2> HIDE DEF s
  <2>3. QuietSoFar'
    <3>1. SUFFICES ASSUME seen = {repo}
                   PROVE  QuietSoFar'
      BY <2>2, ReadFacts DEF QuietSoFar
    <3>2. listed = {repo.files[f] : f \in Files}
      BY <1>0, <2>2, <3>1 DEF QuietSoFar
    <3>3. \A k : k \in listed <=> Some(k)
      BY <3>2 DEF Some
    <3>4. /\ s.has_staged <=> Some("staged")
          /\ s.has_unstaged <=> Some("unstaged")
          /\ s.has_untracked <=> Some("untracked")
      BY <2>1, <3>3
    <3> QED BY <1>0, <1>3, <2>1, <2>2, <3>1, <3>4, ReadFacts
         DEF QuietSoFar, TreeRead, StateRead, StashRead, DetachedRead
  <2>4. FilesShown'
    <3>1. SUFFICES ASSUME NEW f \in Files, \A r \in seen : r.files[f] \in Flagged
                   PROVE  \E r \in seen : Flag(r.files[f])'
      BY <2>2, ReadFacts DEF FilesShown
    <3>2. PICK r \in seen : r.files[f] \in listed
      BY <1>0, <2>2, <3>1 DEF SteadySoFar, FilesListed
    <3>3. status' = s
      BY <2>2, ReadFacts
    <3>4. \A k \in Flagged : Flag(k)' <=> k \in listed
      BY <2>1, <3>3 DEF Flagged, Flag
    <3> QED BY <3>1, <3>2, <3>4
  <2>5. SteadySoFar'
    BY <2>2, <2>4, ReadFacts
    DEF SteadySoFar, TreeRead, StateRead, StashRead, DetachedRead
  <2> QED BY <1>1, <2>2, <2>3, <2>5
<1>4. CASE ReadState
  <2> DEFINE s == [status EXCEPT !.operation = MapState(repo.state)]
  <2>1. /\ s \in Status
        /\ s.operation = "clean" <=> repo.state = "Clean"
        /\ s.has_staged = status.has_staged /\ s.has_unstaged = status.has_unstaged
        /\ s.has_untracked = status.has_untracked
        /\ s.stash_count = status.stash_count
        /\ s.branch = status.branch /\ s.detached_head = status.detached_head
        /\ s.upstream = status.upstream /\ s.error = status.error
    BY <1>0, MapStateFacts DEF Status
  <2>2. Between("state", "stash", s)
    BY <1>4, <2>1 DEF ReadState
  <2> HIDE DEF s
  <2>3. QuietSoFar'
    BY <1>0, <2>1, <2>2, ReadFacts
    DEF QuietSoFar, TreeRead, StateRead, StashRead, DetachedRead
  <2>4. SteadyOperation => repo.state # "Clean"
    BY ReadFacts, <2>2
  <2>5. FilesShown => FilesShown'
    BY <2>1, <2>2, ReadFacts, FilesStayShown
  <2>6. SteadySoFar'
    BY <1>0, <2>1, <2>2, <2>4, <2>5, ReadFacts
    DEF SteadySoFar, TreeRead, StateRead, StashRead, DetachedRead
  <2> QED BY <1>1, <2>2, <2>3, <2>6
<1>5. CASE ReadStash
  <2> DEFINE s == [status EXCEPT !.stash_count = IF repo.readable THEN repo.stashes ELSE 0]
  <2>1. /\ s \in Status
        /\ s.stash_count = IF repo.readable THEN repo.stashes ELSE 0
        /\ s.has_staged = status.has_staged /\ s.has_unstaged = status.has_unstaged
        /\ s.has_untracked = status.has_untracked /\ s.operation = status.operation
        /\ s.branch = status.branch /\ s.detached_head = status.detached_head
        /\ s.upstream = status.upstream /\ s.error = status.error
    BY <1>0 DEF Status
  <2>2. Between("stash", "detached", s)
    BY <1>5, <2>1 DEF ReadStash
  <2> HIDE DEF s
  <2>3. QuietSoFar'
    BY <1>0, <2>1, <2>2, ReadFacts
    DEF QuietSoFar, TreeRead, StateRead, StashRead, DetachedRead
  <2>4. SteadyStash => repo.readable /\ repo.stashes > 0
    BY ReadFacts, <2>2
  <2>5. FilesShown => FilesShown'
    BY <2>1, <2>2, ReadFacts, FilesStayShown
  <2>6. SteadySoFar'
    BY <1>0, <2>1, <2>2, <2>4, <2>5, ReadFacts
    DEF SteadySoFar, TreeRead, StateRead, StashRead, DetachedRead
  <2> QED BY <1>1, <2>2, <2>3, <2>6
<1>6. CASE ReadDetached
  <2> DEFINE s == [status EXCEPT !.detached_head = repo.readable /\ repo.head = "detached"]
  <2>1. /\ s \in Status
        /\ s.detached_head <=> repo.readable /\ repo.head = "detached"
        /\ s.has_staged = status.has_staged /\ s.has_unstaged = status.has_unstaged
        /\ s.has_untracked = status.has_untracked /\ s.operation = status.operation
        /\ s.stash_count = status.stash_count /\ s.branch = status.branch
        /\ s.upstream = status.upstream /\ s.error = status.error
    BY <1>0 DEF Status
  <2>2. Between("detached", "head", s)
    BY <1>6, <2>1 DEF ReadDetached
  <2> HIDE DEF s
  <2>3. QuietSoFar'
    BY <1>0, <2>1, <2>2, ReadFacts
    DEF QuietSoFar, TreeRead, StateRead, StashRead, DetachedRead
  <2>4. SteadyAhead => repo.head = "branch"
    BY ReadFacts, <2>2 DEF IsAhead
  <2>5. FilesShown => FilesShown'
    BY <2>1, <2>2, ReadFacts, FilesStayShown
  <2>6. SteadySoFar'
    BY <1>0, <2>1, <2>2, <2>4, <2>5, ReadFacts
    DEF SteadySoFar, TreeRead, StateRead, StashRead, DetachedRead
  <2> QED BY <1>1, <2>2, <2>3, <2>6
<1>7. CASE /\ ReadHead /\ repo.readable
           /\ repo.head = "branch" /\ ~status.detached_head
  <2> DEFINE s == [status EXCEPT !.branch = TRUE]
  <2>1. /\ s \in Status /\ s.branch
        /\ s.has_staged = status.has_staged /\ s.has_unstaged = status.has_unstaged
        /\ s.has_untracked = status.has_untracked /\ s.operation = status.operation
        /\ s.stash_count = status.stash_count /\ s.detached_head = status.detached_head
        /\ s.upstream = status.upstream /\ s.error = status.error
    BY <1>0 DEF Status
  <2>2. Between("head", "upstream", s)
    BY <1>7, <2>1 DEF ReadHead
  <2> HIDE DEF s
  <2>3. QuietSoFar'
    BY <1>0, <1>7, <2>1, <2>2, ReadFacts
    DEF QuietSoFar, TreeRead, StateRead, StashRead, DetachedRead
  <2>4. SteadyAhead => repo.ahead > 0
    BY ReadFacts, <2>2 DEF IsAhead
  <2>5. FilesShown => FilesShown'
    BY <2>1, <2>2, ReadFacts, FilesStayShown
  <2>6. SteadySoFar'
    BY <1>0, <2>1, <2>2, <2>4, <2>5, ReadFacts
    DEF SteadySoFar, TreeRead, StateRead, StashRead, DetachedRead
  <2> QED BY <1>1, <2>2, <2>3, <2>6
<1>8. ASSUME NEW f \in Files, ReadFile(f)
      PROVE  InspectionInv'
  <2>1. /\ pc = "tree" /\ pc' = pc /\ repo.readable /\ f \in unread
        /\ unread' = unread \ {f} /\ listed' = listed \cup {repo.files[f]}
        /\ repo' = repo /\ status' = status /\ target' = target
        /\ changes' = changes /\ seen' = seen
    BY <1>8 DEF ReadFile
  <2>2. InspectionTypeOK'
    BY <1>0, <1>8, <2>1 DEF InspectionTypeOK, Repo
  <2>3. TargetShared' /\ ExactWhenQuiet' /\ SteadyWorkShown'
    BY <2>1 DEF InspectionInv, TargetShared, ExactWhenQuiet, SteadyWorkShown
  <2>4. QuietSoFar'
    <3>1. SUFFICES ASSUME seen = {repo}
                   PROVE  QuietSoFar'
      BY <2>1 DEF QuietSoFar
    <3>2. listed = {repo.files[g] : g \in Files \ unread}
      BY <1>0, <2>1, <3>1 DEF QuietSoFar
    <3>3. listed' = {repo.files[g] : g \in Files \ unread'}
      BY <1>8, <2>1, <3>2
    <3> QED BY <1>0, <2>1, <3>1, <3>3
         DEF QuietSoFar, TreeRead, StateRead, StashRead, DetachedRead, Some
  <2>5. FilesListed'
    <3>1. FilesListed
      BY <1>0, <2>1 DEF SteadySoFar
    <3>2. repo \in seen
      BY <1>0 DEF InspectionTypeOK
    <3> QED BY <2>1, <3>1, <3>2 DEF FilesListed
  <2>6. SteadySoFar'
    BY <2>1, <2>5 DEF SteadySoFar, TreeRead, StateRead, StashRead, DetachedRead
  <2> QED BY <2>2, <2>3, <2>4, <2>6 DEF InspectionInv
<1>9. CASE /\ ReadHead /\ repo.readable
           /\ repo.head = "unborn" \/ status.detached_head
  <2>1. Read("head", "done", status) /\ pc = "head"
    BY <1>9 DEF ReadHead, Read
  <2>2. seen = {repo} => Shows(status, repo)
    BY <1>0, <1>9, <2>1
    DEF QuietSoFar, Shows, TreeRead, StateRead, StashRead, DetachedRead, Some
  <2>3. ~SteadyAhead
    BY <1>0, <1>9, <2>1, ReadFacts DEF SteadySoFar, DetachedRead, IsAhead
  <2> QED BY <1>0, <2>1, <2>2, <2>3, LastPreserves DEF TreeRead, StateRead, StashRead
<1>10. CASE ReadUpstream /\ repo.readable /\ repo.upstream = "none"
  <2>1. Read("upstream", "done", status) /\ pc = "upstream"
    BY <1>10 DEF ReadUpstream, Read
  <2>2. seen = {repo} => Shows(status, repo)
    BY <1>0, <1>10, <2>1
    DEF QuietSoFar, Shows, TreeRead, StateRead, StashRead, DetachedRead, Some
  <2>3. ~SteadyAhead
    BY <1>10, <2>1, ReadFacts DEF IsAhead
  <2> QED BY <1>0, <2>1, <2>2, <2>3, LastPreserves DEF TreeRead, StateRead, StashRead
<1>11. CASE ReadUpstream /\ repo.readable /\ repo.upstream # "none"
  <2> DEFINE u == [kind |-> "tracking", ahead |-> target.ahead, behind |-> repo.behind]
             s == [status EXCEPT !.upstream = u]
  <2>1. repo.upstream = "tracking"
    BY <1>0, <1>11 DEF Repo
  <2>2. /\ s \in Status /\ s.upstream = u
        /\ s.has_staged = status.has_staged /\ s.has_unstaged = status.has_unstaged
        /\ s.has_untracked = status.has_untracked /\ s.operation = status.operation
        /\ s.stash_count = status.stash_count /\ s.branch = status.branch
        /\ s.detached_head = status.detached_head /\ s.error = status.error
    BY <1>0 DEF Status
  <2>3. Read("upstream", "done", s) /\ pc = "upstream"
    BY <1>11 DEF ReadUpstream, Read
  <2> HIDE DEF s
  <2>4. seen = {repo} => Shows(s, repo)
    BY <1>0, <1>11, <2>1, <2>2, <2>3
    DEF QuietSoFar, Shows, TreeRead, StateRead, StashRead, DetachedRead, Some
  <2>5. SteadyAhead => s.upstream.ahead > 0
    BY <1>0, <2>2, <2>3 DEF SteadySoFar
  <2> QED BY <2>2, <2>3, <2>4, <2>5, LastPreserves DEF TreeRead, StateRead, StashRead
<1>12. CASE /\ Open \/ ReadTree \/ ReadHead \/ ReadUpstream
            /\ ~repo.readable
  <2> DEFINE s == [Failed EXCEPT !.branch = status.branch]
  <2>1. s = Failed /\ status.branch \in BOOLEAN
    BY <1>0 DEF Failed, Status
  <2>2. \E from : Read(from, "done", s)
    BY <1>12, <2>1 DEF Open, ReadTree, ReadHead, ReadUpstream
  <2>3. /\ s \in Status /\ s.error
        /\ s.has_staged = status.has_staged /\ s.has_unstaged = status.has_unstaged
        /\ s.has_untracked = status.has_untracked /\ s.operation = status.operation
        /\ s.stash_count = status.stash_count
    BY <1>0, <2>1, FailedStatus
  <2> HIDE DEF s
  <2> QED BY <1>12, <2>2, <2>3, LastPreserves DEF Shows
\* A detached HEAD that was not so when head_detached looked is an error, and a change.
<1>13. CASE /\ ReadHead /\ repo.readable
            /\ repo.head = "detached" /\ ~status.detached_head
  <2> DEFINE s == [Failed EXCEPT !.branch = TRUE]
  <2>1. Read("head", "done", s) /\ pc = "head"
    BY <1>13 DEF ReadHead, Read
  <2>2. seen # {repo}
    BY <1>0, <1>13, <2>1 DEF QuietSoFar, DetachedRead
  <2>3. ~SteadyAhead
    BY <1>13, <2>1, ReadFacts DEF IsAhead
  <2>4. /\ s \in Status /\ s.error
        /\ s.has_staged = status.has_staged /\ s.has_unstaged = status.has_unstaged
        /\ s.has_untracked = status.has_untracked /\ s.operation = status.operation
        /\ s.stash_count = status.stash_count
    BY <1>0, FailedStatus
  <2> HIDE DEF s
  <2> QED BY <2>1, <2>2, <2>3, <2>4, LastPreserves DEF TreeRead, StateRead, StashRead
<1>14. repo.head \in {"branch", "detached", "unborn"}
  BY <1>0 DEF Repo
<1> QED
  BY <1>0, <1>2, <1>3, <1>4, <1>5, <1>6, <1>7, <1>8, <1>9, <1>10, <1>11, <1>12, <1>13, <1>14
  DEF ComputeStatus

LEMMA InspectionInductive == InspectionInv /\ [InspectNext]_inspectVars => InspectionInv'
<1> SUFFICES ASSUME InspectionInv, [InspectNext]_inspectVars PROVE InspectionInv'
  OBVIOUS
<1>1. CASE UNCHANGED inspectVars
  <2>1. InspectionTypeOK' /\ TargetShared'
    BY <1>1 DEF inspectVars, InspectionInv, InspectionTypeOK, TargetShared
  <2>2. QuietSoFar'
    BY <1>1
    DEF inspectVars, InspectionInv, QuietSoFar, TreeRead, StateRead, StashRead, DetachedRead, Some
  <2>3. ExactWhenQuiet'
    BY <1>1 DEF inspectVars, InspectionInv, ExactWhenQuiet, Shows
  <2>4. FilesShown => FilesShown'
    BY <1>1, FilesStayShown DEF inspectVars
  <2>5. SteadySoFar'
    BY <1>1, <2>4
    DEF inspectVars, InspectionInv, SteadySoFar, TreeRead, StateRead, StashRead, DetachedRead,
        FilesListed, SteadyOperation, SteadyStash, SteadyAhead, IsAhead
  <2>6. SteadyWorkShown'
    BY <1>1, <2>4 DEF inspectVars, InspectionInv, SteadyWorkShown, IsAhead
  <2> QED BY <2>1, <2>2, <2>3, <2>5, <2>6 DEF InspectionInv
<1> QED BY <1>1, UserPreserves, ReadPreserves DEF InspectNext

LEMMA InspectionInvariant == InspectSpec => []InspectionInv
BY InitInspection, InspectionInductive, PTL DEF InspectSpec

\* A status is never filled with anything but values of its fields' types, whatever
\* the user does between the reads.
THEOREM InspectionTypeCorrect == InspectSpec => []InspectionTypeOK
<1>1. InspectionInv => InspectionTypeOK
  BY DEF InspectionInv
<1> QED BY <1>1, InspectionInvariant, PTL

\* A repository that nobody touches during an inspection is shown as it is.
THEOREM QuietIsExact == InspectSpec => []ExactWhenQuiet
<1>1. InspectionInv => ExactWhenQuiet
  BY DEF InspectionInv
<1> QED BY <1>1, InspectionInvariant, PTL

\* Work that is there throughout an inspection is shown, whatever the user does between its
\* reads: no file with local changes, stash, operation or commit of its own is missed, also
\* where the status has an error (compute_status, src/status.rs).
THEOREM SteadyWorkIsShown == InspectSpec => []SteadyWorkShown
<1>1. InspectionInv => SteadyWorkShown
  BY DEF InspectionInv
<1> QED BY <1>1, InspectionInvariant, PTL

-----------------------------------------------------------------------------
(* What a status shows was there.                                          *)

\* A file of this kind was there, and could be read.
WasThere(kind) == \E r \in seen : r.readable /\ \E f \in Files : r.files[f] = kind

FlagsWereThere == \A k \in Flagged : Flag(k) => WasThere(k)

\* Each thing that a status shows was true of the repository at some time of the inspection,
\* even if the user changed it between the reads; and an inspection only fails if the
\* repository could not be read, or HEAD was detached meanwhile.  (That all of it was true
\* at the same time is what CleanAtOnePoint refutes.)
NothingInvented ==
    /\ FlagsWereThere
    /\ status.operation # "clean" => \E r \in seen : MapState(r.state) = status.operation
    /\ status.stash_count > 0 => \E r \in seen : r.readable /\ r.stashes = status.stash_count
    /\ status.detached_head => \E r \in seen : r.readable /\ r.head = "detached"
    /\ status.branch /\ ~status.error => \E r \in seen : r.readable /\ r.head = "branch"
    /\ status.upstream # Unknown =>
          /\ \E r \in seen :
                r.readable /\ r.upstream = "tracking" /\ r.behind = status.upstream.behind
          /\ \E r \in seen :
                r.readable /\ r.head = "branch" /\ status.upstream.ahead <= r.ahead
    /\ status.error => \/ \E r \in seen : ~r.readable
                       \/ \E r, s \in seen : r.head = "detached" /\ s.head # "detached"

\* The same of what has been read, but is not in the status yet.
ReadWasThere ==
    /\ \A k \in listed : WasThere(k)
    /\ pc = "upstream" =>
          \E r \in seen : r.readable /\ r.head = "branch" /\ target.ahead <= r.ahead
    /\ pc = "head" /\ ~status.detached_head =>
          \E r \in seen : ~r.readable \/ r.head # "detached"

TrueInv == NothingInvented /\ ReadWasThere

LEMMA FlagsStayTrue ==
    ASSUME FlagsWereThere, seen \subseteq seen',
           status'.has_staged = status.has_staged,
           status'.has_unstaged = status.has_unstaged,
           status'.has_untracked = status.has_untracked
    PROVE  FlagsWereThere'
<1>1. \A k \in Flagged : Flag(k)' <=> Flag(k)
  BY DEF Flagged, Flag
<1>2. \A k : WasThere(k) => WasThere(k)'
  BY DEF WasThere
<1> QED BY <1>1, <1>2 DEF FlagsWereThere

\* What has been seen stays seen.
LEMMA UserKeepsTrue == InspectionInv /\ TrueInv /\ User => TrueInv'
<1> SUFFICES ASSUME InspectionInv, TrueInv, User PROVE TrueInv'
  OBVIOUS
<1>1. PICK r \in Repo, t \in Targets : Moves(r, t) /\ t.ahead <= target.ahead
  BY UserMoves DEF InspectionInv
<1>2. /\ pc' = pc /\ status' = status /\ seen \subseteq seen' /\ target' = t
      /\ listed' = listed
  BY <1>1 DEF Moves
<1>3. NothingInvented'
  <2>1. FlagsWereThere'
    BY <1>2, FlagsStayTrue DEF TrueInv, NothingInvented
  <2> QED BY <1>2, <2>1 DEF TrueInv, NothingInvented
<1>4. ReadWasThere'
  <2>1. \A q \in seen : target.ahead <= q.ahead => t.ahead <= q.ahead
    <3>1. t.ahead \in 0 .. MaxWork /\ target.ahead \in 0 .. MaxWork
      BY DEF Targets, InspectionInv, InspectionTypeOK
    <3>2. \A q \in seen : q.ahead \in 0 .. MaxWork
      BY DEF InspectionInv, InspectionTypeOK, Repo
    <3> QED BY <1>1, <3>1, <3>2, InspectionAssumption DEF InspectionAssumption
  <2>2. \A k : WasThere(k) => WasThere(k)'
    BY <1>2 DEF WasThere
  <2> QED BY <1>2, <2>1, <2>2 DEF TrueInv, ReadWasThere
<1> QED BY <1>3, <1>4 DEF TrueInv

\* An inspection that fails.
LEMMA FailureKeepsTrue ==
    ASSUME InspectionInv, TrueInv, seen' = seen, pc' = "done", listed' = {},
           NEW b \in BOOLEAN, status' = [Failed EXCEPT !.branch = b],
           \/ \E r \in seen : ~r.readable
           \/ \E r, s \in seen : r.head = "detached" /\ s.head # "detached"
    PROVE  TrueInv'
<1>1. status \in Status
  BY DEF InspectionInv, InspectionTypeOK
<1>2. /\ status'.has_staged = status.has_staged /\ status'.has_unstaged = status.has_unstaged
      /\ status'.has_untracked = status.has_untracked
      /\ status'.operation = status.operation /\ status'.stash_count = status.stash_count
      /\ status'.detached_head = status.detached_head
      /\ status'.upstream = status.upstream /\ status'.error
  BY <1>1 DEF Failed, Status
<1>3. FlagsWereThere'
  BY <1>2, FlagsStayTrue DEF TrueInv, NothingInvented
<1>4. NothingInvented'
  BY <1>2, <1>3 DEF TrueInv, NothingInvented
<1> QED BY <1>4 DEF TrueInv, ReadWasThere

LEMMA ReadKeepsTrue == InspectionInv /\ TrueInv /\ ComputeStatus => TrueInv'
<1> SUFFICES ASSUME InspectionInv, TrueInv, ComputeStatus PROVE TrueInv'
  OBVIOUS
<1>1. repo \in seen /\ status \in Status /\ repo \in Repo
  BY DEF InspectionInv, InspectionTypeOK
<1>2. ASSUME NEW from, NEW to, NEW s, Read(from, to, s)
      PROVE  pc = from /\ pc' = to /\ status' = s /\ seen' = seen /\ listed' = {}
  BY <1>2 DEF Read
<1>3. ASSUME NEW from, NEW s, Read(from, "done", s), NEW b \in BOOLEAN,
             s = [Failed EXCEPT !.branch = b],
             \/ ~repo.readable
             \/ \E r \in seen : ~r.readable
             \/ \E q, r \in seen : q.head = "detached" /\ r.head # "detached"
      PROVE  TrueInv'
  BY <1>1, <1>2, <1>3, FailureKeepsTrue
<1>4. Failed = [Failed EXCEPT !.branch = status.branch] /\ status.branch \in BOOLEAN
  BY <1>1 DEF Failed, Status
<1>13. ASSUME status'.has_staged = status.has_staged,
             status'.has_unstaged = status.has_unstaged,
             status'.has_untracked = status.has_untracked, seen' = seen
      PROVE  FlagsWereThere'
  BY <1>13, FlagsStayTrue DEF TrueInv, NothingInvented
<1>5. CASE Open
  <2>1. CASE repo.readable
    <3>1. pc' = "tree" /\ status' = status /\ seen' = seen /\ listed' = {}
      BY <1>2, <1>5, <2>1 DEF Open
    <3> QED BY <1>13, <3>1 DEF TrueInv, NothingInvented, ReadWasThere
  <2>2. CASE ~repo.readable
    BY <1>3, <1>4, <1>5, <2>2 DEF Open
  <2> QED BY <2>1, <2>2
<1>6. CASE ReadTree
  <2>1. CASE repo.readable
    <3> DEFINE s == [status EXCEPT !.has_staged = "staged" \in listed,
                                   !.has_unstaged = "unstaged" \in listed,
                                   !.has_untracked = "untracked" \in listed]
    <3>1. pc' = "state" /\ status' = s /\ seen' = seen /\ listed' = {}
      BY <1>2, <1>6, <2>1 DEF ReadTree
    <3>2. /\ status'.has_staged <=> "staged" \in listed
          /\ status'.has_unstaged <=> "unstaged" \in listed
          /\ status'.has_untracked <=> "untracked" \in listed
          /\ status'.operation = status.operation /\ status'.stash_count = status.stash_count
          /\ status'.detached_head = status.detached_head /\ status'.branch = status.branch
          /\ status'.upstream = status.upstream /\ status'.error = status.error
      BY <1>1, <3>1 DEF Status
    <3> HIDE DEF s
    <3>3. FlagsWereThere'
      <4>1. \A k \in Flagged : Flag(k)' <=> k \in listed
        BY <3>2 DEF Flagged, Flag
      <4>2. \A k \in listed : WasThere(k)
        BY DEF TrueInv, ReadWasThere
      <4>3. \A k : WasThere(k)' <=> WasThere(k)
        BY <3>1 DEF WasThere
      <4> QED BY <4>1, <4>2, <4>3 DEF FlagsWereThere
    <3>4. NothingInvented'
      BY <3>1, <3>2, <3>3 DEF TrueInv, NothingInvented
    <3> QED BY <3>1, <3>4 DEF TrueInv, ReadWasThere
  <2>2. CASE ~repo.readable
    BY <1>3, <1>4, <1>6, <2>2 DEF ReadTree
  <2> QED BY <2>1, <2>2
<1>7. CASE ReadState
  <2>1. pc' = "stash" /\ status' = [status EXCEPT !.operation = MapState(repo.state)]
        /\ seen' = seen /\ listed' = {}
    BY <1>2, <1>7 DEF ReadState
  <2>2. /\ status'.operation = MapState(repo.state)
        /\ status'.has_staged = status.has_staged /\ status'.has_unstaged = status.has_unstaged
        /\ status'.has_untracked = status.has_untracked
        /\ status'.stash_count = status.stash_count
        /\ status'.detached_head = status.detached_head /\ status'.branch = status.branch
        /\ status'.upstream = status.upstream /\ status'.error = status.error
    BY <1>1, <2>1 DEF Status
  <2>3. NothingInvented'
    BY <1>13, <1>1, <2>1, <2>2 DEF TrueInv, NothingInvented
  <2> QED BY <2>1, <2>3 DEF TrueInv, ReadWasThere
<1>8. CASE ReadStash
  <2> DEFINE n == IF repo.readable THEN repo.stashes ELSE 0
  <2>1. pc' = "detached" /\ status' = [status EXCEPT !.stash_count = n] /\ seen' = seen /\ listed' = {}
    BY <1>2, <1>8 DEF ReadStash
  <2>2. /\ status'.stash_count = n /\ status'.operation = status.operation
        /\ status'.has_staged = status.has_staged /\ status'.has_unstaged = status.has_unstaged
        /\ status'.has_untracked = status.has_untracked
        /\ status'.detached_head = status.detached_head /\ status'.branch = status.branch
        /\ status'.upstream = status.upstream /\ status'.error = status.error
    BY <1>1, <2>1 DEF Status
  <2>3. status'.stash_count > 0 =>
            \E r \in seen' : r.readable /\ r.stashes = status'.stash_count
    BY <1>1, <2>1, <2>2
  <2> HIDE DEF n
  <2>4. NothingInvented'
    BY <1>13, <2>1, <2>2, <2>3 DEF TrueInv, NothingInvented
  <2> QED BY <2>1, <2>4 DEF TrueInv, ReadWasThere
<1>9. CASE ReadDetached
  <2> DEFINE d == repo.readable /\ repo.head = "detached"
  <2>1. pc' = "head" /\ status' = [status EXCEPT !.detached_head = d] /\ seen' = seen /\ listed' = {}
    BY <1>2, <1>9 DEF ReadDetached
  <2>2. /\ status'.detached_head = d
        /\ status'.stash_count = status.stash_count /\ status'.operation = status.operation
        /\ status'.has_staged = status.has_staged /\ status'.has_unstaged = status.has_unstaged
        /\ status'.has_untracked = status.has_untracked /\ status'.branch = status.branch
        /\ status'.upstream = status.upstream /\ status'.error = status.error
    BY <1>1, <2>1 DEF Status
  <2>3. /\ status'.detached_head => \E r \in seen' : r.readable /\ r.head = "detached"
        /\ ~status'.detached_head => \E r \in seen' : ~r.readable \/ r.head # "detached"
    BY <1>1, <2>1, <2>2
  <2> HIDE DEF d
  <2>4. NothingInvented'
    BY <1>13, <2>1, <2>2, <2>3 DEF TrueInv, NothingInvented
  <2> QED BY <2>1, <2>3, <2>4 DEF TrueInv, ReadWasThere
<1>10. CASE ReadHead
  <2>1. CASE ~repo.readable
    BY <1>3, <1>4, <1>10, <2>1 DEF ReadHead
  <2>2. CASE repo.readable /\ (repo.head = "unborn" \/ status.detached_head)
    <3>1. pc' = "done" /\ status' = status /\ seen' = seen /\ listed' = {}
      BY <1>2, <1>10, <2>2 DEF ReadHead
    <3> QED BY <1>13, <3>1 DEF TrueInv, NothingInvented, ReadWasThere
  <2>3. CASE repo.readable /\ ~status.detached_head /\ repo.head = "detached"
    <3>1. Read("head", "done", [Failed EXCEPT !.branch = TRUE])
      BY <1>10, <2>3 DEF ReadHead
    <3>2. \E r \in seen : ~r.readable \/ r.head # "detached"
      BY <1>2, <2>3, <3>1 DEF TrueInv, ReadWasThere
    <3>3. \/ \E r \in seen : ~r.readable
          \/ \E q, r \in seen : q.head = "detached" /\ r.head # "detached"
      BY <1>1, <2>3, <3>2
    <3> QED BY <1>3, <3>1, <3>3
  <2>4. CASE repo.readable /\ ~status.detached_head /\ repo.head \notin {"unborn", "detached"}
    <3>1. /\ Read("head", "upstream", [status EXCEPT !.branch = TRUE])
          /\ repo.head = "branch"
      BY <1>1, <1>10, <2>4 DEF ReadHead, Repo
    <3>2. /\ pc' = "upstream" /\ status' = [status EXCEPT !.branch = TRUE] /\ seen' = seen /\ listed' = {}
          /\ target'.ahead = repo.ahead
      BY <1>2, <3>1 DEF Read
    <3>3. /\ status'.stash_count = status.stash_count /\ status'.operation = status.operation
          /\ status'.has_staged = status.has_staged
          /\ status'.has_unstaged = status.has_unstaged
          /\ status'.has_untracked = status.has_untracked
          /\ status'.detached_head = status.detached_head
          /\ status'.upstream = status.upstream /\ status'.error = status.error
      BY <1>1, <3>2 DEF Status
    <3>4. \E r \in seen' : r.readable /\ r.head = "branch"
      BY <1>1, <2>4, <3>1, <3>2
    <3>5. NothingInvented'
      BY <1>13, <3>2, <3>3, <3>4 DEF TrueInv, NothingInvented
    <3>6. ReadWasThere'
      <4>1. repo.ahead <= repo.ahead
        BY <1>1, InspectionAssumption DEF Repo, InspectionAssumption
      <4> QED BY <1>1, <2>4, <3>1, <3>2, <4>1 DEF ReadWasThere
    <3> QED BY <3>5, <3>6 DEF TrueInv
  <2> QED BY <2>1, <2>2, <2>3, <2>4
<1>11. CASE ReadUpstream
  <2>1. CASE ~repo.readable
    BY <1>3, <1>4, <1>11, <2>1 DEF ReadUpstream
  <2>2. CASE repo.readable /\ repo.upstream = "none"
    <3>1. pc' = "done" /\ status' = status /\ seen' = seen /\ listed' = {}
      BY <1>2, <1>11, <2>2 DEF ReadUpstream
    <3> QED BY <1>13, <3>1 DEF TrueInv, NothingInvented, ReadWasThere
  <2>3. CASE repo.readable /\ repo.upstream # "none"
    <3> DEFINE u == [kind |-> "tracking", ahead |-> target.ahead, behind |-> repo.behind]
    <3>1. /\ pc = "upstream" /\ pc' = "done"
          /\ status' = [status EXCEPT !.upstream = u] /\ seen' = seen /\ listed' = {}
      BY <1>2, <1>11, <2>3 DEF ReadUpstream
    <3>2. /\ status'.upstream = u
          /\ status'.stash_count = status.stash_count /\ status'.operation = status.operation
          /\ status'.has_staged = status.has_staged
          /\ status'.has_unstaged = status.has_unstaged
          /\ status'.has_untracked = status.has_untracked /\ status'.branch = status.branch
          /\ status'.detached_head = status.detached_head /\ status'.error = status.error
      BY <1>1, <3>1 DEF Status
    <3>3. \E r \in seen' : r.readable /\ r.upstream = "tracking" /\ r.behind = u.behind
      BY <1>1, <2>3, <3>1 DEF Repo
    <3>4. \E r \in seen' : r.readable /\ r.head = "branch" /\ u.ahead <= r.ahead
      BY <3>1 DEF TrueInv, ReadWasThere
    <3> HIDE DEF u
    <3>5. NothingInvented'
      BY <1>13, <3>1, <3>2, <3>3, <3>4 DEF TrueInv, NothingInvented
    <3> QED BY <3>1, <3>5 DEF TrueInv, ReadWasThere
  <2> QED BY <2>1, <2>2, <2>3
<1>12. ASSUME NEW f \in Files, ReadFile(f)
       PROVE  TrueInv'
  <2>1. /\ pc = "tree" /\ pc' = pc /\ repo.readable /\ status' = status /\ seen' = seen
        /\ listed' = listed \cup {repo.files[f]}
    BY <1>12 DEF ReadFile
  <2>2. \A k : WasThere(k)' <=> WasThere(k)
    BY <2>1 DEF WasThere
  <2>3. WasThere(repo.files[f])
    BY <1>1, <1>12, <2>1 DEF WasThere
  <2>4. NothingInvented'
    BY <1>13, <2>1 DEF TrueInv, NothingInvented
  <2> QED BY <2>1, <2>2, <2>3, <2>4 DEF TrueInv, ReadWasThere
<1> QED BY <1>5, <1>6, <1>7, <1>8, <1>9, <1>10, <1>11, <1>12 DEF ComputeStatus

LEMMA TrueInvariant == InspectSpec => []TrueInv
<1>1. InspectInit => TrueInv
  BY DEF InspectInit, TrueInv, NothingInvented, ReadWasThere, Blank,
         FlagsWereThere, Flag, Flagged
<1>2. InspectionInv /\ TrueInv /\ [InspectNext]_inspectVars => TrueInv'
  <2> SUFFICES ASSUME InspectionInv, TrueInv, [InspectNext]_inspectVars PROVE TrueInv'
    OBVIOUS
  <2>1. CASE UNCHANGED inspectVars
    <3>1. FlagsWereThere'
      BY <2>1, FlagsStayTrue DEF inspectVars, TrueInv, NothingInvented
    <3> QED BY <2>1, <3>1 DEF inspectVars, TrueInv, NothingInvented, ReadWasThere, WasThere
  <2> QED BY <2>1, UserKeepsTrue, ReadKeepsTrue DEF InspectNext
<1> QED BY <1>1, <1>2, InspectionInvariant, PTL DEF InspectSpec

\* compute_status makes nothing up, whatever the user does between its reads: each flag, the
\* operation, the stashes, the branch and how far it is ahead were there when they were read
\* (compute_status, src/status.rs).
THEOREM ShownWasThere == InspectSpec => []NothingInvented
<1>1. TrueInv => NothingInvented
  BY DEF TrueInv
<1> QED BY <1>1, TrueInvariant, PTL

\* No false alarm: a repository is only ever shown as dirty if there was work at risk in it
\* at some time of the inspection (RepoStatus::is_dirty, src/model.rs).
NoFalseAlarm == StatusDirty(status) => \E r \in seen : WorkAtRisk(r)

THEOREM NeverAFalseAlarm == InspectSpec => []NoFalseAlarm
<1>1. InspectionInv /\ TrueInv => NoFalseAlarm
  <2> SUFFICES ASSUME InspectionInv, TrueInv, StatusDirty(status)
               PROVE  \E r \in seen : WorkAtRisk(r)
    BY DEF NoFalseAlarm
  <2>1. seen \subseteq Repo /\ status \in Status
    BY DEF InspectionInv, InspectionTypeOK
  <2>2. CASE status.has_staged \/ status.has_unstaged \/ status.has_untracked
    <3>1. PICK k \in Flagged : Flag(k)
      BY <2>2 DEF Flagged, Flag
    <3>2. PICK r \in seen, f \in Files : r.files[f] = k
      BY <3>1 DEF TrueInv, NothingInvented, FlagsWereThere, WasThere
    <3> QED BY <3>1, <3>2 DEF WorkAtRisk, Flagged
  <2>3. CASE status.stash_count > 0
    BY <2>3 DEF TrueInv, NothingInvented, WorkAtRisk
  <2>4. CASE status.operation # "clean"
    <3>1. PICK r \in seen : MapState(r.state) # "clean"
      BY <2>4 DEF TrueInv, NothingInvented
    <3>2. r.state # "Clean"
      BY <3>1 DEF MapState
    <3> QED BY <3>2 DEF WorkAtRisk
  <2>5. CASE status.upstream.ahead > 0
    <3>1. status.upstream # Unknown
      BY <2>5 DEF Unknown
    <3>2. PICK r \in seen : status.upstream.ahead <= r.ahead
      BY <3>1 DEF TrueInv, NothingInvented
    <3>3. r.ahead \in 0 .. MaxWork /\ status.upstream.ahead \in 0 .. MaxWork
      BY <2>1 DEF Repo, Status
    <3>4. r.ahead > 0
      BY <2>5, <3>2, <3>3, InspectionAssumption DEF InspectionAssumption
    <3> QED BY <3>4 DEF WorkAtRisk
  <2> QED BY <2>2, <2>3, <2>4, <2>5 DEF StatusDirty
<1> QED BY <1>1, InspectionInvariant, TrueInvariant, PTL
=============================================================================
