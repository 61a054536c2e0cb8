------------------------------- MODULE Discover -------------------------------
(***************************************************************************)
(* Discovery (src/scan.rs): discover walks the directories below the scan  *)
(* roots, depth first and in the order the file system lists them, while   *)
(* the user goes on creating and removing directories.                     *)
(*                                                                         *)
(* The tree is a set of nodes with fixed parents; what kind of entry a     *)
(* node is and what it is called is chosen once, which nodes are on disk   *)
(* changes.  Of a name only three cases matter.  Links are not followed    *)
(* and count as files.                                                     *)
(***************************************************************************)
EXTENDS Naturals, Sequences

CONSTANTS
    Nodes,       \* the places of the tree
    Parent,      \* Parent[n]: the directory that n is in
    Outside,     \* a directory that is not in the tree
    Roots,       \* scan_roots
    MaxChanges   \* bound on the changes of the tree during a walk

\* No directory is below itself: of any nodes, one is in none of the others.
ASSUME DiscoverAssumption ==
    /\ Outside \notin Nodes
    /\ Parent \in [Nodes -> Nodes \cup {Outside}]
    /\ \A S \in SUBSET Nodes : S # {} => \E n \in S : Parent[n] \notin S
    /\ Roots \in Seq(Nodes)
    /\ MaxChanges \in Nat

VARIABLES
    kind,     \* kind[n]: a directory, one that cannot be listed, or no directory
    name,     \* name[n]: ".git", a name in scan_excludes, or another
    there,    \* the nodes that are on disk
    changes,  \* how often `there` has changed
    next,     \* index of the next root
    stack,    \* the open directories, each with the entries still to come
    found,    \* the repositories recorded
    (* History: no guard reads it. *)
    always,   \* nodes that have been on disk during the whole walk
    ever      \* nodes that have been on disk at some time during the walk

tree == <<kind, name>>
walkVars == <<kind, name, there, changes, next, stack, found, always, ever>>

DiscoverTypeOK ==
    /\ kind \in [Nodes -> {"dir", "locked", "file"}]
    /\ name \in [Nodes -> {"git", "excluded", "plain"}]
    /\ there \in SUBSET Nodes
    /\ changes \in 0 .. MaxChanges
    /\ next \in 1 .. Len(Roots) + 1
    /\ stack \in Seq(SUBSET Nodes)
    /\ found \in SUBSET (Nodes \cup {Outside})
    /\ always \subseteq there /\ there \subseteq ever /\ ever \subseteq Nodes

-----------------------------------------------------------------------------
Children(n) == {c \in Nodes : Parent[c] = n}

\* n and everything below it.
Below(n) ==
    LET under[c \in Nodes] == c = n \/ (Parent[c] \in Nodes /\ under[Parent[c]])
    IN  {c \in Nodes : under[c]}

RootSet == {Roots[i] : i \in DOMAIN Roots}

\* A tree: what is on disk is in a directory on disk, and no two entries of a
\* directory are called ".git".
WalkInit ==
    /\ kind \in [Nodes -> {"dir", "locked", "file"}]
    /\ name \in [Nodes -> {"git", "excluded", "plain"}]
    /\ \A c, d \in Nodes :
          c # d /\ Parent[c] = Parent[d] => ~(name[c] = "git" /\ name[d] = "git")
    /\ there \in SUBSET Nodes
    /\ \A c \in there :
          Parent[c] \in Nodes => Parent[c] \in there /\ kind[Parent[c]] # "file"
    /\ changes = 0
    /\ next = 1
    /\ stack = <<>>
    /\ found = {}
    /\ always = there
    /\ ever = there

\* The user removes an entry with all that is in it, or makes a new one.
Change(n) ==
    /\ changes < MaxChanges
    /\ changes' = changes + 1
    /\ \/ /\ n \in there
          /\ there' = there \ Below(n)
       \/ /\ n \notin there
          /\ Parent[n] \in Nodes => Parent[n] \in there /\ kind[Parent[n]] # "file"
          /\ there' = there \cup {n}
    /\ always' = always \cap there'
    /\ ever' = ever \cup there'
    /\ UNCHANGED <<tree, next, stack, found>>

-----------------------------------------------------------------------------
(* The walk.                                                               *)

\* A root that does not exist is skipped; of one that does, the walk first yields
\* the root itself.
NextRoot ==
    /\ stack = <<>>
    /\ next <= Len(Roots)
    /\ next' = next + 1
    /\ stack' = IF Roots[next] \in there THEN << {Roots[next]} >> ELSE <<>>
    /\ UNCHANGED <<tree, there, changes, found, always, ever>>

\* The innermost directory has no more entries.
Leave ==
    /\ stack # <<>>
    /\ Head(stack) = {}
    /\ stack' = Tail(stack)
    /\ UNCHANGED <<tree, there, changes, next, found, always, ever>>

\* Listing a directory when it is entered; an error is logged and skipped.
Listing(n) == IF n \in there /\ kind[n] = "dir" THEN Children(n) \cap there ELSE {}

\* WalkDir enters a directory as it yields it ...
Entered(n) ==
    LET rest == << Head(stack) \ {n} >> \o Tail(stack)
    IN  IF kind[n] = "file" THEN rest ELSE << Listing(n) >> \o rest

\* ... and skip_current_dir leaves whatever was entered last.
SkipCurrentDir(s) == Tail(s)

\* Variant: the test for a directory comes too late.
EntryAnyKind(n) ==
    \/ /\ name[n] = "git"
       /\ found' = found \cup (IF kind[n] # "file" THEN {Parent[n]} ELSE {})
       /\ stack' = SkipCurrentDir(Entered(n))
    \/ /\ name[n] = "excluded"
       /\ stack' = SkipCurrentDir(Entered(n))
       /\ found' = found
    \/ /\ name[n] = "plain"
       /\ stack' = Entered(n)
       /\ found' = found

\* Variant: an excluded directory is noted, and entered all the same.
EntryNoPrune(n) ==
    \/ /\ kind[n] # "file" /\ name[n] = "git"
       /\ found' = found \cup {Parent[n]}
       /\ stack' = SkipCurrentDir(Entered(n))
    \/ /\ kind[n] = "file" \/ name[n] # "git"
       /\ stack' = Entered(n)
       /\ found' = found

\* The body of the loop: a file is passed over, a ".git" directory is recorded and
\* not entered, an excluded one is not entered.
Entry(n) ==
    \/ /\ kind[n] = "file"
       /\ stack' = Entered(n)
       /\ found' = found
    \/ /\ kind[n] # "file" /\ name[n] = "git"
       /\ found' = found \cup {Parent[n]}
       /\ stack' = SkipCurrentDir(Entered(n))
    \/ /\ kind[n] # "file" /\ name[n] = "excluded"
       /\ stack' = SkipCurrentDir(Entered(n))
       /\ found' = found
    \/ /\ kind[n] # "file" /\ name[n] = "plain"
       /\ stack' = Entered(n)
       /\ found' = found

\* A root that has vanished since NextRoot is an error, which is skipped; whether
\* another entry is a directory is known from the listing it came with.
Yield(n) ==
    /\ stack # <<>>
    /\ n \in Head(stack)
    /\ IF n \notin there /\ Len(stack) = 1
       THEN stack' = << Head(stack) \ {n} >> /\ found' = found
       ELSE Entry(n)
    /\ UNCHANGED <<tree, there, changes, next, always, ever>>

Done == stack = <<>> /\ next > Len(Roots)

Walk == NextRoot \/ Leave \/ \E n \in Nodes : Yield(n)

WalkNext ==
    \/ Walk
    \/ \E n \in Nodes : ~Done /\ Change(n)
    \/ Done /\ UNCHANGED walkVars

WalkSpec == WalkInit /\ [][WalkNext]_walkVars

-----------------------------------------------------------------------------
(* The reference.                                                          *)

\* The directories a walk of the tree D has to look into: those connected to a root
\* by directories that can be listed and are neither excluded nor ".git" themselves.
Visible(D) ==
    LET open(n) == n \in D /\ kind[n] = "dir" /\ name[n] = "plain"
        walked[n \in Nodes] ==
            open(n) /\ (n \in RootSet \/ (Parent[n] \in Nodes /\ walked[Parent[n]]))
    IN  {n \in Nodes : walked[n]}

\* The repositories in the tree D: the parents of the ".git" directories in these.
Repositories(D) ==
    {Parent[g] : g \in {n \in D : /\ name[n] = "git" /\ kind[n] # "file"
                                  /\ n \in RootSet \/ Parent[n] \in Visible(D)}}

\* A path that is recorded was a repository in a visible place at some time during
\* the walk, whatever was removed or made meanwhile.
NothingInvented == found \subseteq Repositories(ever)

\* The repositories that stay in a visible place during the whole walk, and never lie in
\* another directory that holds a ".git" entry of any kind: what is inside a repository,
\* as a submodule is, need not be found (src/scan.rs:3).
Outermost ==
    {p \in Repositories(always) :
        \A g \in ever : name[g] = "git" /\ Parent[g] # p => p \notin Below(Parent[g])}

\* These are recorded: no entry, error, change or exclusion elsewhere makes the walk pass
\* one of them by.  A ".git" that is a file, as in a linked worktree, makes no repository.
NothingMissed == Done => Outermost \subseteq found

\* "When a `.git` entry is found, its parent is recorded as a repository and we stop
\* descending into that tree" (src/scan.rs:3): no repository is found inside another.
NoNestedRepos ==
    \A p \in found \cap Nodes : found \cap Below(p) = {p}
=============================================================================
