----------------------------- MODULE StatusStore -----------------------------
(***************************************************************************)
(* The status half of the server's database handle (src/db.rs): the table  *)
(* `repos`, which survives the process, and the write-on-change cache,     *)
(* which does not.  The fetch columns of the same table are independent    *)
(* of everything here and belong to the fetch model.                       *)
(*                                                                         *)
(* A repository is named by its path; the id derived from it (repo_id, a   *)
(* 64-bit hash) is taken to be injective.  What compute_status makes of a  *)
(* repository is a single value, the JSON that save_status compares: one   *)
(* element of Content stands for all states of a repository with the same  *)
(* status.                                                                 *)
(*                                                                         *)
(* Every Db method runs without awaiting, and the runtime has one thread   *)
(* (src/main.rs:30), so each method is one step and its operator here says *)
(* what that step does to the two variables.                               *)
(***************************************************************************)
CONSTANTS
    Repos,       \* the paths a scan may find
    Content,     \* the states of a repository that is on disk
    Unreadable,  \* those in which Repository::open fails
    Hidden,      \* of these, those in which .git cannot even be looked at
    Gone,        \* there is no .git at the path
    OpenFailed,  \* the JSON of a status whose `error` is "open failed"
    Null,        \* SQL NULL, and a missing cache entry
    Untracked    \* no row for the path

ASSUME StoreAssumption ==
    /\ Unreadable \subseteq Content
    /\ Hidden \subseteq Unreadable
    /\ Gone \notin Content
    /\ OpenFailed \notin Content
    /\ Null \notin Content \cup {OpenFailed}
    /\ Untracked \notin Content \cup {OpenFailed, Null}

VARIABLES
    rows,   \* rows[p]: Untracked, or the column status_json of p's row
    cache   \* cache[p]: Null, or p's CheckCache entry

Json == (Content \ Unreadable) \cup {OpenFailed}

\* How `last_checked` was obtained: stamped by compute_status at the end of an
\* inspection, or filled in by save_status because the status carried none.
Stamp == {"inspected", "saved"}

CacheEntry == [json : Json, last_checked : Stamp]

ASSUME EntryAssumption == Null \notin CacheEntry

StoreTypeOK ==
    /\ rows \in [Repos -> Json \cup {Null, Untracked}]
    /\ cache \in [Repos -> CacheEntry \cup {Null}]

-----------------------------------------------------------------------------
\* compute_status: a repository that cannot be opened yields the error status.
ComputeStatus(d) == IF d \in Content \ Unreadable THEN d ELSE OpenFailed

\* compute_status returns before stamping last_checked when open fails, and
\* save_status then uses the current time.
LastChecked(json) == IF json = OpenFailed THEN "saved" ELSE "inspected"

\* list_paths: every row of the table.
ListPaths == {p \in Repos : rows[p] # Untracked}

\* stored_json: no row and a NULL column read alike.
StoredJson(p) == IF rows[p] = Untracked THEN Null ELSE rows[p]

\* What list_statuses and get_status make of a row (hydrate): blank if it was never
\* checked, and the time of check from the cache.
Served(p) ==
    [status |-> StoredJson(p),
     last_checked |-> IF cache[p] = Null THEN Null ELSE cache[p].last_checked]

\* Variant: nothing in the cache is taken for nothing in the table.
OnDiskCacheOnly(p) == IF cache[p] # Null THEN cache[p].json ELSE Null

\* What save_status believes to be on disk: the cache if it knows, else a read.
OnDisk(p) == IF cache[p] # Null THEN cache[p].json ELSE StoredJson(p)

\* Variant: the UPDATE became an upsert.
SaveStatusUpsert(p, json) ==
    /\ rows' = IF OnDisk(p) # json THEN [rows EXCEPT ![p] = json] ELSE rows
    /\ cache' = [cache EXCEPT ![p] = [json |-> json,
                                      last_checked |-> LastChecked(json)]]

\* Variant: an entry that is already cached is not refreshed.
SaveStatusKeepEntry(p, json) ==
    /\ rows' = IF OnDisk(p) # json /\ p \in ListPaths
               THEN [rows EXCEPT ![p] = json]
               ELSE rows
    /\ cache' = IF cache[p] # Null THEN cache
                ELSE [cache EXCEPT ![p] = [json |-> json,
                                           last_checked |-> LastChecked(json)]]

\* save_status: UPDATE only if the status differs from what is believed to be
\* stored (an UPDATE of a missing row changes nothing), then remember it.
SaveStatus(p, json) ==
    /\ rows' = IF OnDisk(p) # json /\ p \in ListPaths
               THEN [rows EXCEPT ![p] = json]
               ELSE rows
    /\ cache' = [cache EXCEPT ![p] = [json |-> json,
                                      last_checked |-> LastChecked(json)]]

\* Variant: delete drops the row but not the cache entry.
UpsertThenDeleteRows(found, lost) ==
    /\ rows' = [p \in Repos |->
                   IF p \in lost THEN Untracked
                   ELSE IF p \in found /\ rows[p] = Untracked THEN Null
                   ELSE rows[p]]
    /\ cache' = cache

\* Variant: a path that has a cache entry is taken for tracked, and not inserted.
UpsertUncached(found, lost) ==
    /\ rows' = [p \in Repos |->
                   IF p \in lost THEN Untracked
                   ELSE IF p \in found /\ rows[p] = Untracked /\ cache[p] = Null THEN Null
                   ELSE rows[p]]
    /\ cache' = [p \in Repos |-> IF p \in lost THEN Null ELSE cache[p]]

\* upsert_discovered for each path of `found`, then delete for each path of
\* `lost`: a known path keeps its row, a new one starts unchecked, and a
\* deleted one loses its cache entry too.
UpsertThenDelete(found, lost) ==
    /\ rows' = [p \in Repos |->
                   IF p \in lost THEN Untracked
                   ELSE IF p \in found /\ rows[p] = Untracked THEN Null
                   ELSE rows[p]]
    /\ cache' = [p \in Repos |-> IF p \in lost THEN Null ELSE cache[p]]

\* A new process opens the same file: the table is as it was, the cache empty.
OpenDb ==
    /\ rows' = rows
    /\ cache' = [p \in Repos |-> Null]
=============================================================================
