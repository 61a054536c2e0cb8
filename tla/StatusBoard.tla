----------------------------- MODULE StatusBoard -----------------------------
(***************************************************************************)
(* What discovery and checking promise to whoever reads the published      *)
(* statuses: a board without a cache.  A repository is either not on the   *)
(* board, on it but still blank, or on it with a status; an observation    *)
(* that is delivered is written through to the board.  The exception is a  *)
(* repository taken off the board while observations of it were pending:   *)
(* it is tainted, and a delivery may fail to show.                         *)
(***************************************************************************)
CONSTANTS Repos, Observers, Statuses, Blank, Absent, Nothing

VARIABLES
    board,    \* board[p]: Absent, Blank, or the published status
    pending,  \* pending[k][p]: Nothing, or what k observed and not delivered
    tainted   \* repositories for which a delivery may fail to show

boardVars == <<board, pending, tainted>>

Init ==
    /\ board = [p \in Repos |-> Absent]
    /\ pending = [k \in Observers |-> [p \in Repos |-> Nothing]]
    /\ tainted = {}

Observe(k, p) ==
    /\ \E s \in Statuses : pending' = [pending EXCEPT ![k][p] = s]
    /\ UNCHANGED <<board, tainted>>

\* The board shows what is delivered, if it lists p at all.
Deliver(k, p) ==
    /\ pending[k][p] # Nothing
    /\ \/ board' = IF board[p] = Absent THEN board
                   ELSE [board EXCEPT ![p] = pending[k][p]]
       \/ p \in tainted /\ board' = board
    /\ pending' = [pending EXCEPT ![k][p] = Nothing]
    /\ UNCHANGED tainted

\* Some observations of k come to nothing.
Forget(k) ==
    /\ \E kept \in SUBSET Repos :
          pending' = [pending EXCEPT ![k] =
                         [p \in Repos |-> IF p \in kept THEN pending[k][p]
                                          ELSE Nothing]]
    /\ UNCHANGED <<board, tainted>>

\* New repositories go up blank, known ones keep their status, lost ones are
\* taken down.
Revise(up, lost) ==
    /\ board' = [p \in Repos |-> IF p \in lost THEN Absent
                                 ELSE IF p \in up /\ board[p] = Absent THEN Blank
                                 ELSE board[p]]
    /\ \E hit \in SUBSET lost : tainted' = (tainted \ lost) \cup hit
    /\ UNCHANGED pending

\* A restart keeps the board, forgets all observations and heals the taint.
Reset ==
    /\ board' = board
    /\ pending' = [k \in Observers |-> [p \in Repos |-> Nothing]]
    /\ tainted' = {}

Next ==
    \/ \E k \in Observers, p \in Repos : Observe(k, p) \/ Deliver(k, p)
    \/ \E k \in Observers : Forget(k)
    \/ \E up, lost \in SUBSET Repos : Revise(up, lost)
    \/ Reset

Spec == Init /\ [][Next]_boardVars
=============================================================================
