------------------------------ MODULE MCDiscover ------------------------------
(***************************************************************************)
(* Discover for TLC: all trees that are part of                            *)
(*                                                                         *)
(*     r --+-- a --+-- c                                                   *)
(*         |       +-- d                                                   *)
(*         +-- b                                                           *)
(*                                                                         *)
(* without those that differ only in what no walk can tell apart: the kind *)
(* and name of a node that will never be on disk, and whether a directory  *)
(* without entries could be listed.                                        *)
(***************************************************************************)
EXTENDS Discover

CONSTANTS r, a, b, c, d

FiveNodes == {r, a, b, c, d}
FiveParents == [n \in FiveNodes |-> CASE n = r -> Outside
                                      [] n \in {a, b} -> r
                                      [] n \in {c, d} -> a]
OneRoot == <<r>>
NestedRoots == <<a, r>>

MCInit ==
    /\ WalkInit
    /\ \A n \in Nodes :
          /\ Children(n) = {} => kind[n] # "locked"
          /\ MaxChanges = 0 /\ n \notin there => kind[n] = "file" /\ name[n] = "plain"

MCSpec == MCInit /\ [][WalkNext]_walkVars
=============================================================================
