---------------------------- MODULE MCWatchList ----------------------------
(* WatchList for TLC: the model values are in the configurations.          *)
EXTENDS WatchList

CONSTANTS s1, s2, w1

\* s2 was delegated by s1 into the same worktree.
AgeOf == (s1 :> 1) @@ (s2 :> 2)
AncestorsOf == (s1 :> {}) @@ (s2 :> {s1})
TreeOfEach == [s \in Session |-> w1]
==============================================================================
