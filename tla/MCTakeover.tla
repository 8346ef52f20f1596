----------------------------- MODULE MCTakeover -----------------------------
(* Sweep and CleanView for TLC: what pauses sessions and what deletes      *)
(* worktrees while a user comes and goes. They share nothing, and each     *)
(* runs only while the other is as it began.                               *)
EXTENDS Sweep, CleanView, Functions

\* The worktrees of the lists, one before the other.
RankOf == CHOOSE f \in [Path -> 1 .. Cardinality(Path)] : IsInjective(f)

\* At first all pull requests are merged or none is.
MCCleanInit == CleanInit /\ merged \in {{}, Path}
MCInit == Init /\ MCCleanInit
MCNext == \/ CleanInit /\ merged = {} /\ SweepNext /\ UNCHANGED cleanVars
          \/ Init /\ CleanNext /\ UNCHANGED vars
MCSpec == MCInit /\ [][MCNext]_<<vars, cleanVars>>
=============================================================================
