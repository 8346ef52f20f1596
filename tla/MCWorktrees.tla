----------------------------- MODULE MCWorktrees -----------------------------
(* Worktrees for TLC: the model values are in the configurations.          *)
EXTENDS Worktrees, TLC

\* One worktree: its branch and all sessions belong there.
OneTree == CHOOSE w \in Tree : TRUE
DirOfAll == [b \in Branch |-> OneTree]
HomeOfAll == [s \in Session |-> OneTree]

Symmetry == Permutations(Session) \cup Permutations(Window) \cup Permutations(Job)
==============================================================================
