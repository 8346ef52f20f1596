----------------------------- MODULE MCIssueSync -----------------------------
(* IssueSync for TLC: the model values are in the configurations.          *)
EXTENDS IssueSync, TLC

\* Neither texts nor comments are told apart by anything but their identity.
Symmetry == Permutations(Value) \cup Permutations(Comment)
==============================================================================
