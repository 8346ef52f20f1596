---------------------------- MODULE MCAutoCompact ----------------------------
(* Small instances of AutoCompact for TLC. *)
EXTENDS AutoCompact, TLC
=============================================================================
