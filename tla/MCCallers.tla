------------------------------ MODULE MCCallers ------------------------------
(* SessionStore and PrDraft for TLC: two machines whose callers wait for   *)
(* an answer that has to come. They share nothing, and each runs only      *)
(* while the other is as it began.                                         *)
EXTENDS SessionStore, PrDraft

\* One process is sweep, which loads, saves and cleans up; the others are
\* hooks and the TUI, which update and delete.
SweepOps == [p \in Proc |->
               IF p = CHOOSE q \in Proc : TRUE THEN {"load", "save", "cleanup"}
               ELSE {"update", "delete"}]

MCInit == StoreInit /\ DraftInit
MCNext == \/ DraftInit /\ StoreNext /\ UNCHANGED draftVars
          \/ StoreInit /\ DraftNext /\ UNCHANGED storeVars
MCSpec == MCInit /\ [][MCNext]_<<storeVars, draftVars>>
FairMCSpec == MCSpec /\ StoreFairness /\ DraftFairness
==============================================================================
