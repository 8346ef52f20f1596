----------------------------- MODULE MCHookTail -----------------------------
(* Small instances for TLC: the launches of new sessions, then the hooks   *)
(* of a session, then a reader of its transcript. Two of the three are at  *)
(* rest while the third moves.                                             *)
EXTENDS HookTail, Transcript, MCLaunch

\* Hook processes are alike.
Alike == Permutations(HookProc)

\* Runs are alike: they are used in their order. A third one is only looked at
\* when its caller is the child of another, in the smallest layout.
Small == /\ \A r, q \in NewRun : r < q /\ At_(r, "none") => At_(q, "none")
         /\ \/ \E r \in NewRun : At_(r, "none")
            \/ IsPane(wm_layout) /\ \E r \in NewRun : run[r].caller # NoSession
                                       /\ run[run[r].caller[1]].caller # NoSession

NobodyLaunches == LaunchInit /\ wm_layout = Pane(PlainClaude, FALSE)
NobodyReads == TranscriptInit /\ reader.want = "message"
NobodyHooks == Init /\ part = "message"
Launched == \E r \in NewRun : ~At_(r, "none")

TailAlone == NobodyReads /\ NobodyLaunches
ReaderAlone == NobodyHooks /\ NobodyLaunches
LaunchesAlone == NobodyHooks /\ NobodyReads

MCInit == /\ Init /\ TranscriptInit /\ LaunchInit
          /\ TailAlone \/ ReaderAlone \/ LaunchesAlone
MCNext == \/ TailAlone /\ TailNext /\ UNCHANGED <<transcriptVars, newVars>>
          \/ ReaderAlone /\ TranscriptNext /\ UNCHANGED <<vars, newVars>>
          \/ LaunchesAlone /\ LaunchNext /\ Small' /\ UNCHANGED <<vars, transcriptVars>>
          \/ Launched /\ UNCHANGED <<vars, transcriptVars, newVars>>  \* all runs are used
MCSpec == MCInit /\ [][MCNext]_<<vars, transcriptVars, newVars>>
=============================================================================
