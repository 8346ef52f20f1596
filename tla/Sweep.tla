-------------------------------- MODULE Sweep --------------------------------
(***************************************************************************)
(* `a cc sweep`, run every minute by launchd, beside the claude process    *)
(* and the hooks of one pane: src/commands/cc/sweep/mod.rs.                *)
(*                                                                         *)
(* A pass takes one snapshot of the process table, then goes through the   *)
(* session documents. It loads a document under the shared lock, decides,  *)
(* and saves the copy it loaded: between the two, hooks may run.           *)
(***************************************************************************)
EXTENDS ClaudePane

CONSTANT UserInPass  \* may the user act while a pass is under way?
ASSUME UserInPassAssumption == UserInPass \in BOOLEAN

VARIABLES
  sweep,     \* the pass in progress
  activity,  \* time since the input box was seen to change (pane option)
  untouched  \* history: time since the user last typed, in any form

sweepVars == <<sweep, activity, untouched>>
vars == <<paneVars, sweepVars>>

NoPass == [pc |-> "idle", todo |-> {}, sid |-> None, copy |-> None, snapshot |-> None]

Pass ==
  [pc: {"idle", "next", "clear", "decide", "signal", "save_signaled", "save_paused"},
   todo: SUBSET Sid,                \* documents still to visit
   sid: Sid \cup {None}, copy: SessionRecord \cup {None},
   snapshot: Pid \cup {None}]       \* the claude that the process table shows

SweepTypeOK ==
  /\ PaneTypeOK
  /\ sweep \in Pass
  /\ activity \in 0 .. TIMEOUT
  /\ untouched \in 0 .. TIMEOUT

Init == /\ PaneInit
        /\ sweep = NoPass
        /\ activity = TIMEOUT
        /\ untouched = TIMEOUT

-----------------------------------------------------------------------------
Pid_of_pane == IF proc = None THEN None ELSE proc.pid

SweepStart ==
  /\ sweep.pc = "idle"
  /\ sweep' = [NoPass EXCEPT !.pc = "next", !.snapshot = Pid_of_pane,
                             !.todo = {s \in Sid : file[s] # None}]
  /\ remembered' = {Pid_of_pane} \ {None}
  /\ UNCHANGED <<file, proc, ending, typed, activity, untouched>>

\* resolve_pid looks the pane up in the snapshot: it finds whatever claude
\* runs in the pane of the session.
resolve_pid == sweep.snapshot

\* Pending work of a session without a process can never be reported as
\* finished: it is dropped.
IsStalePending(d) == has_pending_bg_tasks(d) /\ resolve_pid = None
WithoutPending(d) == [d EXCEPT !.pending_bg_task_ids = {}, !.pending_agent_task_ids = {}]

SweepLoad(s) ==
  /\ sweep.pc = "next" /\ s \in sweep.todo
  /\ IF file[s] = None \/ file[s].status = "Ended"
       THEN sweep' = [sweep EXCEPT !.todo = @ \ {s}]
       ELSE LET stale == IsStalePending(file[s]) IN
            sweep' = [sweep EXCEPT !.todo = @ \ {s}, !.sid = s,
                        !.copy = IF stale THEN WithoutPending(file[s]) ELSE file[s],
                        !.pc = IF stale THEN "clear" ELSE "decide"]
  /\ UNCHANGED <<paneVars, activity, untouched>>

SaveCopy(d, pc) ==
  /\ file' = [file EXCEPT ![sweep.sid] = d]
  /\ sweep' = [sweep EXCEPT !.copy = d, !.pc = pc]
  /\ UNCHANGED <<proc, ending, typed, remembered, activity, untouched>>

SweepClear == sweep.pc = "clear" /\ SaveCopy(sweep.copy, "decide")

\* TmuxActivityProbe: a change of the input box since the last look counts as
\* activity now. Without a claude in the pane there is no input box.
Probe == IF proc = None
           THEN UNCHANGED <<activity, typed>>
           ELSE activity' = (IF typed THEN 0 ELSE activity) /\ typed' = FALSE
ProbedActivity == IF proc = None THEN TIMEOUT ELSE IF typed THEN 0 ELSE activity

Decision_NoActivity == decide_pause(sweep.copy, TIMEOUT)

Decision == decide_pause(sweep.copy, ProbedActivity)

SweepDecide_PausesAtOnce ==
  /\ sweep.pc = "decide"
  /\ sweep' = [sweep EXCEPT !.pc = IF Decision # "Pause" THEN "next" ELSE "save_paused"]
  /\ Probe
  /\ UNCHANGED <<file, proc, ending, remembered, untouched>>

SweepDecide_NeverConfirms ==
  /\ sweep.pc = "decide"
  /\ sweep' = [sweep EXCEPT !.pc = IF Decision # "Pause" \/ resolve_pid = None
                                   THEN "next" ELSE "signal"]
  /\ Probe
  /\ UNCHANGED <<file, proc, ending, remembered, untouched>>

SweepDecide ==
  /\ sweep.pc = "decide"
  /\ sweep' = [sweep EXCEPT !.pc = IF Decision # "Pause" THEN "next"
                                   ELSE IF resolve_pid = None THEN "save_paused"
                                   ELSE "signal"]
  /\ Probe
  /\ UNCHANGED <<file, proc, ending, remembered, untouched>>

\* signal_session: SIGTERM first, the flag after it.
SweepSignal ==
  /\ sweep.pc = "signal"
  /\ Sigterm(resolve_pid)
  /\ sweep' = [sweep EXCEPT !.pc = "save_signaled"]
  /\ UNCHANGED <<file, ending, typed, remembered, activity, untouched>>

SweepSaveSignaled ==
  sweep.pc = "save_signaled" /\ SaveCopy([sweep.copy EXCEPT !.sweep_signaled = TRUE], "next")

\* confirm_paused.
SweepSavePaused ==
  /\ sweep.pc = "save_paused"
  /\ SaveCopy([sweep.copy EXCEPT !.status = "Paused", !.sweep_signaled = FALSE], "next")

SweepEnd ==
  /\ sweep.pc = "next" /\ sweep.todo = {}
  /\ sweep' = NoPass
  /\ remembered' = {}
  /\ UNCHANGED <<file, proc, ending, typed, activity, untouched>>

\* An error (a LockTimeout of a save, for one) ends the pass where it is.
SweepAbort ==
  /\ sweep.pc # "idle" /\ ~(sweep.pc = "next" /\ sweep.todo = {})
  /\ sweep' = NoPass
  /\ remembered' = {}
  /\ UNCHANGED <<file, proc, ending, typed, activity, untouched>>

Longer(t) == IF t < TIMEOUT THEN t + 1 ELSE t

\* A pass reads the clock once, when it starts: for its decisions, time
\* stands still.
SweepTick ==
  /\ sweep.pc = "idle"
  /\ AgeFiles
  /\ activity' = Longer(activity) /\ untouched' = Longer(untouched)
  /\ <<file', activity', untouched'>> # <<file, activity, untouched>>
  /\ UNCHANGED <<proc, typed, remembered, sweep>>

-----------------------------------------------------------------------------
SweepStep == \/ SweepStart \/ SweepClear \/ SweepDecide
             \/ SweepSignal \/ SweepSaveSignaled \/ SweepSavePaused \/ SweepEnd
             \/ \E s \in Sid : SweepLoad(s)

Typing == Prompt \/ Type

User == /\ UserStep /\ (UserInPass \/ sweep.pc = "idle")
        /\ untouched' = IF Typing THEN 0 ELSE untouched
        /\ UNCHANGED <<sweep, activity>>

SweepNext == \/ User
             \/ (AgentStep \/ ExitStep) /\ UNCHANGED sweepVars
             \/ SweepStep \/ SweepAbort
             \/ SweepTick

SweepSpec == Init /\ [][SweepNext]_vars

\* Time passes between passes (they are a minute apart), launchd keeps running
\* passes and lets them finish, and a process that got SIGTERM exits some day.
Dying == ObeySigterm \/ Exit \/ \E s \in Sid : EndLoad(s) \/ EndSave(s)
FairSweepSpec == /\ SweepSpec
                 /\ SF_vars(SweepTick)
                 /\ WF_vars(SweepStep)
                 /\ WF_vars(Dying /\ UNCHANGED sweepVars)

-----------------------------------------------------------------------------
(* Properties *)

HasProcess(s) == proc # None /\ proc.sid = s /\ proc.main \in {"idle", "busy"}

\* The claude that sweep is about to signal for its session has nothing to do:
\* no turn, no background work, no open prompt.
SignalsOnlyIdle ==
  sweep.pc = "signal" /\ proc # None /\ proc.sid = sweep.sid
    => /\ proc.main # "busy" /\ proc.waiting = {}
       /\ proc.agents = {} /\ proc.tasks = {}

\* The process that sweep is about to signal has not been typed into for the
\* whole timeout, be it a prompt or a draft that was never sent
\* (shared/active_session.rs).
SignalsOnlyUntouched ==
  sweep.pc = "signal" /\ proc # None /\ proc.pid = resolve_pid => untouched >= TIMEOUT

\* README.md:461: a session is marked Paused only once no process resolves for it.
PausedIsGone ==
  \A s \in Sid : file[s] # None /\ file[s].status = "Paused" => ~HasProcess(s)

\* README.md:459: a session that stays Stopped is eventually paused, unless
\* its user keeps coming back or the passes keep failing.
Stopped(s) == file[s] # None /\ file[s].status = "Stopped"
IdleIsPaused == \/ []<><<User>>_vars
                \/ []<><<SweepAbort>>_vars
                \/ \A s \in Sid : Stopped(s) ~> ~Stopped(s)

\* Once another session has taken the pane over, no session of the pane is
\* Paused: it would be offered for a resume in a pane that is in use
\* (evict_paused_sessions_on_pane_takeover).
PausedKeepsItsPane ==
  \A s \in Sid : file[s] # None /\ file[s].status = "Paused"
                   => ~\E t \in Sid \ {s} : HasProcess(t)
=============================================================================
