------------------------------ MODULE Session ------------------------------
(***************************************************************************)
(* The session document of one Claude Code session and the pure functions  *)
(* that compute on it: src/commands/cc/types.rs, the state machine inside  *)
(* process_hook_event_impl of hook.rs, auto_pause.rs and the activity      *)
(* rules of shared/active_session.rs.                                      *)
(*                                                                         *)
(* Instead of a clock and the time stamp `updated_at`, a document carries  *)
(* its age, now - updated_at, which is only ever compared with the idle    *)
(* timeout and so needs to be counted no further than that.                *)
(***************************************************************************)
EXTENDS Naturals, FiniteSets

CONSTANTS Agent,                  \* Task-tool subagents
          Task,                   \* background shells
          MAIN_THREAD_AGENT_KEY,  \* the permission key of the main thread
          TIMEOUT,                \* auto_pause.timeout, in ticks
          None                    \* no document

ASSUME MainThreadAssumption == MAIN_THREAD_AGENT_KEY \notin Agent
ASSUME TimeoutAssumption    == TIMEOUT \in Nat

Status == {"Running", "WaitingInput", "Stopped", "Paused", "Ended"}
AgentKey == Agent \cup {MAIN_THREAD_AGENT_KEY}

\* `read` says whether read_at is set.
SessionRecord ==
  [status: Status, age: 0 .. TIMEOUT, read: BOOLEAN,
   pending_bg_task_ids: SUBSET Task,
   pending_agent_task_ids: SUBSET Agent,
   pending_permission_agent_ids: SUBSET AgentKey,
   sweep_signaled: BOOLEAN]

ASSUME NoneAssumption == None \notin SessionRecord

HookEvent == {"SessionStart", "UserPromptSubmit", "PreToolUse", "PostToolUse",
              "PermissionRequest", "Notification", "Stop", "SessionEnd"}

\* What a hook reads from its standard input. `kind` is the notification_type
\* of a Notification and the source of a SessionStart; `shells` and
\* `subagents` are the entries of background_tasks by their type.
HookInput ==
  [event: HookEvent, agent: AgentKey,
   kind: {"none", "permission_prompt", "idle_prompt", "resume"},
   shells: SUBSET Task, subagents: SUBSET Agent]

-----------------------------------------------------------------------------
(* Predicates of a document *)

has_pending_bg_tasks(s) ==
  s.pending_bg_task_ids # {} \/ s.pending_agent_task_ids # {}

has_pending_permission_requests(s) == s.pending_permission_agent_ids # {}

is_unread_stopped(s) == s.status = "Stopped" /\ ~s.read

-----------------------------------------------------------------------------
(* The hook handler between loading and saving the document *)

determine_status(i) ==
  CASE i.event = "Stop"                                        -> "Stopped"
    [] i.event = "PermissionRequest"                           -> "WaitingInput"
    [] i.event = "Notification" /\ i.kind = "permission_prompt" -> "WaitingInput"
    [] i.event = "Notification" /\ i.kind = "idle_prompt"       -> "Stopped"
    [] i.event = "SessionStart" /\ i.kind = "resume"            -> "Stopped"
    [] OTHER                                                   -> "Running"

NewSession(status) ==
  [status |-> status, age |-> 0, read |-> FALSE,
   pending_bg_task_ids |-> {}, pending_agent_task_ids |-> {},
   pending_permission_agent_ids |-> {}, sweep_signaled |-> FALSE]

PermissionsAfter_ClearsAll(s, i) ==
  CASE i.event = "PermissionRequest" -> s.pending_permission_agent_ids \cup {i.agent}
    [] i.event = "Notification"      -> s.pending_permission_agent_ids
    [] OTHER                         -> {}

\* An agent's own event shows that its prompt was answered. A Stop also
\* prunes the keys of subagents that are no longer in the task registry.
PermissionsAfter(s, i) ==
  LET answered ==
        CASE i.event = "PermissionRequest" -> s.pending_permission_agent_ids \cup {i.agent}
          [] i.event = "Notification"      -> s.pending_permission_agent_ids
          [] OTHER                         -> s.pending_permission_agent_ids \ {i.agent}
  IN IF i.event = "Stop"
       THEN answered \cap (i.subagents \cup {MAIN_THREAD_AGENT_KEY})
       ELSE answered

\* Only a Stop carries the registry of background work.
SubagentsAfter_Unlisted(s, i) == s.pending_agent_task_ids

ShellsAfter(s, i)    == IF i.event = "Stop" THEN i.shells ELSE s.pending_bg_task_ids
SubagentsAfter(s, i) == IF i.event = "Stop" THEN i.subagents ELSE s.pending_agent_task_ids

\* A prompt that is open anywhere wins; pending work turns Stopped into Running.
ClampedStatus_NoPendingWork(s, i) ==
  IF has_pending_permission_requests(s) THEN "WaitingInput" ELSE determine_status(i)

ClampedStatus(s, i) ==
  IF has_pending_permission_requests(s) THEN "WaitingInput"
  ELSE IF determine_status(i) = "Stopped" /\ has_pending_bg_tasks(s) THEN "Running"
  ELSE determine_status(i)

\* The events of a process that is shutting down do not end a pause.
keep_paused(s, i, status) ==
  /\ s.status = "Paused"
  /\ i.event # "SessionStart"
  /\ \/ status \in {"Stopped", "Ended"}
     \/ i.event = "Stop" /\ status = "Running"

\* The whole load-mutate-save round trip of one event: d is the document
\* found, or None.
ApplyHook(d, i) ==
  LET s == IF d = None THEN NewSession(determine_status(i)) ELSE d
      t == [s EXCEPT !.age = 0,
                     !.sweep_signaled = FALSE,
                     !.pending_bg_task_ids = ShellsAfter(s, i),
                     !.pending_agent_task_ids = SubagentsAfter(s, i),
                     !.pending_permission_agent_ids = PermissionsAfter(s, i)]
      status == IF keep_paused(t, i, ClampedStatus(t, i)) THEN "Paused"
                                                          ELSE ClampedStatus(t, i)
  IN [t EXCEPT !.status = status, !.read = @ /\ status # "Stopped"]

\* What the SessionEnd hook makes of the document it loaded.
EndedBy(s) ==
  IF s.status = "Paused" THEN s
  ELSE IF s.sweep_signaled THEN [s EXCEPT !.status = "Paused", !.sweep_signaled = FALSE]
  ELSE [s EXCEPT !.status = "Ended", !.age = 0]

\* mark_session_read_in: only an unread Stopped session changes.
MarkedRead(s) == IF is_unread_stopped(s) THEN [s EXCEPT !.read = TRUE] ELSE s

-----------------------------------------------------------------------------
(* Deciding whether a session is idle. `activity` is the time since the    *)
(* text in the pane's input box last changed.                              *)

effective_age(s, activity) == IF activity < s.age THEN activity ELSE s.age

decide_pause(s, activity) ==
  CASE s.status # "Stopped" -> "NotStopped"
    [] s.status = "Stopped" /\ has_pending_bg_tasks(s) -> "BgTaskPending"
    [] s.status = "Stopped" /\ ~has_pending_bg_tasks(s) ->
         IF effective_age(s, activity) >= TIMEOUT THEN "Pause" ELSE "NotYetElapsed"

\* What keeps a worktree from being cleaned.
is_session_active(s, activity) ==
  s.status \notin {"Ended", "Paused"} /\ decide_pause(s, activity) # "Pause"

Older(s) == IF s = None THEN None
            ELSE [s EXCEPT !.age = IF @ < TIMEOUT THEN @ + 1 ELSE @]
=============================================================================
