------------------------------- MODULE PeerWake -------------------------------
(***************************************************************************)
(* `a cc peer wake` and `a cc peer notify` (src/commands/cc/peer), and the *)
(* resume key of the TUI: they restart the claude of a Paused session in   *)
(* the pane it was paused in (resume.rs) and wait for its name to appear   *)
(* in the registry of Claude Code (claude_registry.rs).                    *)
(*                                                                         *)
(* One pane and the sessions that were ever in it. `respawn-pane -k`       *)
(* replaces what runs there by a login shell, which tmux reports as a      *)
(* shell until it has read its rc files and runs `a cc resume`; this       *)
(* becomes `claude --resume` of the session in the pane's option. Claude   *)
(* Code's side and the user are external.                                  *)
(***************************************************************************)
EXTENDS Naturals

CONSTANTS
  Session,
  Caller,     \* processes that wake, notify or resume
  KindOf,     \* KindOf[c] \in {"wake", "notify", "tui"}
  TargetOf,   \* TargetOf[c]: the session it is asked for
  MaxRuns,    \* bound: what the user starts in the pane
  None

VARIABLES
  status,    \* status[s]: of the document of s
  option,    \* TMUX_SESSION_OPTION of the pane
  fg,        \* what is in the foreground of the pane
  runs,      \* the session that fg resumes or is
  registry,  \* the sessions that have a name in the registry
  lock,      \* lock[s]: who holds the lock of the document of s
  call,      \* call[c]: where it is, and the status it has read
  started,   \* history: the caller whose respawn is still in the pane
  sent,      \* history: the callers whose message has been written
  count

vars == <<status, option, fg, runs, registry, lock, call, started, sent, count>>
pane == <<fg, runs, started>>
outside == <<status, option, registry, sent, count>>

\* "login": the shell of a respawn; "a": `a cc resume`.
Foreground == {"shell", "login", "a", "claude", "program"}

PeerWakeTypeOK ==
  /\ status \in [Session -> {"Paused", "Stopped", "Ended"}]
  /\ option \in Session /\ fg \in Foreground /\ runs \in Session \cup {None}
  /\ registry \subseteq Session /\ lock \in [Session -> Caller \cup {None}]
  /\ started \in Caller \cup {None} /\ sent \subseteq Caller /\ count \in 0 .. MaxRuns
  /\ call \in [Caller -> [pc: {"idle", "check", "lock", "resolve", "probe", "respawn", "poll",
                               "send", "done", "failed"},
                          status: {"Paused", "Stopped", "Ended", None}]]

Init ==
  /\ status \in [Session -> {"Paused", "Ended"}] /\ option \in Session
  /\ fg = "shell" /\ runs = None /\ registry = {} /\ started = None
  /\ lock = [s \in Session |-> None] /\ sent = {} /\ count = 0
  /\ call = [c \in Caller |-> [pc |-> "idle", status |-> None]]

-----------------------------------------------------------------------------
At(c, pc) == call[c].pc = pc
GoesTo(c, pc) == call' = [call EXCEPT ![c].pc = pc]
Free(c) == lock' = [s \in Session |-> IF lock[s] = c THEN None ELSE lock[s]]

\* The document is read once; notify refuses an Ended session and sends at
\* once to a running one; wake then only looks for the name.
Load(c) ==
  LET st == status[TargetOf[c]]
      next == CASE st = "Paused" -> IF KindOf[c] = "tui" THEN "probe" ELSE "check"
                [] KindOf[c] = "tui" -> "failed"
                [] KindOf[c] = "notify" -> IF st = "Ended" THEN "failed" ELSE "send"
                [] OTHER -> IF TargetOf[c] \in registry THEN "done" ELSE "failed"
  IN /\ At(c, "idle") /\ call' = [call EXCEPT ![c] = [pc |-> next, status |-> st]]
     /\ UNCHANGED <<outside, pane, lock>>

check_pane_matches_target(c) ==
  /\ At(c, "check") /\ GoesTo(c, IF option = TargetOf[c] THEN "lock" ELSE "failed")
  /\ UNCHANGED <<outside, pane, lock>>

lock_session_for_update(c) ==
  /\ At(c, "lock") /\ lock[TargetOf[c]] = None
  /\ lock' = [lock EXCEPT ![TargetOf[c]] = c] /\ GoesTo(c, "resolve")
  /\ UNCHANGED <<outside, pane>>

LockTimeout(c) ==
  /\ At(c, "lock") /\ lock[TargetOf[c]] # None /\ GoesTo(c, "failed")
  /\ UNCHANGED <<outside, pane, lock>>

\* A caller that has the name is done; for notify this is where it connects.
Named(c) == IF KindOf[c] = "notify" THEN "send" ELSE "done"

resolve_name(c) ==
  /\ At(c, "resolve")
  /\ IF TargetOf[c] \in registry THEN GoesTo(c, Named(c)) /\ Free(c)
     ELSE GoesTo(c, "probe") /\ UNCHANGED lock
  /\ UNCHANGED <<outside, pane>>

\* check_idle_at_shell_prompt: another command than a shell fails the caller;
\* wake takes a claude there for its own and goes on to poll.
AtPrompt == fg \in {"shell", "login"}
Probe(c) ==
  /\ At(c, "probe")
  /\ IF AtPrompt THEN GoesTo(c, "respawn") /\ UNCHANGED lock
     ELSE /\ GoesTo(c, IF fg = "claude" /\ KindOf[c] # "tui" THEN "poll" ELSE "failed")
          /\ Free(c)
  /\ UNCHANGED <<outside, pane>>

\* tmux respawn-pane -k, and the lock is dropped. The TUI waits for nothing.
Respawn(c) ==
  /\ At(c, "respawn")
  /\ GoesTo(c, IF KindOf[c] = "tui" THEN "done" ELSE "poll") /\ Free(c)
  /\ fg' = "login" /\ runs' = None /\ started' = c
  /\ registry' = registry \ (IF fg = "claude" THEN {runs} ELSE {})
  /\ UNCHANGED <<status, option, sent, count>>

\* wait_for_name, NAME_POLL_TIMEOUT at most.
Poll(c) ==
  /\ At(c, "poll")
  /\ \/ TargetOf[c] \in registry /\ GoesTo(c, Named(c))
     \/ TargetOf[c] \notin registry /\ GoesTo(c, "failed")
  /\ UNCHANGED <<outside, pane, lock>>

\* load_peer_connection and send_message.
Send(c) ==
  /\ At(c, "send")
  /\ IF TargetOf[c] \in registry THEN GoesTo(c, "done") /\ sent' = sent \cup {c}
     ELSE GoesTo(c, "failed") /\ UNCHANGED sent
  /\ UNCHANGED <<status, option, registry, count, pane, lock>>

-----------------------------------------------------------------------------
\* The login shell runs `a cc resume`, which reads the option of its pane and
\* becomes claude; resolve_session_id_from_pane.
LoginShellRuns == /\ fg = "login" /\ fg' = "a" /\ runs' = option
                  /\ UNCHANGED <<outside, started, lock, call>>
ResumeExecs == /\ fg = "a" /\ fg' = "claude" /\ UNCHANGED <<outside, runs, started, lock, call>>

\* claude registers its name; its SessionStart hook writes document and option.
ClaudeRegisters ==
  /\ fg = "claude" /\ runs \notin registry /\ registry' = registry \cup {runs}
  /\ UNCHANGED <<status, option, sent, count, pane, lock, call>>
SessionStartHook ==
  /\ fg = "claude" /\ (status[runs] # "Stopped" \/ option # runs)
  /\ lock[runs] = None
  /\ status' = [status EXCEPT ![runs] = "Stopped"] /\ option' = runs
  /\ UNCHANGED <<registry, sent, count, pane, lock, call>>

\* The user starts a program or a claude at the prompt, and ends what runs.
UserStarts ==
  /\ fg = "shell" /\ count < MaxRuns /\ count' = count + 1
  /\ \/ fg' = "program" /\ runs' = None
     \/ fg' = "claude" /\ runs' \in Session
  /\ started' = None
  /\ UNCHANGED <<status, option, registry, sent, lock, call>>
Exits ==
  /\ fg \in {"program", "claude"} /\ fg' = "shell" /\ runs' = None /\ started' = None
  /\ registry' = registry \ {runs}
  /\ status' = [s \in Session |-> IF s = runs THEN "Ended" ELSE status[s]]
  /\ UNCHANGED <<option, sent, count, lock, call>>

Next ==
  \/ \E c \in Caller :
       \/ Load(c) \/ check_pane_matches_target(c) \/ lock_session_for_update(c) \/ LockTimeout(c)
       \/ resolve_name(c) \/ Probe(c) \/ Respawn(c) \/ Poll(c) \/ Send(c)
  \/ LoginShellRuns \/ ResumeExecs \/ ClaudeRegisters \/ SessionStartHook
  \/ UserStarts \/ Exits
Spec == Init /\ [][Next]_vars

-----------------------------------------------------------------------------
\* Of several wakes of one session, none kills the claude that another one has
\* started: what the lock is for (peer/wake.rs, the comment in wake). The TUI
\* takes no lock, so its respawns are left out.
NoFreshClaudeKilled ==
  [][\A c \in Caller : Respawn(c) /\ KindOf[c] # "tui" /\ fg = "claude" =>
       started \in {None, c} \/ KindOf[started] = "tui"]_vars
================================================================================
