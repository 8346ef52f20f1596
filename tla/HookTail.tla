------------------------------ MODULE HookTail ------------------------------
(***************************************************************************)
(* What a hook does after it has saved the document and dropped the lock:  *)
(* the second half of process_hook_event_impl (src/commands/cc/hook.rs).   *)
(* It reads the last message from the transcript and stores it by          *)
(* compare-and-swap, sets the paused flag of the pane and the status of    *)
(* the window (tmux_sync.rs), and removes or sends the notification of the *)
(* session. These are slow steps without a lock, so hooks of agents that   *)
(* run in parallel overlap in them, and with mark-read and sweep, which    *)
(* write the same options.                                                 *)
(*                                                                         *)
(* One window with one pane. A message is its number in the transcript. A  *)
(* pass of sweep is one step here (module Sweep takes it apart). The       *)
(* worker that a Stop starts is in AutoCompact.                            *)
(***************************************************************************)
EXTENDS ClaudePane, Sequences

CONSTANTS HookProc,  \* hook processes; bound: how many run at a time
          MaxSaid    \* bound: messages per transcript

ASSUME TailAssumption == MaxSaid \in Nat

VARIABLES
  part,     \* the part of the tails that this behaviour follows
  tail,     \* what each hook process still has to do, and what it has in hand
  said,     \* the number of messages in each transcript, as far as it was read
  last,     \* the last_message of each document
  endLast,  \* the last_message in the copy of a SessionEnd hook
  option,   \* TMUX_SESSION_OPTION of the pane
  window,   \* TMUX_WINDOW_STATUS_OPTION of its window
  flag,     \* does the paused-flag file of the pane exist?
  shown     \* the notification of each session that is on the screen

tailVars == <<part, tail, said, last, endLast, option, window, flag, shown>>
vars == <<paneVars, tailVars>>

\* The steps of a tail read and write three separate pieces of state, so that
\* a behaviour may follow one of them and pass over the steps of the others.
Part == [message |-> {"read", "store"}, tmux |-> {"load", "flag", "look", "write"},
         notice |-> {"clear", "permission", "stopped"}]
Step == (UNION {Part[p] : p \in DOMAIN Part}) \cup {"exit"}
Symbols == {"none", "unread"} \cup Status

Idle == [todo |-> <<>>, sid |-> None, paused |-> FALSE, expected |-> 0, message |-> 0,
         rendered |-> "none", alone |-> TRUE]

TailRecord == [todo: Seq(Step), sid: Sid \cup {None}, paused: BOOLEAN, expected: 0 .. MaxSaid,
         message: 0 .. MaxSaid, rendered: Symbols, alone: BOOLEAN]  \* alone: history

TailTypeOK ==
  /\ part \in DOMAIN Part /\ tail \in [HookProc -> TailRecord]
  /\ said \in [Sid -> 0 .. MaxSaid] /\ last \in [Sid -> 0 .. MaxSaid]
  /\ endLast \in [Sid -> 0 .. MaxSaid]
  /\ option \in Sid \cup {None} /\ window \in Symbols /\ flag \in BOOLEAN
  /\ shown \in [Sid -> {"none", "permission", "stopped"}]

Init == /\ PaneInit
        /\ part \in DOMAIN Part /\ tail = [h \in HookProc |-> Idle]
        /\ said = [s \in Sid |-> 0] /\ last = said /\ endLast = said
        /\ option = None /\ window = "none" /\ flag = FALSE
        /\ shown = [s \in Sid |-> "none"]

-----------------------------------------------------------------------------
(* The steps that a hook has left *)

Busy(h) == tail[h].todo # <<>>

\* LiveTmuxStatusSyncer: the flag from the status in hand, then the window.
sync_tmux == <<"flag", "look", "write">>

\* The notification is stale once the session moved on and nobody waits.
removes_group_Always(e, d) == e # "Notification"
removes_group(e, d) == e # "Notification" /\ ~has_pending_permission_requests(d)

\* A Stop with work pending is not the user's turn.
is_notifiable_event(e, d) == e = "PermissionRequest" \/ (e = "Stop" /\ ~has_pending_bg_tasks(d))

\* The steps of each part.
OnlyTmux == [message |-> <<>>, tmux |-> sync_tmux, notice |-> <<>>]
Todo(e, d) ==
  [message |-> <<"read", "store">>, tmux |-> sync_tmux,
   notice |-> (IF removes_group(e, d) THEN <<"clear">> ELSE <<>>) \o
              (IF is_notifiable_event(e, d)
                 THEN <<IF e = "PermissionRequest" THEN "permission" ELSE "stopped">> ELSE <<>>)]

\* A hook begins with these steps, and a copy of the document it has saved.
Begins(h, s, todo, paused) ==
  /\ ~Busy(h)
  /\ tail' = [g \in HookProc |->
       IF g = h THEN [Idle EXCEPT !.todo = Append(todo[part], "exit"), !.sid = s, !.paused = paused,
                                  !.expected = last[s], !.alone = \A f \in HookProc : ~Busy(f)]
       ELSE IF Busy(g) THEN [tail[g] EXCEPT !.alone = FALSE] ELSE tail[g]]

Saved_OnlyOnChange(h, e) ==
  LET old == file[proc.sid]  new == file'[proc.sid] IN
  /\ Begins(h, proc.sid, IF old # None /\ old.status = new.status
                         THEN [OnlyTmux EXCEPT !.tmux = <<>>] ELSE Todo(e, new),
            new.status = "Paused")
  /\ UNCHANGED <<said, last, endLast, window, flag, shown>>

Saved(h, e) ==
  /\ Begins(h, proc.sid, Todo(e, file'[proc.sid]), file'[proc.sid].status = "Paused")
  /\ UNCHANGED <<said, last, endLast, window, flag, shown>>

\* The pane option names the session from the moment it takes the pane over.
TakesPane == option' = proc.sid

HookRuns(h) ==
  \/ SessionStartHook /\ Saved(h, "SessionStart") /\ TakesPane
  \/ Prompt /\ Saved(h, "UserPromptSubmit")
            /\ IF file[proc.sid] = None THEN TakesPane ELSE UNCHANGED option
  \/ /\ \/ \E k \in AgentKey :
             \/ \E e \in {"PreToolUse", "PostToolUse"} : Tool(k, e) /\ Saved(h, e)
             \/ AskPermission(k) /\ Saved(h, "PermissionRequest")
             \/ Answer(k) /\ Saved(h, "PostToolUse")
        \/ (PermissionNotification \/ IdlePrompt) /\ Saved(h, "Notification")
        \/ (StopHook \/ ShutdownStop) /\ Saved(h, "Stop")
     /\ UNCHANGED option

-----------------------------------------------------------------------------
(* The steps *)

Does(h, step) == Busy(h) /\ Head(tail[h].todo) = step

After(t) == IF Len(t.todo) = 1 THEN Idle ELSE [t EXCEPT !.todo = Tail(@)]
Goes(h, t) == tail' = [tail EXCEPT ![h] = After(t)]

\* get_last_message_with_retry. Claude Code appends to the transcript at any
\* time, often after the hook of the event: what it has written by now is in
\* the choice of m. A Stop that finds nothing new tries again, which is to read
\* later. What has not changed is not stored.
Read(h) ==
  /\ Does(h, "read")
  /\ \E m \in said[tail[h].sid] .. MaxSaid :
       /\ said' = [said EXCEPT ![tail[h].sid] = m]
       /\ IF m = tail[h].expected
            THEN Goes(h, [After(tail[h]) EXCEPT !.expected = 0])
            ELSE Goes(h, [tail[h] EXCEPT !.message = m])
  /\ UNCHANGED <<paneVars, last, endLast, option, window, flag, shown>>

\* update_session_last_message_if_unchanged_in
LastMessageAfter_Unconditional(t) == t.message

LastMessageAfter(t) == IF last[t.sid] = t.expected THEN t.message ELSE last[t.sid]

Store(h) ==
  /\ Does(h, "store")
  /\ last' = [last EXCEPT ![tail[h].sid] = LastMessageAfter(tail[h])]
  /\ Goes(h, [tail[h] EXCEPT !.expected = 0, !.message = 0])
  /\ UNCHANGED <<paneVars, said, endLast, option, window, flag, shown>>

\* render_for_pane: without a status in hand the document is read.
Load(h) ==
  /\ Does(h, "load")
  /\ Goes(h, [tail[h] EXCEPT !.paused = file[option] # None /\ file[option].status = "Paused"])
  /\ UNCHANGED <<paneVars, said, last, endLast, option, window, flag, shown>>

sync_paused_flag(h) ==
  /\ Does(h, "flag")
  /\ flag' = tail[h].paused
  /\ Goes(h, [tail[h] EXCEPT !.paused = FALSE])
  /\ UNCHANGED <<paneVars, said, last, endLast, option, window, shown>>

format_window_symbol(d) ==
  IF d = None \/ d.status = "Ended" THEN "none" ELSE IF is_unread_stopped(d) THEN "unread" ELSE d.status

\* sync_window_option loads what the panes of the window run ...
Look(h) ==
  /\ Does(h, "look")
  /\ Goes(h, [tail[h] EXCEPT !.rendered =
                IF option = None THEN "none" ELSE format_window_symbol(file[option])])
  /\ UNCHANGED <<paneVars, said, last, endLast, option, window, flag, shown>>

\* ... and writes what it has rendered. (It writes only what differs from what
\* it finds: then the write changes nothing.)
WriteWindow(h) ==
  /\ Does(h, "write")
  /\ window' = tail[h].rendered
  /\ Goes(h, [tail[h] EXCEPT !.rendered = "none"])
  /\ UNCHANGED <<paneVars, said, last, endLast, option, flag, shown>>

\* remove_notification_group and send_notification. A notification replaces
\* the one of its group.
Notifies(h) ==
  /\ \E n \in {"clear", "permission", "stopped"} :
       /\ Does(h, n)
       /\ shown' = [shown EXCEPT ![tail[h].sid] = IF n = "clear" THEN "none" ELSE n]
  /\ Goes(h, tail[h])
  /\ UNCHANGED <<paneVars, said, last, endLast, option, window, flag>>

Exits(h) == /\ Does(h, "exit") /\ Goes(h, tail[h])
            /\ UNCHANGED <<paneVars, said, last, endLast, option, window, flag, shown>>

TailStep(h) == \/ Read(h) \/ Store(h) \/ Load(h) \/ sync_paused_flag(h) \/ Look(h)
               \/ WriteWindow(h) \/ Notifies(h) \/ Exits(h)

-----------------------------------------------------------------------------
(* SessionEnd, mark-read and sweep end in the same steps *)

SessionEndLoad(h, s) ==
  /\ EndLoad(s)
  /\ IF file[s] # None /\ file[s].status = "Paused"
       THEN Begins(h, s, OnlyTmux, TRUE) ELSE UNCHANGED tail
  /\ endLast' = [endLast EXCEPT ![s] = IF ending'[s].at = "loaded" THEN last[s] ELSE 0]
  /\ UNCHANGED <<said, last, option, window, flag, shown>>

\* The whole copy is saved, its last_message too. Only a session that its user
\* ended loses its notification.
SessionEndSave(h, s) ==
  /\ EndSave(s)
  /\ last' = [last EXCEPT ![s] = endLast[s]]
  /\ endLast' = [endLast EXCEPT ![s] = 0]
  /\ Begins(h, s, [OnlyTmux EXCEPT !.notice = IF file'[s].status = "Ended" THEN <<"clear">> ELSE @],
            file'[s].status = "Paused")
  /\ UNCHANGED <<said, option, window, flag, shown>>

\* a cc mark-read: the pane gets the focus.
Focus(h) ==
  /\ option # None
  /\ IF file[option] # None /\ is_unread_stopped(file[option]) THEN MarkRead(option)
                                                               ELSE UNCHANGED paneVars
  /\ Begins(h, option, [OnlyTmux EXCEPT !.tmux = <<"load", "flag", "look", "write">>], FALSE)
  /\ UNCHANGED <<said, last, endLast, option, window, flag, shown>>

\* A session that has been idle long enough: sweep signals its process, ...
IsIdle(s) == file[s] # None /\ decide_pause(file[s], TIMEOUT) = "Pause"
SweepSignals(s) ==
  /\ proc # None /\ IsIdle(s)
  /\ Sigterm(proc.pid)
  /\ file' = [file EXCEPT ![s].sweep_signaled = TRUE]
  /\ UNCHANGED <<ending, typed, remembered, tail, said, last, endLast,
                 option, window, flag, shown>>

\* ... and once it is gone, confirm_paused.
SweepPauses(h, s) ==
  /\ proc = None /\ IsIdle(s)
  /\ file' = [file EXCEPT ![s].status = "Paused", ![s].sweep_signaled = FALSE]
  /\ Begins(h, s, OnlyTmux, TRUE)
  /\ UNCHANGED <<proc, ending, typed, remembered, said, last, endLast, option, window, flag, shown>>

-----------------------------------------------------------------------------
NoHookRuns ==
  /\ \/ \E s \in Sid : StartClaude(s) \/ ResumeClaude(s)
     \/ \E a \in Agent : Deny(a)
     \/ Spawn \/ Finish \/ Quit \/ ObeySigterm \/ Exit \/ Crash
  /\ UNCHANGED <<tail, said, last, endLast, option, window, flag, shown>>

TailNext ==
  /\ \/ \E h \in HookProc :
          \/ HookRuns(h) \/ TailStep(h) \/ Focus(h)
          \/ \E s \in Sid : SessionEndLoad(h, s) \/ SessionEndSave(h, s) \/ SweepPauses(h, s)
     \/ \E s \in Sid : SweepSignals(s)
     \/ NoHookRuns
  /\ UNCHANGED part

TailSpec == Init /\ [][TailNext]_vars

-----------------------------------------------------------------------------
(* Properties *)

\* A slow reader of the transcript never replaces a newer message by the one
\* that it has read (the comment at the compare-and-swap, hook.rs:541-545).
NeverAnOlderMessage ==
  [][\A h \in HookProc : Store(h) => last'[tail[h].sid] >= last[tail[h].sid]]_vars

\* Whatever hooks that overlapped have left behind, one that runs alone from
\* its save to its end leaves the window and the flag as the document says, if
\* its session is the one that the pane names.
TmuxIsRight == /\ window = format_window_symbol(file[option])
               /\ flag = (file[option] # None /\ file[option].status = "Paused")
AloneLeavesItRight ==
  [][\A h \in HookProc : Exits(h) /\ part = "tmux" /\ tail[h].alone /\ option = tail[h].sid
                         => TmuxIsRight]_vars

\* A hook that runs alone does not take away the notification of a permission
\* prompt that is still open, another agent's included (hook.rs:568-573).
PromptStaysNotified ==
  [][\A h \in HookProc :
       /\ Notifies(h) /\ tail[h].alone
       /\ shown[tail[h].sid] = "permission" /\ shown'[tail[h].sid] # "permission"
       => proc = None \/ proc.sid # tail[h].sid \/ proc.waiting = {}]_vars
=============================================================================
