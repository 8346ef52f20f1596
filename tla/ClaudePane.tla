----------------------------- MODULE ClaudePane -----------------------------
(***************************************************************************)
(* One tmux pane, the Claude Code process in it, and the hooks that keep   *)
(* the session documents up to date: process_hook_event_impl of            *)
(* src/commands/cc/hook.rs.                                                *)
(*                                                                         *)
(* Claude Code is not part of the repository: it is modelled from what     *)
(* hook.rs expects of it. A turn runs from a prompt to a Stop; a turn may  *)
(* start background shells and subagents that outlive it and whose end     *)
(* starts another turn; each agent can wait for a permission prompt of its *)
(* own; a process that got SIGTERM ends when it likes, possibly after one  *)
(* more Stop.                                                              *)
(*                                                                         *)
(* Every event but SessionEnd is one locked read-modify-write of the       *)
(* document (SessionStore shows that this is one atomic step). SessionEnd  *)
(* loads and saves under separate locks.                                   *)
(***************************************************************************)
EXTENDS Session

CONSTANTS Sid,  \* session ids that run in this pane
          Pid   \* process ids

ASSUME SidAssumption == None \notin Sid /\ None \notin Pid

VARIABLES
  file,       \* the document of each session, or None
  proc,       \* the claude process in the pane, or None
  ending,     \* the SessionEnd hook of each session
  typed,      \* the input box changed since it was last looked at
  remembered  \* pids somebody has read and may still signal

paneVars == <<file, proc, ending, typed, remembered>>

Main == MAIN_THREAD_AGENT_KEY

\* The document of the process in the pane.
Doc == file[proc.sid]

Process ==
  [sid: Sid, pid: Pid,
   main: {"fresh", "resuming", "idle", "busy", "exiting"},
   waiting: SUBSET AgentKey,  \* agents with a permission prompt open
   agents: SUBSET Agent, tasks: SUBSET Task,
   idled: BOOLEAN,            \* the idle prompt of this turn was sent
   term: BOOLEAN]             \* it got SIGTERM, or is exiting because of it

EndingHook == [at: {"none", "fired", "loaded"}, copy: SessionRecord \cup {None}]
NoHook == [at |-> "none", copy |-> None]

PaneTypeOK ==
  /\ file \in [Sid -> SessionRecord \cup {None}]
  /\ proc \in Process \cup {None}
  /\ ending \in [Sid -> EndingHook]
  /\ typed \in BOOLEAN
  /\ remembered \in SUBSET Pid

PaneInit ==
  /\ file = [s \in Sid |-> None]
  /\ proc = None
  /\ ending = [s \in Sid |-> NoHook]
  /\ typed = TRUE
  /\ remembered = {}

-----------------------------------------------------------------------------
(* Firing a hook *)

Event(e, k) == [event |-> e, agent |-> k, kind |-> "none", shells |-> {}, subagents |-> {}]
Notify(kind) == [Event("Notification", Main) EXCEPT !.kind = kind]
StopEvent == [Event("Stop", Main) EXCEPT !.shells = proc.tasks, !.subagents = proc.agents]

Hook(i) == file' = [file EXCEPT ![proc.sid] = ApplyHook(@, i)]

\* evict_paused_sessions_on_pane_takeover: another session of the pane that
\* is Paused can no longer be resumed there.
Evicted(d) == IF d # None /\ d.status = "Paused"
                THEN [d EXCEPT !.status = "Ended", !.age = 0] ELSE d

TakeoverHook_NoEviction(i) == Hook(i)

\* The code evicts document by document, before its own read-modify-write.
TakeoverHook(i) ==
  file' = [s \in Sid |-> IF s = proc.sid THEN ApplyHook(file[s], i) ELSE Evicted(file[s])]

Running(k) == /\ proc # None /\ proc.main # "exiting"
              /\ k \notin proc.waiting
              /\ \/ k = Main /\ proc.main = "busy"
                 \/ k \in proc.agents

\* Background work that ends gives the main thread another turn.
Woken == IF proc.main = "idle" THEN "busy" ELSE proc.main

-----------------------------------------------------------------------------
(* The process and its user *)

\* A hook that outlives its process does so by milliseconds: nobody starts
\* another process in the pane meanwhile.
Launch(s, main) ==
  /\ proc = None
  /\ \A t \in Sid : ending[t].at = "none"
  /\ \E pid \in Pid \ remembered :
       proc' = [sid |-> s, pid |-> pid, main |-> main, waiting |-> {}, agents |-> {},
                tasks |-> {}, idled |-> FALSE, term |-> FALSE]
  /\ typed' = TRUE
  /\ UNCHANGED <<file, ending, remembered>>

\* A new conversation. Its SessionStart(startup) is skipped by the hook.
StartClaude(s) == file[s] = None /\ Launch(s, "fresh")

\* `claude --resume`, by hand, a cc resume or a cc peer wake.
ResumeClaude(s) == file[s] # None /\ Launch(s, "resuming")

SessionStartHook ==
  /\ proc # None /\ proc.main = "resuming"
  /\ TakeoverHook([Event("SessionStart", Main) EXCEPT !.kind = "resume"])
  /\ proc' = [proc EXCEPT !.main = "idle"]
  /\ UNCHANGED <<ending, typed, remembered>>

\* The first prompt of a session takes the pane over.
Prompt ==
  /\ proc # None /\ proc.main \in {"fresh", "idle"}
  /\ IF file[proc.sid] = None
       THEN TakeoverHook(Event("UserPromptSubmit", Main))
       ELSE Hook(Event("UserPromptSubmit", Main))
  /\ proc' = [proc EXCEPT !.main = "busy"]
  /\ typed' = TRUE
  /\ UNCHANGED <<ending, remembered>>

Type ==
  /\ proc # None /\ proc.main \in {"fresh", "idle"}
  /\ typed' = TRUE
  /\ UNCHANGED <<file, proc, ending, remembered>>

Tool(k, e) ==
  /\ Running(k) /\ e \in {"PreToolUse", "PostToolUse"}
  /\ Hook(Event(e, k))
  /\ UNCHANGED <<proc, ending, typed, remembered>>

AskPermission(k) ==
  /\ Running(k)
  /\ Hook(Event("PermissionRequest", k))
  /\ proc' = [proc EXCEPT !.waiting = @ \cup {k}]
  /\ UNCHANGED <<ending, typed, remembered>>

PermissionNotification ==
  /\ proc # None /\ Main \in proc.waiting
  /\ Hook(Notify("permission_prompt"))
  /\ UNCHANGED <<proc, ending, typed, remembered>>

\* The prompt is answered and the agent goes on, which fires an event of it.
Answer(k) ==
  /\ proc # None /\ k \in proc.waiting
  /\ Hook(Event("PostToolUse", k))
  /\ proc' = [proc EXCEPT !.waiting = @ \ {k}]
  /\ UNCHANGED <<ending, typed, remembered>>

\* A subagent that is denied exits without firing any further event.
Deny(a) ==
  /\ proc # None /\ a \in proc.waiting \cap proc.agents
  /\ proc' = [proc EXCEPT !.waiting = @ \ {a}, !.agents = @ \ {a}, !.main = Woken]
  /\ UNCHANGED <<file, ending, typed, remembered>>

\* Ids are unique: one that the document still mentions is not used again.
Spawn ==
  /\ Running(Main) /\ Doc # None
  /\ \/ \E a \in Agent \ (proc.agents \cup Doc.pending_agent_task_ids
                                    \cup Doc.pending_permission_agent_ids) :
          proc' = [proc EXCEPT !.agents = @ \cup {a}]
     \/ \E t \in Task \ (proc.tasks \cup Doc.pending_bg_task_ids) :
          proc' = [proc EXCEPT !.tasks = @ \cup {t}]
  /\ UNCHANGED <<file, ending, typed, remembered>>

Finish ==
  /\ proc # None
  /\ \/ \E a \in proc.agents \ proc.waiting :
          proc' = [proc EXCEPT !.agents = @ \ {a}, !.main = Woken]
     \/ \E t \in proc.tasks : proc' = [proc EXCEPT !.tasks = @ \ {t}, !.main = Woken]
  /\ UNCHANGED <<file, ending, typed, remembered>>

StopHook ==
  /\ Running(Main)
  /\ Hook(StopEvent)
  /\ proc' = [proc EXCEPT !.main = "idle", !.idled = FALSE]
  /\ UNCHANGED <<ending, typed, remembered>>

\* Claude Code reports once per turn that the user has gone idle.
IdlePrompt ==
  /\ proc # None /\ proc.main = "idle" /\ ~proc.idled
  /\ Hook(Notify("idle_prompt"))
  /\ proc' = [proc EXCEPT !.idled = TRUE]
  /\ UNCHANGED <<ending, typed, remembered>>

-----------------------------------------------------------------------------
(* The end of the process *)

\* SIGTERM reaches the process with this pid, if it still runs.
Sigterm(pid) == proc' = IF proc # None /\ proc.pid = pid /\ proc.main # "exiting"
                          THEN [proc EXCEPT !.term = TRUE] ELSE proc

\* LibcSignalSender: sweep and auto-compact send SIGTERM at moments of their own.
Signal(pid) == Sigterm(pid) /\ UNCHANGED <<file, ending, typed, remembered>>

\* A dying process may fire one more Stop, in no turn at all.
ShutdownStop ==
  /\ proc # None /\ proc.term /\ proc.main = "idle"
  /\ Hook(StopEvent)
  /\ UNCHANGED <<proc, ending, typed, remembered>>

\* The process shuts down: its SessionEnd hook starts.
ShutDown(obeying) ==
  /\ proc # None /\ proc.main # "exiting"
  /\ ending[proc.sid].at = "none"
  /\ proc' = [proc EXCEPT !.main = "exiting", !.waiting = {}, !.agents = {}, !.tasks = {},
                          !.term = obeying]
  /\ ending' = [ending EXCEPT ![proc.sid] = [at |-> "fired", copy |-> None]]
  /\ UNCHANGED <<file, typed, remembered>>

\* /exit or Ctrl-C.
Quit == ShutDown(FALSE)

ObeySigterm == proc # None /\ proc.term /\ ShutDown(TRUE)

Exit ==
  /\ proc # None /\ proc.main = "exiting"
  /\ ending[proc.sid].at = "none"
  /\ proc' = None
  /\ UNCHANGED <<file, ending, typed, remembered>>

\* SIGKILL, a crash or a closed terminal: no hook, and a hook that is
\* running already goes on.
Crash ==
  /\ proc # None
  /\ proc' = None
  /\ UNCHANGED <<file, ending, typed, remembered>>

\* SessionEnd: load_session_from ...
EndLoad(s) ==
  /\ ending[s].at = "fired"
  /\ ending' = [ending EXCEPT ![s] =
       IF file[s] = None \/ file[s].status = "Paused"
         THEN NoHook ELSE [at |-> "loaded", copy |-> file[s]]]
  /\ UNCHANGED <<file, proc, typed, remembered>>

\* ... and save_session_to.
EndSave(s) ==
  /\ ending[s].at = "loaded"
  /\ file' = [file EXCEPT ![s] = EndedBy(ending[s].copy)]
  /\ ending' = [ending EXCEPT ![s] = NoHook]
  /\ UNCHANGED <<proc, typed, remembered>>

-----------------------------------------------------------------------------
(* Others that touch the documents *)

\* a cc mark-read, when the pane gets the focus.
MarkRead(s) ==
  /\ file[s] # None /\ is_unread_stopped(file[s])
  /\ file' = [file EXCEPT ![s] = MarkedRead(@)]
  /\ UNCHANGED <<proc, ending, typed, remembered>>

AgeFiles == /\ file' = [s \in Sid |-> Older(file[s])]
            /\ ending' = [s \in Sid |-> [ending[s] EXCEPT !.copy = Older(@)]]

Tick == /\ AgeFiles /\ <<file', ending'>> # <<file, ending>>
        /\ UNCHANGED <<proc, typed, remembered>>

-----------------------------------------------------------------------------
UserStep == \/ \E s \in Sid : StartClaude(s) \/ ResumeClaude(s) \/ MarkRead(s)
            \/ Prompt \/ Type \/ Quit

TurnStep == \/ \E k \in AgentKey : AskPermission(k) \/ Answer(k)
            \/ \E k \in AgentKey : \E e \in {"PreToolUse", "PostToolUse"} : Tool(k, e)
            \/ \E a \in Agent : Deny(a)
            \/ PermissionNotification \/ Spawn \/ Finish \/ IdlePrompt \/ SessionStartHook

AgentStep == TurnStep \/ StopHook \/ ShutdownStop

ExitStep == ObeySigterm \/ Exit \/ Crash \/ \E s \in Sid : EndLoad(s) \/ EndSave(s)

PaneNext == UserStep \/ AgentStep \/ ExitStep

Next == PaneNext \/ Tick \/ \E pid \in Pid : Signal(pid)

Spec == PaneInit /\ [][Next]_paneVars

-----------------------------------------------------------------------------
(* Properties *)

\* As long as any agent has a permission prompt open, the session shows
\* WaitingInput, whatever its other agents do meanwhile (hook.rs:394-424).
PromptIsShown ==
  proc # None /\ proc.waiting # {} => Doc # None /\ Doc.status = "WaitingInput"

\* While background work of an idle session is running, the session does not
\* look idle: sweep, auto-compact and wm clean would all kill the work.
WorkIsProtected ==
  /\ proc # None /\ proc.main = "idle"
  /\ proc.agents # {} \/ proc.tasks # {}
  => Doc # None /\ Doc.status \in {"Running", "WaitingInput"}

\* No document is both Stopped and has pending work: the pending-work cases
\* of decide_pause and decide_compact are a second line of defence.
StoppedMeansNoPendingWork ==
  \A s \in Sid : file[s] # None /\ file[s].status = "Stopped"
                   => ~has_pending_bg_tasks(file[s])
=============================================================================
