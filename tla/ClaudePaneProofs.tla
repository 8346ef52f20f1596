-------------------------- MODULE ClaudePaneProofs --------------------------
(***************************************************************************)
(* Theorems about ClaudePane, for any number of sessions, pids, subagents  *)
(* and background shells and any idle timeout.                             *)
(*                                                                         *)
(* PaneInv relates the state of the process to the document: it is what    *)
(* makes the displayed status safe to act on.                              *)
(***************************************************************************)
EXTENDS ClaudePane, TLAPS

\* An exit hook runs only when the process is on its way out or gone, and
\* one that is about to save has loaded a document.
EndingInv ==
  /\ proc # None /\ proc.main # "exiting" => \A s \in Sid : ending[s].at = "none"
  /\ \A s \in Sid : ending[s].at = "loaded" => ending[s].copy # None

\* What a process can be waiting for and running in each of its states.
ProcInv ==
  proc # None =>
    /\ proc.waiting \subseteq proc.agents \cup {Main}
    /\ Main \in proc.waiting => proc.main = "busy"
    /\ proc.main \in {"fresh", "resuming", "exiting"} =>
         proc.waiting = {} /\ proc.agents = {} /\ proc.tasks = {}

\* A process that has nothing to do and, left alone, never will.
AtRest(p) ==
  /\ p.main \in {"resuming", "idle", "exiting"}
  /\ p.waiting = {} /\ p.agents = {} /\ p.tasks = {}

\* What the document of a process says about it. (Hooks alone never pause a
\* process that runs; auto-compact may, but only one that is at rest.)
DocInv ==
  proc # None =>
    /\ proc.main = "fresh" => Doc = None
    /\ proc.main \in {"idle", "busy"} =>
         /\ Doc # None /\ Doc.status # "Ended"
         /\ Doc.status = "Paused" => AtRest(proc)
    /\ proc.main = "idle" =>
         /\ proc.agents \subseteq Doc.pending_agent_task_ids
         /\ proc.tasks \subseteq Doc.pending_bg_task_ids

\* Every open prompt is recorded, and recorded prompts show.
PromptInv ==
  proc # None /\ proc.waiting # {} =>
    /\ Doc # None
    /\ proc.waiting \subseteq Doc.pending_permission_agent_ids
    /\ Doc.status = "WaitingInput"

PaneInv == /\ PaneTypeOK /\ EndingInv /\ ProcInv /\ DocInv /\ PromptInv
           /\ StoppedMeansNoPendingWork

-----------------------------------------------------------------------------
(* Lemmas about the functions of Session *)

SessionDoc == SessionRecord \cup {None}

\* determine_status never ends a session and never pauses one. The clamps keep
\* that, and nothing that is pending is shown as Stopped.
LEMMA StatusClamped ==
  ASSUME NEW i \in HookInput
  PROVE  /\ determine_status(i) \in {"Running", "WaitingInput", "Stopped"}
         /\ \A s \in SessionRecord :
              /\ ClampedStatus(s, i) \in {"Running", "WaitingInput", "Stopped"}
              /\ ClampedStatus(s, i) = "Stopped" => ~has_pending_bg_tasks(s)
              /\ has_pending_permission_requests(s) => ClampedStatus(s, i) = "WaitingInput"
<1>1. determine_status(i) \in {"Running", "WaitingInput", "Stopped"}
  BY DEF determine_status, HookInput
<1> QED BY <1>1 DEF ClampedStatus

\* What one event makes of each field of the document, before the status.
LEMMA PendingAfter ==
  ASSUME NEW i \in HookInput, NEW s \in SessionRecord
  PROVE  /\ PermissionsAfter(s, i) \in SUBSET AgentKey
         /\ ShellsAfter(s, i) \in SUBSET Task
         /\ SubagentsAfter(s, i) \in SUBSET Agent
BY DEF PermissionsAfter, ShellsAfter, SubagentsAfter, HookInput, SessionRecord, AgentKey

\* The document an event starts from.
Base(d, i) == IF d = None THEN NewSession(determine_status(i)) ELSE d

\* The document that an event leaves behind.
LEMMA HookResult ==
  ASSUME NEW d \in SessionDoc, NEW i \in HookInput
  PROVE  LET r == ApplyHook(d, i) IN
         /\ r \in SessionRecord /\ r # None
         /\ r.pending_permission_agent_ids = PermissionsAfter(Base(d, i), i)
         /\ r.pending_bg_task_ids = ShellsAfter(Base(d, i), i)
         /\ r.pending_agent_task_ids = SubagentsAfter(Base(d, i), i)
         /\ r.status \in {"Running", "WaitingInput", "Stopped", "Paused"}
         /\ r.status = "Paused" =>
              d # None /\ d.status = "Paused" /\ i.event # "SessionStart"
         /\ r.status \in {"Stopped", "Paused"} => determine_status(i) = "Stopped"
         /\ r.status = "Stopped" => ~has_pending_bg_tasks(r)
         /\ has_pending_permission_requests(r) => r.status = "WaitingInput"
<1> DEFINE b == Base(d, i)
           t == [b EXCEPT !.age = 0,
                          !.sweep_signaled = FALSE,
                          !.pending_bg_task_ids = ShellsAfter(b, i),
                          !.pending_agent_task_ids = SubagentsAfter(b, i),
                          !.pending_permission_agent_ids = PermissionsAfter(b, i)]
           c == ClampedStatus(t, i)
           st == IF keep_paused(t, i, c) THEN "Paused" ELSE c
           r == [t EXCEPT !.status = st, !.read = @ /\ st # "Stopped"]
<1>1. b \in SessionRecord
  <2>1. CASE d = None
    BY <2>1, StatusClamped, TimeoutAssumption DEF Base, NewSession, SessionRecord, Status
  <2>2. CASE d # None
    BY <2>2 DEF Base, SessionDoc
  <2> QED BY <2>1, <2>2
<1>2. t \in SessionRecord /\ t.status = b.status
  <2> HIDE DEF b
  <2>1. /\ PermissionsAfter(b, i) \in SUBSET AgentKey
        /\ ShellsAfter(b, i) \in SUBSET Task
        /\ SubagentsAfter(b, i) \in SUBSET Agent
    BY <1>1, PendingAfter
  <2>2. 0 \in 0 .. TIMEOUT
    BY TimeoutAssumption
  <2> QED BY <1>1, <2>1, <2>2 DEF SessionRecord
<1>3. /\ c \in {"Running", "WaitingInput", "Stopped"}
      /\ c = "Stopped" => ~has_pending_bg_tasks(t)
      /\ has_pending_permission_requests(t) => c = "WaitingInput"
  BY <1>2, StatusClamped
<1>4. /\ keep_paused(t, i, c) => b.status = "Paused" /\ i.event # "SessionStart"
      /\ keep_paused(t, i, c) => c # "WaitingInput"
      /\ c = "Stopped" \/ keep_paused(t, i, c) => determine_status(i) = "Stopped"
  <2>1. c = "Stopped" => determine_status(i) = "Stopped"
    BY DEF ClampedStatus
  <2>2. i.event = "Stop" => determine_status(i) = "Stopped"
    BY DEF determine_status
  <2> HIDE DEF t, c
  <2> QED BY <1>2, <1>3, <2>1, <2>2 DEF keep_paused
<1>5. b.status = "Paused" => d # None /\ d.status = "Paused"
  BY StatusClamped DEF Base, NewSession
<1>6. st \in {"Running", "WaitingInput", "Stopped", "Paused"}
  BY <1>3
<1>7. r \in SessionRecord /\ r # None
  <2> HIDE DEF t, st
  <2>1. (t.read /\ st # "Stopped") \in BOOLEAN
    OBVIOUS
  <2>2. r \in SessionRecord
    BY <1>2, <1>6, <2>1 DEF SessionRecord, Status
  <2> QED BY <2>2, NoneAssumption
<1>8. /\ r.status = st
      /\ r.pending_permission_agent_ids = PermissionsAfter(b, i)
      /\ r.pending_bg_task_ids = ShellsAfter(b, i)
      /\ r.pending_agent_task_ids = SubagentsAfter(b, i)
      /\ t.pending_permission_agent_ids = PermissionsAfter(b, i)
      /\ t.pending_bg_task_ids = ShellsAfter(b, i)
      /\ t.pending_agent_task_ids = SubagentsAfter(b, i)
  BY <1>1 DEF SessionRecord
<1>9. /\ r.status = "Paused" => d # None /\ d.status = "Paused" /\ i.event # "SessionStart"
      /\ r.status \in {"Stopped", "Paused"} => determine_status(i) = "Stopped"
      /\ r.status = "Stopped" => ~has_pending_bg_tasks(r)
      /\ has_pending_permission_requests(r) => r.status = "WaitingInput"
  BY <1>3, <1>4, <1>5, <1>8 DEF has_pending_bg_tasks, has_pending_permission_requests
<1>10. r = ApplyHook(d, i)
  BY DEF ApplyHook, Base
<1> QED BY <1>6, <1>7, <1>8, <1>9, <1>10

\* An agent's prompt is forgotten only through an event of its own, or at a
\* Stop that no longer lists the agent.
LEMMA PermissionsKept ==
  ASSUME NEW i \in HookInput, NEW s \in SessionRecord
  PROVE  /\ i.event = "Notification" =>
              PermissionsAfter(s, i) = s.pending_permission_agent_ids
         /\ i.event = "PermissionRequest" =>
              PermissionsAfter(s, i) = s.pending_permission_agent_ids \cup {i.agent}
         /\ i.event \notin {"Notification", "PermissionRequest", "Stop"} =>
              PermissionsAfter(s, i) = s.pending_permission_agent_ids \ {i.agent}
         /\ i.event = "Stop" =>
              PermissionsAfter(s, i) = (s.pending_permission_agent_ids \ {i.agent})
                                         \cap (i.subagents \cup {MAIN_THREAD_AGENT_KEY})
BY DEF PermissionsAfter

\* The other writers keep a document a document, and none of them makes it
\* look idle.
LEMMA OtherResults ==
  ASSUME NEW s \in SessionRecord
  PROVE  /\ EndedBy(s) \in SessionRecord /\ EndedBy(s).status \in {"Paused", "Ended"}
         /\ MarkedRead(s) \in SessionRecord /\ MarkedRead(s).status = s.status
         /\ Evicted(s) \in SessionRecord
         /\ Evicted(s).status \in {s.status, "Ended"}
         /\ Older(s) \in SessionRecord /\ Older(s).status = s.status
         /\ \A r \in {MarkedRead(s), Evicted(s), Older(s)} :
              /\ r.pending_bg_task_ids = s.pending_bg_task_ids
              /\ r.pending_agent_task_ids = s.pending_agent_task_ids
              /\ r.pending_permission_agent_ids = s.pending_permission_agent_ids
<1>1. s.age \in 0 .. TIMEOUT /\ 0 \in 0 .. TIMEOUT /\ TIMEOUT \in Nat /\ s # None
  BY TimeoutAssumption, NoneAssumption DEF SessionRecord
<1>2. EndedBy(s) \in SessionRecord /\ EndedBy(s).status \in {"Paused", "Ended"}
  BY <1>1 DEF EndedBy, SessionRecord, Status
<1>3. /\ MarkedRead(s) \in SessionRecord /\ MarkedRead(s).status = s.status
      /\ MarkedRead(s).pending_bg_task_ids = s.pending_bg_task_ids
      /\ MarkedRead(s).pending_agent_task_ids = s.pending_agent_task_ids
      /\ MarkedRead(s).pending_permission_agent_ids = s.pending_permission_agent_ids
  BY DEF MarkedRead, SessionRecord
<1>4. /\ Evicted(s) \in SessionRecord /\ Evicted(s).status \in {s.status, "Ended"}
      /\ Evicted(s).pending_bg_task_ids = s.pending_bg_task_ids
      /\ Evicted(s).pending_agent_task_ids = s.pending_agent_task_ids
      /\ Evicted(s).pending_permission_agent_ids = s.pending_permission_agent_ids
  BY <1>1 DEF Evicted, SessionRecord, Status
<1>5. (IF s.age < TIMEOUT THEN s.age + 1 ELSE s.age) \in 0 .. TIMEOUT
  BY <1>1
<1>6. /\ Older(s) \in SessionRecord /\ Older(s).status = s.status
      /\ Older(s).pending_bg_task_ids = s.pending_bg_task_ids
      /\ Older(s).pending_agent_task_ids = s.pending_agent_task_ids
      /\ Older(s).pending_permission_agent_ids = s.pending_permission_agent_ids
  BY <1>1, <1>5 DEF Older, SessionRecord
<1> QED BY <1>2, <1>3, <1>4, <1>6

-----------------------------------------------------------------------------
(* How a step changes the documents *)

\* The events that the actions fire are hook inputs.
LEMMA EventTyped ==
  ASSUME PaneTypeOK, proc # None
  PROVE  /\ \A e \in HookEvent, k \in AgentKey : Event(e, k) \in HookInput
         /\ \A kind \in {"permission_prompt", "idle_prompt"} : Notify(kind) \in HookInput
         /\ StopEvent \in HookInput
         /\ [Event("SessionStart", Main) EXCEPT !.kind = "resume"] \in HookInput
         /\ proc.sid \in Sid /\ proc \in Process
<1>1. proc \in Process
  BY DEF PaneTypeOK
<1> QED BY <1>1 DEF Event, Notify, StopEvent, HookInput, HookEvent, AgentKey, Main, Process

\* A hook rewrites the document of its session.
LEMMA HookStep ==
  ASSUME PaneTypeOK, proc # None, NEW i \in HookInput, Hook(i)
  PROVE  /\ file'[proc.sid] = ApplyHook(Doc, i)
         /\ file' \in [Sid -> SessionDoc]
         /\ \A s \in Sid \ {proc.sid} : file'[s] = file[s]
<1>1. proc.sid \in Sid /\ file \in [Sid -> SessionDoc]
  BY EventTyped DEF PaneTypeOK, SessionDoc
<1>2. ApplyHook(Doc, i) \in SessionDoc
  BY <1>1, HookResult DEF SessionDoc, Doc
<1> QED BY <1>1, <1>2 DEF Hook, Doc

\* So does one that takes the pane over, which may also end others.
LEMMA TakeoverStep ==
  ASSUME PaneTypeOK, proc # None, NEW i \in HookInput, TakeoverHook(i)
  PROVE  /\ file'[proc.sid] = ApplyHook(Doc, i)
         /\ file' \in [Sid -> SessionDoc]
         /\ \A s \in Sid \ {proc.sid} : file'[s] = Evicted(file[s])
<1>1. proc.sid \in Sid /\ file \in [Sid -> SessionDoc]
  BY EventTyped DEF PaneTypeOK, SessionDoc
<1>2. ApplyHook(Doc, i) \in SessionDoc
  BY <1>1, HookResult DEF SessionDoc, Doc
<1>3. \A s \in Sid : Evicted(file[s]) \in SessionDoc
  BY <1>1, OtherResults DEF Evicted, SessionDoc
<1> QED BY <1>1, <1>2, <1>3 DEF TakeoverHook, Doc

\* Who writes a document at all.
AnyHook == proc # None /\ \E i \in HookInput : Hook(i) \/ TakeoverHook(i)
AnyWriter == \/ AnyHook
             \/ \E s \in Sid : EndSave(s) \/ MarkRead(s)
             \/ AgeFiles

\* Every step of the hook handler, the process, its user or the clock rewrites
\* the documents in one of these ways, or leaves them alone.
LEMMA Writers ==
  ASSUME PaneTypeOK, [Next]_paneVars
  PROVE  file' = file \/ AnyWriter
<1>1. CASE UserStep
  <2>1. CASE Prompt
    BY <2>1, EventTyped DEF Prompt, AnyWriter, AnyHook, HookEvent, AgentKey, Main
  <2>2. CASE ~Prompt
    BY <1>1, <2>2 DEF UserStep, AnyWriter, StartClaude, ResumeClaude, Launch, Type, Quit,
                      ShutDown
  <2> QED BY <2>1, <2>2
<1>2. CASE AgentStep
  <2>1. CASE \E k \in AgentKey : AskPermission(k) \/ Answer(k)
    BY <2>1, EventTyped DEF AskPermission, Answer, Running, AnyWriter, AnyHook, HookEvent
  <2>2. CASE \E k \in AgentKey : \E e \in {"PreToolUse", "PostToolUse"} : Tool(k, e)
    BY <2>2, EventTyped DEF Tool, Running, AnyWriter, AnyHook, HookEvent
  <2>3. CASE \/ PermissionNotification \/ StopHook \/ IdlePrompt
             \/ ShutdownStop \/ SessionStartHook
    BY <2>3, EventTyped DEF PermissionNotification, StopHook, IdlePrompt, ShutdownStop,
                            SessionStartHook, Running, AnyWriter, AnyHook
  <2>4. CASE (\E a \in Agent : Deny(a)) \/ Spawn \/ Finish
    BY <2>4 DEF Deny, Spawn, Finish
  <2> QED BY <1>2, <2>1, <2>2, <2>3, <2>4 DEF AgentStep, TurnStep
<1>3. CASE ExitStep
  BY <1>3 DEF ExitStep, ObeySigterm, ShutDown, Exit, Crash, EndLoad, AnyWriter
<1>4. CASE Tick
  BY <1>4 DEF Tick, AnyWriter
<1>5. CASE (\E pid \in Pid : Signal(pid)) \/ UNCHANGED paneVars
  BY <1>5 DEF Signal, paneVars
<1> QED BY <1>1, <1>2, <1>3, <1>4, <1>5 DEF Next, PaneNext

\* A document that looks idle has nothing pending.
Settled(d) == d # None /\ d.status = "Stopped" => ~has_pending_bg_tasks(d)

\* Whoever writes them, the documents stay session records, and none is Stopped
\* with pending work.
LEMMA DocumentsPreserved ==
  ASSUME PaneTypeOK, EndingInv, StoppedMeansNoPendingWork, [Next]_paneVars
  PROVE  file' \in [Sid -> SessionDoc] /\ StoppedMeansNoPendingWork'
<1> DEFINE Fine(f) == f \in [Sid -> SessionDoc] /\ \A s \in Sid : Settled(f[s])
<1>1. Fine(file)
  BY DEF PaneTypeOK, SessionDoc, StoppedMeansNoPendingWork, Settled
<1>2. ASSUME NEW s \in Sid
      PROVE  \A d \in {Evicted(file[s]), Older(file[s])} : d \in SessionDoc /\ Settled(d)
  <2>1. CASE file[s] = None
    BY <2>1, NoneAssumption DEF Evicted, Older, SessionDoc, Settled
  <2>2. CASE file[s] # None
    BY <1>1, <2>2, OtherResults DEF SessionDoc, Settled, has_pending_bg_tasks
  <2> QED BY <2>1, <2>2
<1>3. CASE AnyHook
  <2>1. PICK i \in HookInput : Hook(i) \/ TakeoverHook(i)
    BY <1>3 DEF AnyHook
  <2>2. proc # None /\ proc.sid \in Sid
    BY <1>3, EventTyped DEF AnyHook
  <2>3. Doc \in SessionDoc
    BY <1>1, <2>2 DEF Doc
  <2>4. Settled(ApplyHook(Doc, i))
    BY <2>3, HookResult DEF Settled
  <2>5. ASSUME Hook(i) PROVE Fine(file')
    BY <1>1, <2>2, <2>4, <2>5, HookStep
  <2>6. ASSUME TakeoverHook(i) PROVE Fine(file')
    BY <1>1, <1>2, <2>2, <2>4, <2>6, TakeoverStep
  <2>7. Fine(file')
    BY <2>1, <2>5, <2>6
  <2> QED BY <2>7 DEF StoppedMeansNoPendingWork, Settled
<1>4. CASE \E s \in Sid : EndSave(s)
  <2>1. PICK s \in Sid : EndSave(s)
    BY <1>4
  <2>2. ending[s].copy \in SessionRecord
    BY <2>1 DEF EndSave, EndingInv, PaneTypeOK, EndingHook
  <2>3. /\ EndedBy(ending[s].copy) \in SessionDoc
        /\ Settled(EndedBy(ending[s].copy))
    BY <2>2, OtherResults DEF SessionDoc, Settled
  <2>4. Fine(file')
    BY <1>1, <2>1, <2>3 DEF EndSave
  <2> QED BY <2>4 DEF StoppedMeansNoPendingWork, Settled
<1>5. CASE \E s \in Sid : MarkRead(s)
  <2>1. PICK s \in Sid : MarkRead(s)
    BY <1>5
  <2>2. file[s] \in SessionRecord
    BY <1>1, <2>1 DEF MarkRead, SessionDoc
  <2>3. MarkedRead(file[s]) \in SessionDoc /\ Settled(MarkedRead(file[s]))
    BY <1>1, <2>2, OtherResults, NoneAssumption DEF SessionDoc, Settled, has_pending_bg_tasks
  <2>4. Fine(file')
    BY <1>1, <2>1, <2>3 DEF MarkRead
  <2> QED BY <2>4 DEF StoppedMeansNoPendingWork, Settled
<1>6. CASE AgeFiles
  <2>1. Fine(file')
    BY <1>1, <1>2, <1>6 DEF AgeFiles
  <2> QED BY <2>1 DEF StoppedMeansNoPendingWork, Settled
<1>7. CASE file' = file
  BY <1>1, <1>7 DEF StoppedMeansNoPendingWork, Settled
<1> QED BY <1>3, <1>4, <1>5, <1>6, <1>7, Writers DEF AnyWriter

-----------------------------------------------------------------------------
(* How a step changes the process *)

\* The states a process can be in, as one predicate of its record.
Sound(p) ==
  /\ p \in Process
  /\ p.waiting \subseteq p.agents \cup {Main}
  /\ Main \in p.waiting => p.main = "busy"
  /\ p.main \in {"fresh", "resuming", "exiting"} =>
       p.waiting = {} /\ p.agents = {} /\ p.tasks = {}

\* The process keeps its type; one that is starting, resuming or exiting has no
\* prompt and no background work.
LEMMA ProcessPreserved ==
  ASSUME PaneTypeOK, ProcInv, [Next]_paneVars
  PROVE  proc' # None => Sound(proc')
<1>1. proc # None => Sound(proc)
  BY DEF PaneTypeOK, ProcInv, Sound
<1> USE MainThreadAssumption DEF Main, AgentKey
<1>2. ASSUME NEW s \in Sid, StartClaude(s) \/ ResumeClaude(s) PROVE Sound(proc')
  <2>1. PICK m \in {"fresh", "resuming"} : Launch(s, m)
    BY <1>2 DEF StartClaude, ResumeClaude
  <2> QED BY <2>1 DEF Launch, Sound, Process
<1>3. CASE Prompt \/ SessionStartHook \/ StopHook \/ IdlePrompt
  BY <1>1, <1>3 DEF Prompt, SessionStartHook, StopHook, IdlePrompt, Running, Sound, Process
<1>4. ASSUME NEW k \in AgentKey, AskPermission(k) \/ Answer(k) PROVE Sound(proc')
  BY <1>1, <1>4 DEF AskPermission, Answer, Running, Sound, Process
<1>5. ASSUME NEW a \in Agent, Deny(a) PROVE Sound(proc')
  BY <1>1, <1>5 DEF Deny, Woken, Sound, Process
<1>6. CASE Spawn
  BY <1>1, <1>6 DEF Spawn, Running, Sound, Process
<1>7. CASE Finish
  BY <1>1, <1>7 DEF Finish, Woken, Sound, Process
<1>8. CASE Quit \/ ObeySigterm
  BY <1>1, <1>8 DEF Quit, ObeySigterm, ShutDown, Sound, Process
<1>9. CASE Exit \/ Crash
  BY <1>9 DEF Exit, Crash
<1>10. ASSUME proc' = proc PROVE proc' # None => Sound(proc')
  BY <1>1, <1>10
<1>11. CASE UserStep
  BY <1>2, <1>3, <1>8, <1>10, <1>11 DEF UserStep, Type, MarkRead
<1>12. CASE AgentStep
  BY <1>3, <1>4, <1>5, <1>6, <1>7, <1>10, <1>12
     DEF AgentStep, TurnStep, Tool, PermissionNotification, ShutdownStop
<1>13. CASE ExitStep
  BY <1>8, <1>9, <1>10, <1>13 DEF ExitStep, EndLoad, EndSave
<1>14. CASE Tick \/ UNCHANGED paneVars
  BY <1>10, <1>14 DEF Tick, paneVars
<1>15. ASSUME NEW pid \in Pid, Signal(pid) PROVE proc' # None => Sound(proc')
  BY <1>1, <1>15 DEF Signal, Sigterm, Sound, Process
<1> QED BY <1>11, <1>12, <1>13, <1>14, <1>15 DEF Next, PaneNext

\* The SessionEnd hook in progress keeps its type and never runs beside a
\* process that still fires events.
LEMMA EndingPreserved ==
  ASSUME PaneTypeOK, EndingInv, [Next]_paneVars
  PROVE  /\ ending' \in [Sid -> EndingHook] /\ EndingInv'
         /\ typed' \in BOOLEAN /\ remembered' \in SUBSET Pid
<1> USE DEF PaneTypeOK, EndingInv, EndingHook
<1>1. ASSUME ending' = ending, typed' \in {typed, TRUE}, remembered' = remembered,
             \/ proc' = proc
             \/ proc' = None
             \/ proc # None /\ proc.main # "exiting"
             \/ \A s \in Sid : ending[s].at = "none"
      PROVE  /\ ending' \in [Sid -> EndingHook] /\ EndingInv'
             /\ typed' \in BOOLEAN /\ remembered' \in SUBSET Pid
  BY <1>1
<1>2. CASE UserStep /\ ~Quit
  BY <1>1, <1>2 DEF UserStep, StartClaude, ResumeClaude, Launch, MarkRead, Prompt, Type
<1>3. CASE AgentStep
  <2>1. CASE (\E a \in Agent : Deny(a)) \/ Finish
    <3>1. proc.main = "exiting" => proc'.main = "exiting" \/ proc' = None
      BY <2>1 DEF Deny, Finish, Woken, Process
    <3> QED BY <2>1, <3>1 DEF Deny, Finish
  <2>2. CASE ~((\E a \in Agent : Deny(a)) \/ Finish) /\ ~\E k \in AgentKey : Answer(k)
    BY <1>1, <1>3, <2>2 DEF AgentStep, TurnStep, AskPermission, Tool, PermissionNotification, Spawn,
          StopHook, IdlePrompt, ShutdownStop, SessionStartHook, Running
  <2>3. CASE \E k \in AgentKey : Answer(k)
    <3>1. proc.main = "exiting" => proc'.main = "exiting" \/ proc' = None
      BY <2>3 DEF Answer, Process
    <3> QED BY <2>3, <3>1 DEF Answer
  <2> QED BY <2>1, <2>2, <2>3
<1>4. CASE Quit \/ ObeySigterm
  <2>1. PICK b \in BOOLEAN : ShutDown(b)
    BY <1>4 DEF Quit, ObeySigterm
  <2>2. proc \in Process /\ proc'.main = "exiting"
    BY <2>1 DEF ShutDown, Process
  <2>3. ending' \in [Sid -> EndingHook]
    BY <2>1, <2>2 DEF ShutDown, Process
  <2> QED BY <2>1, <2>2, <2>3 DEF ShutDown
<1>5. CASE Exit \/ Crash
  BY <1>1, <1>5 DEF Exit, Crash
<1>6. CASE \E s \in Sid : EndLoad(s) \/ EndSave(s)
  BY <1>6 DEF EndLoad, EndSave, NoHook
<1>7. CASE Tick
  <2>1. \A d \in SessionDoc : Older(d) \in SessionDoc /\ (d # None => Older(d) # None)
    BY OtherResults, NoneAssumption DEF SessionDoc, Older
  <2> QED BY <1>7, <2>1 DEF Tick, AgeFiles, SessionDoc
<1>8. CASE UNCHANGED paneVars
  BY <1>8 DEF paneVars
<1>9. ASSUME NEW pid \in Pid, Signal(pid)
      PROVE  /\ ending' = ending /\ typed' = typed /\ remembered' = remembered
             /\ proc' = proc \/ (proc # None /\ proc.main # "exiting")
  BY <1>9 DEF Signal, Sigterm
<1>10. CASE \E pid \in Pid : Signal(pid)
  BY <1>1, <1>9, <1>10
<1> QED BY <1>2, <1>3, <1>4, <1>5, <1>6, <1>7, <1>8, <1>10
        DEF Next, PaneNext, UserStep, ExitStep

-----------------------------------------------------------------------------
(* How a step changes the document of the process *)

\* DocInv and PromptInv as a predicate of a process and its document.
Tracked(p, d) ==
  /\ p.main = "fresh" => d = None
  /\ p.main \in {"idle", "busy"} =>
       /\ d # None /\ d.status # "Ended"
       /\ d.status = "Paused" => AtRest(p)
  /\ p.main = "idle" => /\ p.agents \subseteq d.pending_agent_task_ids
                        /\ p.tasks \subseteq d.pending_bg_task_ids
  /\ p.waiting # {} => /\ d # None
                       /\ p.waiting \subseteq d.pending_permission_agent_ids
                       /\ d.status = "WaitingInput"

\* An event that is not a Stop keeps what a document tracks, if it forgets no
\* prompt that is still open.
LEMMA EventTracked ==
  ASSUME NEW p, Sound(p), NEW d \in SessionDoc, Tracked(p, d),
         NEW i \in HookInput, i.event # "Stop",
         p.main \in {"idle", "busy"},
         i.event \in {"Notification", "PermissionRequest"} \/ i.agent \notin p.waiting
  PROVE  LET r == ApplyHook(d, i) IN
         /\ Tracked(p, r) /\ r # None /\ r.status # "Ended"
         /\ r.status = "Paused" => determine_status(i) = "Stopped"
         /\ p.waiting \subseteq r.pending_permission_agent_ids
         /\ i.event = "PermissionRequest" =>
              i.agent \in r.pending_permission_agent_ids /\ r.status = "WaitingInput"
<1> DEFINE r == ApplyHook(d, i)
<1>1. /\ d \in SessionRecord /\ d # None /\ Base(d, i) = d
      /\ d.status = "Paused" => AtRest(p)
  BY DEF Tracked, SessionDoc, Base
<1>2. /\ r \in SessionRecord /\ r # None
      /\ r.pending_permission_agent_ids = PermissionsAfter(d, i)
      /\ r.pending_bg_task_ids = d.pending_bg_task_ids
      /\ r.pending_agent_task_ids = d.pending_agent_task_ids
      /\ r.status # "Ended"
      /\ r.status = "Paused" => AtRest(p) /\ determine_status(i) = "Stopped"
      /\ has_pending_permission_requests(r) => r.status = "WaitingInput"
  BY <1>1, HookResult DEF ShellsAfter, SubagentsAfter
<1>3. p.waiting \subseteq r.pending_permission_agent_ids
  BY <1>1, <1>2, PermissionsKept DEF Tracked
<1>4. i.event = "PermissionRequest" => i.agent \in r.pending_permission_agent_ids
  BY <1>1, <1>2, PermissionsKept
<1>5. \A k : k \in r.pending_permission_agent_ids => r.status = "WaitingInput"
  BY <1>2 DEF has_pending_permission_requests
<1> HIDE DEF r
<1>6. Tracked(p, r)
  BY <1>2, <1>3, <1>5 DEF Tracked
<1> QED BY <1>2, <1>3, <1>4, <1>5, <1>6 DEF r

\* A Stop records exactly the work that is in flight, and keeps the prompts of
\* the subagents in it.
LEMMA StopTracked ==
  ASSUME NEW p, Sound(p), NEW d \in SessionDoc, Tracked(p, d),
         p.main \in {"idle", "busy"}, Main \notin p.waiting,
         NEW i \in HookInput, i.event = "Stop", i.agent = Main,
         i.shells = p.tasks, i.subagents = p.agents
  PROVE  LET r == ApplyHook(d, i) IN
         Tracked(p, r) /\ Tracked([p EXCEPT !.main = "idle", !.idled = FALSE], r)
<1> DEFINE r == ApplyHook(d, i)
<1>1. /\ d \in SessionRecord /\ d # None /\ Base(d, i) = d
      /\ d.status = "Paused" => AtRest(p)
  BY DEF Tracked, SessionDoc, Base
<1>2. /\ r # None
      /\ r.pending_permission_agent_ids = PermissionsAfter(d, i)
      /\ r.pending_bg_task_ids = p.tasks
      /\ r.pending_agent_task_ids = p.agents
      /\ r.status # "Ended"
      /\ r.status = "Paused" => AtRest(p)
      /\ has_pending_permission_requests(r) => r.status = "WaitingInput"
  BY <1>1, HookResult DEF ShellsAfter, SubagentsAfter
<1>3. p.waiting \subseteq r.pending_permission_agent_ids
  BY <1>1, <1>2, PermissionsKept DEF Tracked, Sound, Main
<1>4. p.waiting # {} => r.status = "WaitingInput"
  BY <1>2, <1>3 DEF has_pending_permission_requests
<1> HIDE DEF r
<1>5. Tracked(p, r)
  BY <1>2, <1>3, <1>4 DEF Tracked
<1> DEFINE q == [p EXCEPT !.main = "idle", !.idled = FALSE]
<1>6. /\ q.main = "idle" /\ q.agents = p.agents /\ q.tasks = p.tasks
      /\ q.waiting = p.waiting
  BY DEF Sound, Process
<1> HIDE DEF q
<1>7. Tracked(q, r)
  BY <1>2, <1>3, <1>4, <1>6 DEF Tracked, AtRest
<1> QED BY <1>5, <1>7 DEF q, r

\* A document that is merely aged, read or left alone is tracked as before.
LEMMA TouchedTracked ==
  ASSUME NEW p, Sound(p), NEW d \in SessionDoc, Tracked(p, d),
         NEW r \in {d, Older(d), MarkedRead(d)}, d = None => r = None
  PROVE  Tracked(p, r)
<1>1. CASE d = None
  BY <1>1
<1>2. CASE d # None
  <2>1. d \in SessionRecord
    BY <1>2 DEF SessionDoc
  <2>2. /\ r \in SessionRecord /\ r # None /\ r.status = d.status
        /\ r.pending_bg_task_ids = d.pending_bg_task_ids
        /\ r.pending_agent_task_ids = d.pending_agent_task_ids
        /\ r.pending_permission_agent_ids = d.pending_permission_agent_ids
    BY <2>1, OtherResults, NoneAssumption
  <2> HIDE DEF Sound
  <2> QED BY <1>2, <2>2 DEF Tracked
<1> QED BY <1>1, <1>2

\* Every step keeps the document of the running process up to date with its
\* prompts and, while it is idle, with its background work.
LEMMA TrackedPreserved ==
  ASSUME PaneInv, [Next]_paneVars
  PROVE  proc' # None => Tracked(proc', file'[proc'.sid])
<1>1. proc # None => Sound(proc) /\ Tracked(proc, Doc) /\ proc.sid \in Sid /\ Doc \in SessionDoc
  BY DEF PaneInv, PaneTypeOK, ProcInv, DocInv, PromptInv, Sound, Tracked, Doc, Process, SessionDoc
<1>2. PaneTypeOK /\ file \in [Sid -> SessionDoc]
  BY DEF PaneInv, PaneTypeOK, SessionDoc
<1> DEFINE Goal == proc' # None => Tracked(proc', file'[proc'.sid])
<1>3. ASSUME NEW s \in Sid, StartClaude(s) \/ ResumeClaude(s) PROVE Goal
  <2>1. PICK m \in {"fresh", "resuming"} : Launch(s, m) /\ (m = "fresh" => file[s] = None)
    BY <1>3 DEF StartClaude, ResumeClaude
  <2> QED BY <2>1 DEF Launch, Tracked
<1>4. CASE SessionStartHook
  <2> DEFINE i == [Event("SessionStart", Main) EXCEPT !.kind = "resume"]
  <2>1. proc # None /\ proc.waiting = {} /\ proc.agents = {} /\ proc.tasks = {}
    BY <1>1, <1>4 DEF SessionStartHook, Sound
  <2>2. i \in HookInput /\ i.event = "SessionStart"
    BY <1>2, <2>1, EventTyped DEF Event
  <2>3. file'[proc.sid] = ApplyHook(Doc, i)
    BY <1>2, <1>4, <2>1, <2>2, TakeoverStep DEF SessionStartHook
  <2> HIDE DEF i
  <2>4. ApplyHook(Doc, i) # None /\ ApplyHook(Doc, i).status \notin {"Ended", "Paused"}
    BY <1>1, <2>1, <2>2, HookResult
  <2>5. /\ proc'.sid = proc.sid /\ proc'.main = "idle" /\ proc'.waiting = {}
        /\ proc'.agents = {} /\ proc'.tasks = {}
    BY <1>1, <1>4, <2>1 DEF SessionStartHook, Sound, Process
  <2> QED BY <2>3, <2>4, <2>5 DEF Tracked
<1>5. CASE Prompt
  <2> DEFINE i == Event("UserPromptSubmit", Main)
  <2>1. proc # None /\ Main \notin proc.waiting
    BY <1>1, <1>5 DEF Prompt, Sound
  <2>2. /\ i \in HookInput /\ i.event = "UserPromptSubmit" /\ i.agent = Main
        /\ determine_status(i) # "Stopped"
    BY <1>2, <2>1, EventTyped DEF Event, HookEvent, AgentKey, Main, determine_status
  <2>3. file'[proc.sid] = ApplyHook(Doc, i)
    BY <1>2, <1>5, <2>1, <2>2, TakeoverStep, HookStep DEF Prompt
  <2>4. /\ proc'.sid = proc.sid /\ proc'.main = "busy" /\ proc'.waiting = proc.waiting
    BY <1>1, <1>5, <2>1 DEF Prompt, Sound, Process
  <2> HIDE DEF i
  <2>5. CASE proc.main = "fresh"
    <3>1. Doc = None /\ proc.waiting = {}
      BY <1>1, <2>1, <2>5 DEF Tracked, Sound
    <3>2. ApplyHook(Doc, i) # None /\ ApplyHook(Doc, i).status \notin {"Ended", "Paused"}
      BY <1>1, <2>1, <2>2, <3>1, HookResult
    <3> QED BY <2>3, <2>4, <3>1, <3>2 DEF Tracked
  <2>6. CASE proc.main = "idle"
    <3>1. /\ Tracked(proc, ApplyHook(Doc, i)) /\ ApplyHook(Doc, i) # None
          /\ ApplyHook(Doc, i).status \notin {"Ended", "Paused"}
      BY <1>1, <2>1, <2>2, <2>6, EventTracked
    <3> QED BY <2>3, <2>4, <3>1 DEF Tracked
  <2> QED BY <1>5, <2>5, <2>6 DEF Prompt
<1>6. ASSUME NEW k \in AgentKey, NEW e \in {"PreToolUse", "PostToolUse"}, Tool(k, e) PROVE Goal
  <2> DEFINE i == Event(e, k)
  <2>1. /\ proc # None /\ proc.main \in {"idle", "busy"} /\ k \notin proc.waiting
        /\ proc' = proc
    BY <1>1, <1>6 DEF Tool, Running, Sound, Process
  <2>2. i \in HookInput /\ i.event = e /\ i.agent = k
    BY <1>2, <2>1, EventTyped DEF Event, HookEvent
  <2>3. file'[proc.sid] = ApplyHook(Doc, i)
    BY <1>2, <1>6, <2>1, <2>2, HookStep DEF Tool
  <2> HIDE DEF i
  <2>4. Tracked(proc, ApplyHook(Doc, i))
    BY <1>1, <2>1, <2>2, EventTracked
  <2> QED BY <2>1, <2>3, <2>4
<1>7. ASSUME NEW k \in AgentKey, AskPermission(k) PROVE Goal
  <2> DEFINE i == Event("PermissionRequest", k)
  <2>1. proc # None /\ proc.main \in {"idle", "busy"}
    BY <1>1, <1>7 DEF AskPermission, Running, Sound, Process
  <2>2. i \in HookInput /\ i.event = "PermissionRequest" /\ i.agent = k
    BY <1>2, <2>1, EventTyped DEF Event, HookEvent
  <2>3. file'[proc.sid] = ApplyHook(Doc, i)
    BY <1>2, <1>7, <2>1, <2>2, HookStep DEF AskPermission
  <2> HIDE DEF i
  <2> DEFINE r == ApplyHook(Doc, i)
  <2>4. /\ Tracked(proc, r) /\ r # None
        /\ proc.waiting \subseteq r.pending_permission_agent_ids
        /\ k \in r.pending_permission_agent_ids /\ r.status = "WaitingInput"
    BY <1>1, <2>1, <2>2, EventTracked
  <2>5. /\ proc'.sid = proc.sid /\ proc'.main = proc.main
        /\ proc'.agents = proc.agents /\ proc'.tasks = proc.tasks
        /\ proc'.waiting = proc.waiting \cup {k}
    BY <1>1, <1>7, <2>1 DEF AskPermission, Sound, Process
  <2> HIDE DEF r
  <2>6. Tracked(proc', r)
    BY <2>4, <2>5 DEF Tracked
  <2> QED BY <2>3, <2>5, <2>6 DEF r
<1>8. CASE PermissionNotification \/ IdlePrompt
  <2>1. /\ proc # None /\ proc.main \in {"idle", "busy"}
        /\ proc'.sid = proc.sid /\ proc'.main = proc.main /\ proc'.waiting = proc.waiting
        /\ proc'.agents = proc.agents /\ proc'.tasks = proc.tasks
    BY <1>1, <1>8 DEF PermissionNotification, IdlePrompt, Sound, Process
  <2>2. PICK i \in HookInput : i.event = "Notification" /\ Hook(i)
    BY <1>2, <1>8, <2>1, EventTyped DEF PermissionNotification, IdlePrompt, Notify, Event
  <2>3. file'[proc.sid] = ApplyHook(Doc, i)
    BY <1>2, <2>1, <2>2, HookStep
  <2>4. Tracked(proc, ApplyHook(Doc, i))
    BY <1>1, <2>1, <2>2, EventTracked
  <2> QED BY <2>1, <2>3, <2>4 DEF Tracked, AtRest
<1>9. ASSUME NEW k \in AgentKey, Answer(k) PROVE Goal
  <2> DEFINE i == Event("PostToolUse", k)
             p == [proc EXCEPT !.waiting = @ \ {k}]
  <2>1. proc # None /\ proc.main \in {"idle", "busy"} /\ proc' = p
    BY <1>1, <1>9 DEF Answer, Sound, Process
  <2>2. /\ p.sid = proc.sid /\ p.main = proc.main /\ p.waiting = proc.waiting \ {k}
        /\ p.agents = proc.agents /\ p.tasks = proc.tasks /\ p \in Process
    BY <1>1, <2>1 DEF Sound, Process
  <2> HIDE DEF p
  <2>3. Sound(p) /\ Tracked(p, Doc)
    BY <1>1, <2>1, <2>2 DEF Sound, Tracked, AtRest
  <2>4. i \in HookInput /\ i.event = "PostToolUse" /\ i.agent = k
    BY <1>2, <2>1, EventTyped DEF Event, HookEvent
  <2>5. file'[proc.sid] = ApplyHook(Doc, i)
    BY <1>2, <1>9, <2>1, <2>4, HookStep DEF Answer
  <2> HIDE DEF i
  <2>6. Tracked(p, ApplyHook(Doc, i))
    BY <1>1, <2>1, <2>2, <2>3, <2>4, EventTracked
  <2> QED BY <2>1, <2>2, <2>5, <2>6
<1>10. CASE StopHook \/ ShutdownStop
  <2>1. /\ proc # None /\ proc.main \in {"idle", "busy"} /\ Main \notin proc.waiting
        /\ Hook(StopEvent)
        /\ proc' \in {proc, [proc EXCEPT !.main = "idle", !.idled = FALSE]}
    BY <1>1, <1>10, MainThreadAssumption DEF StopHook, ShutdownStop, Running, Sound, Process, Main
  <2>2. /\ StopEvent \in HookInput /\ StopEvent.event = "Stop" /\ StopEvent.agent = Main
        /\ StopEvent.shells = proc.tasks /\ StopEvent.subagents = proc.agents
    BY <1>2, <2>1, EventTyped DEF StopEvent, Event
  <2>3. file'[proc.sid] = ApplyHook(Doc, StopEvent)
    BY <1>2, <2>1, <2>2, HookStep
  <2> DEFINE i == StopEvent
  <2> HIDE DEF i
  <2>6. /\ Tracked(proc, ApplyHook(Doc, i))
        /\ Tracked([proc EXCEPT !.main = "idle", !.idled = FALSE], ApplyHook(Doc, i))
    <3>1. /\ i \in HookInput /\ i.event = "Stop" /\ i.agent = Main
          /\ i.shells = proc.tasks /\ i.subagents = proc.agents
      BY <2>2 DEF i
    <3> QED BY <1>1, <2>1, <3>1, StopTracked
  <2>4. Tracked(proc', ApplyHook(Doc, StopEvent))
    BY <2>1, <2>6 DEF i
  <2>5. proc'.sid = proc.sid
    BY <1>1, <2>1 DEF Sound, Process
  <2> QED BY <2>3, <2>4, <2>5
<1>11. CASE Spawn \/ Finish \/ \E a \in Agent : Deny(a)
  <2>1. /\ proc # None /\ file' = file /\ proc'.sid = proc.sid
        /\ proc'.waiting \subseteq proc.waiting
        /\ \/ proc'.main = "busy" /\ proc.main \in {"idle", "busy"}
           \/ proc'.main = proc.main /\ proc.main # "idle"
        /\ ~AtRest(proc)
    <3> USE DEF AtRest
    <3>1. CASE Spawn
      BY <1>1, <3>1, MainThreadAssumption DEF Spawn, Running, Sound, Process, Main
    <3>2. CASE Finish
      BY <1>1, <3>2 DEF Finish, Woken, Sound, Process
    <3>3. CASE \E a \in Agent : Deny(a)
      BY <1>1, <3>3 DEF Deny, Woken, Sound, Process
    <3> QED BY <1>11, <3>1, <3>2, <3>3
  <2>2. file'[proc'.sid] = Doc
    BY <2>1 DEF Doc
  <2> QED BY <1>1, <2>1, <2>2 DEF Tracked
<1>12. CASE Quit \/ ObeySigterm
  <2>1. proc'.main = "exiting" /\ proc'.waiting = {}
    BY <1>1, <1>12 DEF Quit, ObeySigterm, ShutDown, Sound, Process
  <2> QED BY <2>1 DEF Tracked
<1>13. CASE Exit \/ Crash
  BY <1>13 DEF Exit, Crash
<1>14. ASSUME NEW s \in Sid, EndSave(s) PROVE Goal
  <2>1. proc # None => proc.main = "exiting"
    BY <1>14 DEF EndSave, PaneInv, EndingInv
  <2>2. proc' = proc
    BY <1>14 DEF EndSave
  <2> QED BY <1>1, <2>1, <2>2 DEF Tracked, Sound
<1>15. ASSUME proc' = proc,
              \A s \in Sid : file'[s] \in {file[s], Older(file[s]), MarkedRead(file[s])},
              \A s \in Sid : file[s] = None => file'[s] = None
       PROVE  Goal
  <2>1. CASE proc = None
    BY <1>15, <2>1
  <2>2. CASE proc # None
    <3>1. /\ file'[proc.sid] \in {Doc, Older(Doc), MarkedRead(Doc)}
          /\ Doc = None => file'[proc.sid] = None
      <4>1. proc.sid \in Sid
        BY <1>1, <2>2
      <4> QED BY <1>15, <4>1 DEF Doc
    <3>2. Tracked(proc, file'[proc.sid])
      BY <1>1, <2>2, <3>1, TouchedTracked
    <3> QED BY <1>15, <3>2
  <2> QED BY <2>1, <2>2
<1>16. ASSUME NEW s \in Sid, MarkRead(s) PROVE Goal
  BY <1>2, <1>15, <1>16 DEF MarkRead
<1>17. CASE Tick
  BY <1>15, <1>17 DEF Tick, AgeFiles, Older
<1>18. CASE Type \/ (\E s \in Sid : EndLoad(s)) \/ UNCHANGED paneVars
  BY <1>15, <1>18 DEF Type, EndLoad, paneVars
<1>19. ASSUME NEW pid \in Pid, Signal(pid) PROVE Goal
  <2>0. proc # None => \/ proc' = proc
                       \/ proc' = [proc EXCEPT !.term = TRUE]
    BY <1>19 DEF Signal, Sigterm
  <2>1. proc # None => /\ proc'.sid = proc.sid /\ proc'.main = proc.main
                       /\ proc'.waiting = proc.waiting /\ proc'.agents = proc.agents
                       /\ proc'.tasks = proc.tasks
    BY <1>1, <2>0 DEF Sound, Process
  <2>2. file' = file /\ (proc = None => proc' = None)
    BY <1>19 DEF Signal, Sigterm
  <2> QED BY <1>1, <2>1, <2>2 DEF Tracked, AtRest, Doc
<1> QED BY <1>3, <1>4, <1>5, <1>6, <1>7, <1>8, <1>9, <1>10, <1>11, <1>12, <1>13, <1>14, <1>16,
           <1>17, <1>18, <1>19
        DEF PaneInv, Next, PaneNext, UserStep, AgentStep, TurnStep, ExitStep

-----------------------------------------------------------------------------
(* The theorems *)

\* Every step of the pane keeps the inductive invariant.
LEMMA PaneInvStep == PaneInv /\ [Next]_paneVars => PaneInv'
<1> SUFFICES ASSUME PaneInv, [Next]_paneVars PROVE PaneInv'
  OBVIOUS
<1>1. file' \in [Sid -> SessionRecord \cup {None}] /\ StoppedMeansNoPendingWork'
  BY DocumentsPreserved DEF PaneInv, SessionDoc
<1>2. proc' # None => Sound(proc')
  BY ProcessPreserved DEF PaneInv
<1>3. /\ ending' \in [Sid -> EndingHook] /\ EndingInv'
      /\ typed' \in BOOLEAN /\ remembered' \in SUBSET Pid
  BY EndingPreserved DEF PaneInv
<1>4. proc' # None => Tracked(proc', file'[proc'.sid])
  BY TrackedPreserved
<1>5. PaneTypeOK'
  BY <1>1, <1>2, <1>3 DEF PaneTypeOK, Sound
<1>6. ProcInv'
  BY <1>2 DEF ProcInv, Sound
<1>7. DocInv' /\ PromptInv'
  BY <1>4 DEF DocInv, PromptInv, Tracked, Doc
<1> QED BY <1>1, <1>3, <1>5, <1>6, <1>7 DEF PaneInv

\* The invariant is strong enough for what a user or another program may
\* conclude from the document.
LEMMA PaneInvShows == PaneInv => PromptIsShown /\ WorkIsProtected
<1>1. PaneInv => PromptIsShown
  BY DEF PaneInv, PromptInv, PromptIsShown
<1>2. PaneInv => WorkIsProtected
  <2> SUFFICES ASSUME PaneInv, proc # None, proc.main = "idle",
                      proc.agents # {} \/ proc.tasks # {}
               PROVE  Doc # None /\ Doc.status \in {"Running", "WaitingInput"}
    BY DEF WorkIsProtected
  <2>1. /\ Doc # None /\ Doc.status \notin {"Paused", "Ended"}
        /\ has_pending_bg_tasks(Doc)
    BY DEF PaneInv, DocInv, AtRest, has_pending_bg_tasks
  <2>2. proc.sid \in Sid /\ Doc.status \in Status
    BY <2>1 DEF PaneInv, PaneTypeOK, Process, Doc, SessionRecord
  <2>3. Doc.status # "Stopped"
    BY <2>1, <2>2 DEF PaneInv, StoppedMeansNoPendingWork, Doc
  <2> QED BY <2>1, <2>2, <2>3 DEF Status
<1> QED BY <1>1, <1>2

\* An empty pane without documents satisfies it, so it always holds.
LEMMA PaneInvAlways == Spec => []PaneInv
<1>1. PaneInit => PaneInv
  BY DEF PaneInit, PaneInv, PaneTypeOK, EndingInv, ProcInv, DocInv, PromptInv,
         StoppedMeansNoPendingWork, EndingHook, NoHook
<1> QED BY <1>1, PaneInvStep, PTL DEF Spec

\* The documents, the process and the exit hooks stay well-formed.
THEOREM PaneTypeCorrect == Spec => []PaneTypeOK
<1>1. PaneInv => PaneTypeOK
  BY DEF PaneInv
<1> QED BY <1>1, PaneInvAlways, PTL

\* A permission prompt of any agent is shown as long as it is open, whatever
\* events the other agents fire meanwhile.
THEOREM PromptsAreShown == Spec => []PromptIsShown
<1> QED BY PaneInvShows, PaneInvAlways, PTL

\* No document is Stopped while it lists pending work.
THEOREM StoppedIsSettled == Spec => []StoppedMeansNoPendingWork
<1>1. PaneInv => StoppedMeansNoPendingWork
  BY DEF PaneInv
<1> QED BY <1>1, PaneInvAlways, PTL

\* A session whose background work is still running never looks idle.
THEOREM WorkNeverLooksIdle == Spec => []WorkIsProtected
<1> QED BY PaneInvShows, PaneInvAlways, PTL

-----------------------------------------------------------------------------
(* What the proofs about sweep and auto-compact share *)

\* A process in a turn shows as working.
BusyShows ==
  proc # None /\ proc.main = "busy" => Doc # None /\ Doc.status \in {"Running", "WaitingInput"}

\* A turn shows as work from its prompt, or from the end of the background
\* work that started it, until its Stop.
LEMMA BusyPreserved ==
  ASSUME PaneInv, BusyShows, [Next]_paneVars
  PROVE  BusyShows'
<1> SUFFICES ASSUME proc' # None, proc'.main = "busy" PROVE Doc'.status # "Stopped"
  <2>1. PaneInv'
    BY PaneInvStep
  <2>2. proc' # None /\ proc'.main = "busy" =>
          Doc' # None /\ Doc'.status \in Status \ {"Paused", "Ended"}
    BY <2>1 DEF PaneInv, PaneTypeOK, DocInv, AtRest, Doc, Process, SessionRecord
  <2> QED BY <2>2 DEF BusyShows, Status
<1>0. /\ PaneTypeOK /\ file \in [Sid -> SessionDoc]
      /\ proc # None => proc \in Process /\ proc.sid \in Sid /\ Doc \in SessionDoc
  BY DEF PaneInv, PaneTypeOK, SessionDoc, Process, Doc
<1>1. ASSUME proc # None, proc.main = "busy", proc'.sid = proc.sid,
             file'[proc.sid] \in {Doc, Older(Doc), MarkedRead(Doc)}
      PROVE  Doc'.status # "Stopped"
  <2>1. Doc \in SessionRecord /\ Doc.status # "Stopped"
    BY <1>0, <1>1 DEF BusyShows, SessionDoc
  <2> QED BY <1>1, <2>1, OtherResults DEF Doc
<1>2. ASSUME NEW i \in HookInput, proc # None, proc'.sid = proc.sid,
             Hook(i) \/ TakeoverHook(i), proc.main \in {"fresh", "idle", "busy"},
             determine_status(i) # "Stopped"
      PROVE  Doc'.status # "Stopped"
  <2>1. file'[proc.sid] = ApplyHook(Doc, i)
    BY <1>0, <1>2, HookStep, TakeoverStep
  <2> QED BY <1>0, <1>2, <2>1, HookResult DEF Doc
<1>3. CASE UserStep
  <2>1. CASE Prompt
    <3>1. /\ Event("UserPromptSubmit", Main) \in HookInput /\ proc'.sid = proc.sid
          /\ determine_status(Event("UserPromptSubmit", Main)) # "Stopped"
      BY <1>0, <2>1, EventTyped DEF Prompt, Event, determine_status, HookEvent, AgentKey, Main, Process
    <3> QED BY <1>2, <2>1, <3>1 DEF Prompt
  <2>2. ASSUME NEW s \in Sid, MarkRead(s) PROVE Doc'.status # "Stopped"
    BY <1>0, <1>1, <2>2 DEF MarkRead, Doc
  <2>3. CASE Type
    BY <1>1, <2>3 DEF Type, Doc
  <2>4. ASSUME NEW s \in Sid, StartClaude(s) \/ ResumeClaude(s) PROVE FALSE
    BY <2>4 DEF StartClaude, ResumeClaude, Launch
  <2>5. CASE Quit
    BY <1>0, <2>5 DEF Quit, ShutDown, Process
  <2> QED BY <1>3, <2>1, <2>2, <2>3, <2>4, <2>5 DEF UserStep
<1>4. CASE AgentStep
  <2>1. ASSUME NEW k \in AgentKey, AskPermission(k) \/ Answer(k) PROVE Doc'.status # "Stopped"
    <3>1. proc # None /\ proc'.sid = proc.sid /\ proc.main = "busy"
      BY <1>0, <2>1 DEF AskPermission, Answer, Running, Process
    <3>2. PICK e \in {"PermissionRequest", "PostToolUse"} : Hook(Event(e, k))
      BY <2>1 DEF AskPermission, Answer
    <3>3. Event(e, k) \in HookInput /\ determine_status(Event(e, k)) # "Stopped"
      BY <1>0, <3>1, EventTyped DEF Event, determine_status, HookEvent
    <3> QED BY <1>2, <3>1, <3>2, <3>3
  <2>2. ASSUME NEW k \in AgentKey, NEW e \in {"PreToolUse", "PostToolUse"}, Tool(k, e)
        PROVE  Doc'.status # "Stopped"
    <3>1. Event(e, k) \in HookInput /\ determine_status(Event(e, k)) # "Stopped"
      BY <1>0, <2>2, EventTyped DEF Tool, Running, Event, determine_status, HookEvent
    <3> QED BY <1>2, <2>2, <3>1 DEF Tool, Running
  <2>3. CASE PermissionNotification
    <3>1. /\ Notify("permission_prompt") \in HookInput
          /\ determine_status(Notify("permission_prompt")) # "Stopped"
      BY <1>0, <2>3, EventTyped DEF PermissionNotification, Notify, Event, determine_status
    <3> QED BY <1>2, <2>3, <3>1 DEF PermissionNotification
  <2>4. CASE (\E a \in Agent : Deny(a)) \/ Finish
    <3>1. /\ proc # None /\ file' = file /\ proc'.sid = proc.sid
          /\ proc.main \in {"idle", "busy"}
          /\ proc.agents # {} \/ proc.tasks # {}
      BY <1>0, <2>4 DEF Deny, Finish, Woken, Process
    <3>2. CASE proc.main = "busy"
      BY <1>1, <3>1, <3>2 DEF Doc
    <3>3. CASE proc.main = "idle"
      <4>1. has_pending_bg_tasks(Doc) /\ Doc # None
        BY <3>1, <3>3 DEF PaneInv, DocInv, has_pending_bg_tasks
      <4> QED BY <1>0, <3>1, <4>1 DEF PaneInv, StoppedMeansNoPendingWork, Doc
    <3> QED BY <3>1, <3>2, <3>3
  <2>5. CASE Spawn
    <3>1. proc # None /\ proc'.sid = proc.sid /\ proc.main = "busy" /\ file' = file
      BY <1>0, <2>5, MainThreadAssumption DEF Spawn, Running, Main, Process
    <3> QED BY <1>1, <3>1 DEF Doc
  <2>6. CASE StopHook \/ IdlePrompt \/ ShutdownStop \/ SessionStartHook
    BY <1>0, <2>6 DEF StopHook, IdlePrompt, ShutdownStop, SessionStartHook, Running, Process
  <2> QED BY <1>4, <2>1, <2>2, <2>3, <2>4, <2>5, <2>6 DEF AgentStep, TurnStep
<1>5. CASE ExitStep
  <2>1. CASE ObeySigterm \/ Exit \/ Crash
    BY <1>0, <2>1 DEF ObeySigterm, ShutDown, Exit, Crash, Process
  <2>2. ASSUME NEW s \in Sid, EndLoad(s) PROVE Doc'.status # "Stopped"
    BY <1>1, <2>2 DEF EndLoad, Doc
  <2>3. ASSUME NEW s \in Sid, EndSave(s) PROVE FALSE
    BY <1>0, <2>3 DEF EndSave, PaneInv, EndingInv
  <2> QED BY <1>5, <2>1, <2>2, <2>3 DEF ExitStep
<1>6. CASE Tick
  BY <1>0, <1>1, <1>6 DEF Tick, AgeFiles, Doc
<1>7. CASE (\E pid \in Pid : Signal(pid)) \/ UNCHANGED paneVars
  <2>1. proc # None /\ proc'.sid = proc.sid /\ proc.main = "busy" /\ file' = file
    BY <1>0, <1>7 DEF Signal, Sigterm, Process, paneVars
  <2> QED BY <1>1, <2>1 DEF Doc
<1> QED BY <1>3, <1>4, <1>5, <1>6, <1>7 DEF Next, PaneNext

\* A document that looks idle belongs to a process that has nothing to do.
LEMMA StoppedIsAtRest ==
  ASSUME PaneInv, BusyShows, proc # None, Doc # None, Doc.status = "Stopped"
  PROVE  AtRest(proc)
<1>1. /\ proc \in Process /\ proc.sid \in Sid
      /\ proc.main \in {"fresh", "resuming", "idle", "busy", "exiting"}
  BY DEF PaneInv, PaneTypeOK, Process
<1>2. ~has_pending_bg_tasks(Doc) /\ proc.waiting = {} /\ proc.main \notin {"fresh", "busy"}
  BY <1>1 DEF PaneInv, StoppedMeansNoPendingWork, Doc, PromptInv, DocInv, BusyShows
<1>3. CASE proc.main = "idle"
  BY <1>2, <1>3 DEF PaneInv, DocInv, AtRest, has_pending_bg_tasks
<1>4. CASE proc.main # "idle"
  BY <1>1, <1>2, <1>4 DEF PaneInv, ProcInv, AtRest
<1> QED BY <1>3, <1>4

\* Once a session has a document it keeps one.
LEMMA DocumentStays ==
  ASSUME PaneTypeOK, EndingInv, [Next]_paneVars, NEW s \in Sid, file[s] # None
  PROVE  file'[s] # None
<1>0. PaneTypeOK /\ file[s] \in SessionRecord
  BY DEF PaneTypeOK
<1>1. \A d \in SessionRecord : d # None
  BY NoneAssumption
<1>2. CASE AnyHook
  <2>1. PICK i \in HookInput : Hook(i) \/ TakeoverHook(i)
    BY <1>2 DEF AnyHook
  <2>2. proc # None /\ Doc \in SessionDoc
    BY <1>0, <1>2, EventTyped DEF AnyHook, PaneTypeOK, SessionDoc, Doc
  <2>3. ApplyHook(Doc, i) # None
    BY <2>2, HookResult
  <2>4. Evicted(file[s]) # None
    BY <1>0, <1>1, OtherResults
  <2> QED BY <1>0, <2>1, <2>2, <2>3, <2>4, HookStep, TakeoverStep
<1>3. CASE \E t \in Sid : EndSave(t)
  <2>1. PICK t \in Sid : EndSave(t)
    BY <1>3
  <2>2. EndedBy(ending[t].copy) # None
    BY <1>1, <2>1, OtherResults DEF EndSave, EndingInv, PaneTypeOK, EndingHook
  <2> QED BY <1>0, <2>1, <2>2 DEF EndSave, PaneTypeOK
<1>4. CASE \E t \in Sid : MarkRead(t)
  BY <1>0, <1>1, <1>4, OtherResults DEF MarkRead, PaneTypeOK
<1>5. CASE AgeFiles
  BY <1>0, <1>1, <1>5, OtherResults DEF AgeFiles
<1> QED BY <1>0, <1>2, <1>3, <1>4, <1>5, Writers DEF AnyWriter

\* Left alone, a process that has nothing to do only ends.
LEMMA RestKept ==
  ASSUME PaneTypeOK, AgentStep \/ ExitStep \/ \E pid \in Pid : Signal(pid)
  PROVE  /\ proc' # None => /\ proc # None /\ proc'.sid = proc.sid
                            /\ AtRest(proc) => AtRest(proc')
         /\ typed' = typed
<1>0. proc # None => proc \in Process
  BY DEF PaneTypeOK
<1>1. CASE AgentStep
  <2>1. ASSUME NEW k \in AgentKey, AskPermission(k) \/ Answer(k)
        PROVE  proc # None /\ proc'.sid = proc.sid /\ ~AtRest(proc) /\ typed' = typed
    BY <1>0, <2>1 DEF AskPermission, Answer, Running, Process, AtRest
  <2>2. CASE (\E a \in Agent : Deny(a)) \/ Finish \/ Spawn \/ StopHook
    BY <1>0, <2>2 DEF Deny, Finish, Spawn, StopHook, Running, Process, AtRest
  <2>3. CASE IdlePrompt \/ ShutdownStop \/ SessionStartHook
    BY <1>0, <2>3 DEF IdlePrompt, ShutdownStop, SessionStartHook, Process, AtRest
  <2>4. CASE \/ PermissionNotification
             \/ \E k \in AgentKey : \E e \in {"PreToolUse", "PostToolUse"} : Tool(k, e)
    BY <2>4 DEF PermissionNotification, Tool, Running
  <2> QED BY <1>1, <2>1, <2>2, <2>3, <2>4 DEF AgentStep, TurnStep
<1>2. CASE ExitStep
  BY <1>0, <1>2 DEF ExitStep, ObeySigterm, ShutDown, Exit, Crash, EndLoad, EndSave, Process, AtRest
<1>3. CASE \E pid \in Pid : Signal(pid)
  BY <1>0, <1>3 DEF Signal, Sigterm, Process, AtRest
<1> QED BY <1>1, <1>2, <1>3
=============================================================================
