----------------------------- MODULE AutoCompact -----------------------------
(***************************************************************************)
(* `a cc auto-compact schedule` beside the claude process and the hooks of *)
(* one pane: src/commands/cc/auto_compact/ and the end of                  *)
(* process_hook_event_impl in hook.rs.                                     *)
(*                                                                         *)
(* Every Stop starts a detached worker. It cancels the worker whose pid    *)
(* the pane option holds, puts its own pid there, sleeps for the idle      *)
(* timeout, and, if the session is still idle, kills claude and starts     *)
(* `claude -r <id> -p /compact` in its place. Workers, hooks and the user  *)
(* run concurrently; nothing but the pane option orders the workers.       *)
(***************************************************************************)
EXTENDS ClaudePane

CONSTANTS Worker,        \* pids of workers; one is not used again while it is in
                         \* the option
          UserMeanwhile  \* may the user act while a worker is awake?

ASSUME WorkerAssumption == Worker \cap {"none", "unread"} = {} /\ None \notin Worker
ASSUME MeanwhileAssumption == UserMeanwhile \in BOOLEAN

VARIABLES
  timer,   \* the pane option @armyknife-auto-compact-timer-pid
  worker,  \* what each worker is doing
  due      \* history: whether the last Stop was looked at, and by whom

compactVars == <<timer, worker, due>>
allVars == <<paneVars, compactVars>>

NoWorker == [pc |-> "none", sid |-> None, term |-> FALSE, copy |-> None, quiet |-> FALSE]

WorkerState ==
  [pc: {"none", "cancel", "register", "sleep", "reload", "decide",
        "signal", "grace", "compact", "mark", "marked"},
   sid: Sid \cup {None},
   term: BOOLEAN,                   \* SIGTERM is on its way
   copy: SessionRecord \cup {None}, \* the document it loaded
   quiet: BOOLEAN]                  \* history: claude was idle at that moment

CompactTypeOK ==
  /\ PaneTypeOK
  /\ timer \in Worker \cup {None}
  /\ worker \in [Worker -> WorkerState]
  /\ \A w \in Worker : worker[w].pc = "none" => worker[w] = NoWorker
  /\ due \in Worker \cup {"none", "unread"}

CompactInit ==
  /\ PaneInit
  /\ timer = None
  /\ worker = [w \in Worker |-> NoWorker]
  /\ due = "none"

-----------------------------------------------------------------------------
(* A Stop, and the worker it starts *)

spawn_in_background(w) ==
  /\ worker[w].pc = "none" /\ w # timer
  /\ worker' = [worker EXCEPT ![w] = [NoWorker EXCEPT !.pc = "cancel", !.sid = proc.sid]]

\* The hook saves the document and then starts a worker, unless a background
\* shell is in flight. (Subagents in flight do not stop it.)
StopWithWorker ==
  /\ StopHook \/ ShutdownStop
  /\ IF proc.tasks # {}
       THEN UNCHANGED <<worker, due>>
       ELSE \E w \in Worker : spawn_in_background(w) /\ due' = "unread"
  /\ UNCHANGED timer

At(w, pc) == worker[w].pc = pc
Alive(w)  == ~At(w, "none")
Go(w, pc) == worker' = [worker EXCEPT ![w].pc = pc]
Exits(w)  == worker' = [worker EXCEPT ![w] = NoWorker]

Cancel_KillsEveryWorker(w) ==
  /\ At(w, "cancel")
  /\ worker' = [v \in Worker |->
       IF v = w THEN [worker[w] EXCEPT !.pc = "register"]
       ELSE IF Alive(v) THEN [worker[v] EXCEPT !.term = TRUE]
       ELSE worker[v]]
  /\ UNCHANGED <<paneVars, timer, due>>

\* cancel_previous_timer: SIGTERM to the pid in the option, unless it is the
\* worker's own or the process table does not show an armyknife there (or
\* cannot be read).
Cancel(w) ==
  /\ At(w, "cancel")
  /\ \E hit \in SUBSET ((Worker \cap {timer}) \ {w}) :
       worker' = [v \in Worker |->
         IF v = w THEN [worker[w] EXCEPT !.pc = "register"]
         ELSE IF v \in hit /\ Alive(v) THEN [worker[v] EXCEPT !.term = TRUE]
         ELSE worker[v]]
  /\ UNCHANGED <<paneVars, timer, due>>

Register(w) ==
  /\ At(w, "register")
  /\ timer' = w
  /\ Go(w, "sleep")
  /\ UNCHANGED <<paneVars, due>>

\* SIGTERM is delivered.
Die(w) ==
  /\ Alive(w) /\ worker[w].term
  /\ Exits(w)
  /\ UNCHANGED <<paneVars, timer, due>>

-----------------------------------------------------------------------------
(* Waking up *)

Awake(w) == Alive(w) /\ worker[w].pc \notin {"cancel", "register", "sleep"}

Wake_NoBarrier(w) ==
  /\ At(w, "sleep")
  /\ timer = w => \A v \in Worker : ~Awake(v)
  /\ Go(w, "reload")
  /\ UNCHANGED <<paneVars, timer, due>>

\* The sleep lasts minutes, what follows it seconds: a worker that was awake
\* when this one registered has ended by now. is_current_timer sends home the
\* workers that were replaced while they slept.
Wake(w) ==
  /\ At(w, "sleep")
  /\ timer = w => \A v \in Worker : ~Awake(v)
  /\ IF timer = w THEN Go(w, "reload") ELSE Exits(w)
  /\ UNCHANGED <<paneVars, timer, due>>

Quiet(s) == proc # None /\ proc.sid = s =>
              proc.main # "busy" /\ proc.waiting = {} /\ proc.agents = {} /\ proc.tasks = {}

Reload(w) ==
  /\ At(w, "reload")
  /\ LET s == worker[w].sid IN
       worker' = [worker EXCEPT ![w].pc = "decide", ![w].copy = file[s], ![w].quiet = Quiet(s)]
  /\ due' = IF due = "none" THEN "none" ELSE w
  /\ UNCHANGED <<paneVars, timer>>

\* decide_compact. What the input box, GitHub and the transcript say may speak
\* against it at any time.
decide_compact_AnyStatus(d) == ~has_pending_bg_tasks(d)

decide_compact(d) == d.status = "Stopped" /\ ~has_pending_bg_tasks(d)

Decide(w) ==
  /\ At(w, "decide")
  /\ \/ decide_compact(worker[w].copy) /\ Go(w, "signal")
     \/ Exits(w)
  /\ due' = IF due = w THEN "none" ELSE due
  /\ UNCHANGED <<paneVars, timer>>

-----------------------------------------------------------------------------
(* execute_compaction *)

\* Whatever claude runs in the pane gets SIGTERM, and 500 ms to end.
SignalClaude(w) ==
  /\ At(w, "signal")
  /\ IF proc = None
       THEN Go(w, "compact") /\ UNCHANGED proc
       ELSE Go(w, "grace") /\ Sigterm(proc.pid)
  /\ UNCHANGED <<file, ending, typed, remembered, timer, due>>

Grace(w) ==
  /\ At(w, "grace")
  /\ Go(w, "compact")
  /\ UNCHANGED <<paneVars, timer, due>>

\* spawn_compact_resume, which may fail. Its claude fires no hooks.
Compact(w) ==
  /\ At(w, "compact")
  /\ Go(w, "mark") \/ Exits(w)
  /\ UNCHANGED <<paneVars, timer, due>>

\* mark_paused_in loads the document ...
MarkLoad(w) ==
  /\ At(w, "mark")
  /\ worker' = [worker EXCEPT ![w].pc = "marked", ![w].copy = file[worker[w].sid]]
  /\ UNCHANGED <<paneVars, timer, due>>

\* ... and saves it under a lock of its own.
MarkSave(w) ==
  /\ At(w, "marked")
  /\ file' = [file EXCEPT ![worker[w].sid] = [worker[w].copy EXCEPT !.status = "Paused",
                                                                     !.age = 0]]
  /\ Exits(w)
  /\ UNCHANGED <<proc, ending, typed, remembered, timer, due>>

-----------------------------------------------------------------------------
WorkerStep(w) == \/ Cancel(w) \/ Register(w) \/ Die(w) \/ Wake(w) \/ Reload(w) \/ Decide(w)
                 \/ SignalClaude(w) \/ Grace(w) \/ Compact(w) \/ MarkLoad(w) \/ MarkSave(w)

\* A worker is awake for seconds, most of them for the answer of GitHub.
UserAround == UserStep /\ (UserMeanwhile \/ ~\E w \in Worker : Awake(w))

CompactNext == \/ (UserAround \/ TurnStep \/ ExitStep) /\ UNCHANGED compactVars
               \/ StopWithWorker
               \/ \E w \in Worker : WorkerStep(w)

CompactSpec == CompactInit /\ [][CompactNext]_allVars

\* A worker that was started runs.
FairCompactSpec == CompactSpec /\ \A w \in Worker : WF_allVars(WorkerStep(w))

-----------------------------------------------------------------------------
(* Properties *)

Acting(w) == worker[w].pc \in {"signal", "grace", "compact", "mark", "marked"}

\* schedule.rs:148-151: a worker that wakes up while its cancellation is on its
\* way, or was never sent, does not compact beside the one that replaced it.
OneCompactor == \A v, w \in Worker : v # w /\ Acting(v) => ~Acting(w)

\* decision.rs:27-46: nobody kills a claude that was in a turn, at a prompt or
\* had work in flight when the worker read its document.
CompactsOnlyIdle == \A w \in Worker : At(w, "signal") => worker[w].quiet

\* Workers cancel each other, but the last Stop is always looked at by one
\* that lives to decide, unless there is always one more Stop.
LastStopIsHandled == []<><<StopWithWorker>>_allVars \/ (due # "none" ~> due = "none")
=============================================================================
