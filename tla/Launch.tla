------------------------------- MODULE Launch -------------------------------
(***************************************************************************)
(* `a cc new`: the user and the agents that open windows and panes for new *)
(* claude sessions in one tmux session, src/commands/cc/new/ above         *)
(* src/infra/tmux/layout.rs.                                               *)
(*                                                                         *)
(* The label and the ancestors of the new session travel in environment    *)
(* variables of the tmux session, which every pane that is opened          *)
(* meanwhile inherits. A launch by an agent, and every split of a pane,    *)
(* takes two invocations of tmux. The prompt is saved in one file for the  *)
(* repository in case the launch fails, and passed in a file of its own,   *)
(* which the last claude of the window removes after its exit.             *)
(***************************************************************************)
EXTENDS Layout

CONSTANTS NewRun,        \* runs of `a cc new`, and windows opened by hand
          LayoutsInUse,  \* the layouts that wm.layout may be
          PlainClaude,   \* the command of a split pane, and of a user
          OthersMeanwhile  \* may others act in the middle of a launch?

ASSUME NewAssumption == /\ PlainClaude \in Claude /\ NoRun \notin NewRun
                        /\ OthersMeanwhile \in BOOLEAN

VARIABLES
  wm_layout,  \* the layout in the configuration
  environ,    \* the variables of the tmux session
  panes,      \* the panes each run has made, in the order of tmux
  active,     \* the active pane of each window
  run,        \* what each run is doing
  cached,     \* whose prompt wm_prompt holds
  files       \* the runs whose prompt file exists
newVars == <<wm_layout, environ, panes, active, run, cached, files>>

Var == {"label", "ancestors"}
NoSession == <<NoRun, 0>>

\* caller: the session whose claude ran the command, NoSession for the user.
\* env, vars: the variables it passes. own: history, what it should pass.
Unborn == [pc |-> "none", mode |-> "window", caller |-> NoSession, prompt |-> FALSE,
           env |-> Unset, vars |-> {}]

LaunchTypeOK ==
  /\ wm_layout \in LayoutsInUse
  /\ cached \in NewRun \cup {NoRun} /\ files \subseteq NewRun
  /\ \A r \in NewRun :
       /\ run[r].pc \in {"none", "saved", "made", "half", "built", "done", "failed"}
       /\ run[r].mode \in {"window", "split", "hand"}
       /\ run[r].vars \subseteq Var
       /\ active[r] \in 0 .. Len(panes[r])

LaunchInit ==
  /\ wm_layout \in LayoutsInUse
  /\ environ = Unset
  /\ panes = [r \in NewRun |-> <<>>] /\ active = [r \in NewRun |-> 0]
  /\ run = [r \in NewRun |-> Unborn]
  /\ cached = NoRun /\ files = {}

-----------------------------------------------------------------------------
At_(r, pc) == run[r].pc = pc
Goes_(r, pc) == run' = [run EXCEPT ![r].pc = pc]
UnderWay(r) == run[r].pc \notin {"none", "done", "failed"}
Free == OthersMeanwhile \/ ~\E r \in NewRun : UnderWay(r)

Sessions == {<<r, i>> \in NewRun \X (1 .. 4) : i <= Len(panes[r]) /\ panes[r][i].doc # NoDoc}
DocOf(s) == panes[s[1]][s[2]].doc
Running_(s) == DocOf(s).at = "running"

\* CLAUDECODE is set where claude runs the command.
background(r) == run[r].caller # NoSession

\* tmux as one run sees it.
Tmux(r) == [env |-> environ, panes |-> panes[r], active |-> active[r], ok |-> TRUE]
TmuxIs(r, tmux) == /\ environ' = tmux.env
                   /\ panes' = [panes EXCEPT ![r] = tmux.panes]
                   /\ active' = [active EXCEPT ![r] = tmux.active]

-----------------------------------------------------------------------------
(* A run *)

save_prompt_cache(r, prompt) == cached' = IF prompt THEN r ELSE cached

\* The file has one name for the repository.
delete_prompt_cache == cached' = NoRun

Succeeds(r) == Goes_(r, "done") /\ delete_prompt_cache
Fails(r) == Goes_(r, "failed") /\ UNCHANGED cached

run_inner(r) ==
  /\ At_(r, "none") /\ Free
  /\ \E caller \in {s \in Sessions : Running_(s)} \cup {NoSession}, prompt \in BOOLEAN,
        mode \in {"window", "split"}, labelled \in BOOLEAN :
       /\ run' = [run EXCEPT ![r] = [Unborn EXCEPT !.pc = "saved", !.mode = mode,
            !.caller = caller, !.prompt = prompt, !.env.label = IF labelled THEN r ELSE NoRun]]
       /\ save_prompt_cache(r, prompt)
  /\ UNCHANGED <<wm_layout, environ, panes, active, files>>

\* The parent's own chain, if its document can still be read.
build_ancestor_chain(s) == {DocOf(s).ancestors \o <<s>>, <<s>>}

build_env_vars(r) ==
  \E chain \in IF background(r) THEN build_ancestor_chain(run[r].caller) ELSE {<<>>} :
    run' = [run EXCEPT ![r].pc = "made", ![r].env.ancestors = chain,
       ![r].vars = {v \in Var : IF v = "label" THEN run[r].env.label # NoRun
                                         ELSE background(r)}]

\* The worktree is made, or the pane to split is found; what the new claude is
\* to know is put together, its prompt in a file of its own.
run_worktree_creation(r) ==
  /\ At_(r, "saved")
  /\ \/ Fails(r) /\ UNCHANGED files
     \/ /\ build_env_vars(r) /\ UNCHANGED cached
        /\ files' = IF run[r].prompt THEN files \cup {r} ELSE files
  /\ UNCHANGED <<wm_layout, environ, panes, active>>

\* A window for the user: everything in one invocation.
build_layout(r) ==
  /\ At_(r, "made") /\ run[r].mode = "window" /\ ~background(r)
  /\ LET tmux == run_tmux(Tmux(r), build_layout_commands(wm_layout, run[r].prompt,
                                                         run[r].env, run[r].vars)) IN
       TmuxIs(r, tmux) /\ Goes_(r, IF tmux.ok THEN "built" ELSE "failed")
  /\ UNCHANGED <<wm_layout, cached, files>>

\* The window, or the new pane, is made and its id captured ...
capture_id(r) ==
  /\ At_(r, "made") /\ (run[r].mode = "split" \/ background(r))
  /\ TmuxIs(r, run_tmux(Tmux(r), build_layout_setup(run[r].env, run[r].vars)))
  /\ Goes_(r, "half")
  /\ UNCHANGED <<wm_layout, cached, files>>

\* ... and addressed by it. Only split_pane unsets the variables when that fails.
AfterError(r, tmux) ==
  IF tmux.ok \/ run[r].mode = "window" THEN tmux
  ELSE run_tmux(tmux, unset_environment_commands(run[r].vars))

Rest(r) == IF run[r].mode = "window"
             THEN build_layout_rest(wm_layout, run[r].prompt, run[r].vars)
             ELSE split_pane_rest(PlainClaude, run[r].prompt, run[r].vars)

execute_rest(r) ==
  /\ At_(r, "half")
  /\ LET tmux == run_tmux(Tmux(r), Rest(r)) IN
       /\ TmuxIs(r, AfterError(r, tmux))
       /\ Goes_(r, IF tmux.ok THEN "built" ELSE "failed")
  /\ UNCHANGED <<wm_layout, cached, files>>

\* The user is taken to the new window or pane, if there is one to take.
setup_tmux_window(r) ==
  /\ At_(r, "built")
  /\ \/ Succeeds(r)
     \/ ~background(r) /\ Fails(r)
  /\ UNCHANGED <<wm_layout, environ, panes, active, files>>

RunStep(r) == \/ run_inner(r) \/ run_worktree_creation(r) \/ build_layout(r) \/ capture_id(r)
              \/ execute_rest(r) \/ setup_tmux_window(r)

-----------------------------------------------------------------------------
(* The panes *)

IsClaude(r, i) == i <= Len(panes[r]) /\ panes[r][i].typed \in Claude

\* A shell is up before the claude that was typed earlier has ended.
InTurn(r, i) == OthersMeanwhile \/ \A k \in 1 .. i - 1 : panes[r][k].typed \in Claude =>
                                     panes[r][k].doc # NoDoc

\* The shell reads the prompt and starts claude, whose first hook writes the
\* document with what the pane has inherited.
SessionStart(r, i) ==
  /\ IsClaude(r, i) /\ panes[r][i].doc = NoDoc /\ InTurn(r, i)
  /\ panes' = [panes EXCEPT
       ![r][i].doc = [at |-> "running", label |-> panes[r][i].env.label,
                      ancestors |-> panes[r][i].env.ancestors],
       ![r][i].read = r \in files]
  /\ UNCHANGED <<wm_layout, environ, active, run, cached, files>>

\* The shell goes on to the `rm`.
SessionEnds(r, i) ==
  /\ IsClaude(r, i) /\ panes[r][i].doc # NoDoc /\ Running_(<<r, i>>)
  /\ panes' = [panes EXCEPT ![r][i].doc.at = "ended"]
  /\ files' = IF panes[r][i].rm THEN files \ {r} ELSE files
  /\ UNCHANGED <<wm_layout, environ, active, run, cached>>

\* The user opens a window and types claude.
ByHand(r) ==
  /\ At_(r, "none") /\ Free
  /\ panes' = [panes EXCEPT ![r] = <<[NewPane(environ, Screen) EXCEPT !.typed = PlainClaude]>>]
  /\ active' = [active EXCEPT ![r] = 1]
  /\ run' = [run EXCEPT ![r] = [Unborn EXCEPT !.pc = "done", !.mode = "hand"]]
  /\ UNCHANGED <<wm_layout, environ, cached, files>>

\* A pane or window that is closed before its run has finished with it.
KillWindow(r) ==
  /\ At_(r, "half") /\ (OthersMeanwhile \/ run[r].mode = "split") /\ panes[r] # <<>>
  /\ panes' = [panes EXCEPT ![r] = <<>>] /\ active' = [active EXCEPT ![r] = 0]
  /\ UNCHANGED <<wm_layout, environ, run, cached, files>>

PaneStep(r) == \/ ByHand(r) \/ KillWindow(r)
               \/ \E i \in 1 .. Len(panes[r]) : SessionStart(r, i) \/ SessionEnds(r, i)

LaunchNext == \E r \in NewRun : RunStep(r) \/ PaneStep(r)
LaunchSpec == LaunchInit /\ [][LaunchNext]_newVars

-----------------------------------------------------------------------------
(* Properties *)

\* layout.rs: once a window is complete its panes are where the layout puts
\* them, each with the command that the layout gives it, and the pane with
\* the focus is the last one that asks for it.
LayoutAsConfigured ==
  \A r \in NewRun : At_(r, "built") /\ run[r].mode = "window" /\ panes[r] # <<>> =>
    /\ {[typed |-> p.typed, rect |-> p.rect] : p \in {panes[r][i] : i \in 1 .. Len(panes[r])}}
         = Wanted(wm_layout, Screen)
    /\ FocusLast(wm_layout) # <<>> =>
         \E e \in {PaneEntries(wm_layout)[i] : i \in 1 .. Len(PaneEntries(wm_layout))} :
           e.focus /\ panes[r][active[r]].typed = e.command

\* The sessions above one, root first, whatever became of them.
RECURSIVE Family(_)
Family(s) == IF run[s[1]].caller = NoSession THEN <<>>
             ELSE Family(run[s[1]].caller) \o <<run[s[1]].caller>>

\* new/mod.rs, hook.rs: a session bears the label that its own launch gave it
\* and no other, its ancestors are the end of the chain of those who really
\* called, its caller included, and every claude of a launch with a prompt is
\* given that prompt.
GetsItsOwn ==
  \A s \in Sessions :
    LET r == s[1]  doc == DocOf(s) IN
    /\ doc.label = run[r].env.label
    /\ IsSuffix(doc.ancestors, Family(s))
    /\ run[r].caller # NoSession => doc.ancestors # <<>>
    /\ panes[r][s[2]].read = run[r].prompt
=============================================================================
